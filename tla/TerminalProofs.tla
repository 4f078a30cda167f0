---------------------------- MODULE TerminalProofs ----------------------------
(***************************************************************************)
(* What the parallel executor leaves on the terminal, for any number of    *)
(* tests, workers, signals and stray writes: whole blocks, one per test,   *)
(* and every write of the system-wide logger, held back until the end.     *)
(***************************************************************************)
EXTENDS TestExecutorParallelizerProofs, SequenceTheorems

-----------------------------------------------------------------------------
(* Lines *)

LEMMA LinesTyped ==
    ASSUME NEW t \in Tests, NEW part \in Parts
    PROVE  Line(t, part) \in Lines /\ Line(t, part).test = t /\ Line(t, part).part = part
  BY DEF Line, Lines

\* One line more at the end.
LEMMA Appended ==
    ASSUME NEW s \in Seq(Lines), NEW line \in Lines
    PROVE  /\ Append(s, line) \in Seq(Lines)
           /\ Len(Append(s, line)) = Len(s) + 1
           /\ DOMAIN s = 1..Len(s) /\ DOMAIN Append(s, line) = 1..(Len(s) + 1)
           /\ \A i \in 1..Len(s) : Append(s, line)[i] = s[i] /\ s[i] \in Lines
           /\ Append(s, line)[Len(s) + 1] = line
           /\ Len(s) \in Nat /\ Append(s, line) # <<>>
           /\ s # <<>> <=> Len(s) > 0
  BY AppendProperties, ElementOfSeq, LenProperties, EmptySeq

\* The lines of the system-wide logger are finitely many, and one more after such a write.
LEMMA SystemLinesCounted ==
    ASSUME NEW s \in Seq(Lines)
    PROVE  IsFiniteSet(SystemLines(s)) /\ Cardinality(SystemLines(s)) \in Nat
<1>1. SystemLines(s) \subseteq 1..Len(s) /\ Len(s) \in Nat
  BY LenProperties DEF SystemLines
<1>2. IsFiniteSet(1..Len(s))
  BY <1>1, FS_Interval
<1> QED
  BY <1>1, <1>2, FS_Subset, FS_CardinalityType

LEMMA SystemLinesAppended ==
    ASSUME NEW s \in Seq(Lines), NEW line \in Lines
    PROVE  /\ line.part = "system" =>
                Cardinality(SystemLines(Append(s, line))) = Cardinality(SystemLines(s)) + 1
           /\ line.part # "system" => SystemLines(Append(s, line)) = SystemLines(s)
<1>1. CASE line.part = "system"
  <2>1. SystemLines(Append(s, line)) = SystemLines(s) \cup {Len(s) + 1}
    BY <1>1, Appended DEF SystemLines
  <2>2. Len(s) + 1 \notin SystemLines(s)
    BY Appended DEF SystemLines
  <2> QED
    BY <1>1, <2>1, <2>2, SystemLinesCounted, FS_AddElement
<1>2. CASE line.part # "system"
  BY <1>2, Appended DEF SystemLines
<1> QED
  BY <1>1, <1>2

\* A text of results and held lines adds as many lines of the system-wide logger as it holds.
LEMMA SystemLinesConcatenated ==
    ASSUME NEW s \in Seq(Lines), NEW results \in Seq(Lines), NEW held \in Seq(Lines),
           \A i \in DOMAIN results : results[i].part # "system",
           \A i \in DOMAIN held : held[i].part = "system"
    PROVE  Cardinality(SystemLines(s \o (results \o held)))
              = Cardinality(SystemLines(s)) + Len(held)
<1> DEFINE all   == s \o (results \o held)
           first == Len(s) + Len(results) + 1
           last  == Len(s) + Len(results) + Len(held)
<1>1. /\ Len(s) \in Nat /\ Len(results) \in Nat /\ Len(held) \in Nat
      /\ DOMAIN s = 1..Len(s) /\ DOMAIN results = 1..Len(results) /\ DOMAIN held = 1..Len(held)
  BY LenProperties
<1>2. /\ DOMAIN all = 1..last
      /\ \A i \in 1..Len(s) : all[i] = s[i]
      /\ \A i \in (Len(s) + 1)..(first - 1) : all[i] = results[i - Len(s)]
      /\ \A i \in first..last : all[i] = held[i - (first - 1)]
  BY <1>1, ConcatProperties
<1>3. SystemLines(all) = SystemLines(s) \cup (first..last)
  BY <1>1, <1>2 DEF SystemLines
<1>4. SystemLines(s) \cap (first..last) = {}
  BY <1>1 DEF SystemLines
<1>5. /\ first \in Int /\ last \in Int
      /\ (IF first > last THEN 0 ELSE last - first + 1) = Len(held)
  BY <1>1
<1> HIDE DEF first, last
<1>6. IsFiniteSet(first..last) /\ Cardinality(first..last) = Len(held)
  BY <1>5, FS_Interval
<1>7. Cardinality(SystemLines(s) \cup (first..last))
         = Cardinality(SystemLines(s)) + Cardinality(first..last) - Cardinality({})
  BY <1>4, <1>6, SystemLinesCounted, FS_Union
<1> QED
  BY <1>1, <1>3, <1>6, <1>7, SystemLinesCounted, FS_EmptySet

-----------------------------------------------------------------------------
(* Steps *)

\* Nothing is printed or recorded, and no printer moves.
Silent ==
    /\ UNCHANGED <<mutex, testOutputs, stdout, logMessages, systemLogs>>
    /\ \A w \in Workers :
          /\ \A pc \in {"copy", "status"} : workerPc'[w] = pc <=> workerPc[w] = pc
          /\ workerPc[w] \in {"copy", "status"} => current'[w] = current[w]
    /\ (BeforeSummary' => BeforeSummary) /\ (Summarised' <=> Summarised)

PrintsSummary == MainStep("summaryBody", "verdict") /\ Summarise

LEMMA TerminalSteps ==
    ASSUME SchedulingInvariant, [Next]_vars
    PROVE  Silent \/ SystemLog \/ PrintsSummary \/ \E w \in Workers : LogTestOutput(w)
<1>0. TypeOK
  BY DEF SchedulingInvariant
<1> USE DEF mainVars, workerVars, signalVars, managerVars, MainStep, WorkerStep, BeforeSummary,
            Summarised, AfterWait, AfterVerdict
<1>1. ASSUME NEW w \in Workers,
             ReceiveTest(w) \/ LeaveLoop(w) \/ CreateTempfile(w) \/ RunTest(w) \/ RunWorkerDefers(w)
      PROVE  Silent
  BY <1>0, <1>1
  DEF ReceiveTest, LeaveLoop, CreateTempfile, RunTest, RunWorkerDefers, Silent, TypeOK
<1>2. CASE SpawnWorker
  <2>1. spawned + 1 \in Workers /\ workerPc[spawned + 1] = "unborn"
    BY <1>0, <1>2, ParallelizerAssumption
    DEF SpawnWorker, SchedulingInvariant, WorkersCounted, TypeOK, Workers
  <2> QED
    BY <1>0, <1>2, <2>1 DEF SpawnWorker, Silent, TypeOK
<1>3. CASE LoadWorkQueue \/ InterceptLogs \/ AwaitWorkers \/ StopIntercepting
           \/ GetAllTestsPassed \/ RunMainDefers
  BY <1>3 DEF LoadWorkQueue, InterceptLogs, StartInterceptingStdLogger, AwaitWorkers,
     StopIntercepting, LockAndUnlock, StopInterceptingStdLogger, GetAllTestsPassed,
     RunMainDefers, Silent
<1>4. CASE Summarise
  BY <1>4 DEF Summarise, LockAndUnlock, Silent, PrintsSummary
<1>5. CASE DeliverSignal
  BY <1>5 DEF DeliverSignal, SchedulingInvariant, MainFollowsWorkers, Silent
<1>6. CASE HandleSignal \/ UNCHANGED vars
  BY <1>6 DEF HandleSignal, vars, Silent
<1> QED
  BY <1>1, <1>2, <1>3, <1>4, <1>5, <1>6 DEF Next, Main, Worker, Finished

\* A method of the manager prints on the terminal, whether the standard logger is
\* intercepted or not.
LEMMA PrintsOnTerminal == LoggersFit => PickLogger = "stdout"
  BY DEF LoggersFit, PickLogger

LEMMA LoggersFitKept ==
    ASSUME SchedulingInvariant, LoggersFit, [Next]_vars
    PROVE  LoggersFit'
<1>0. TypeOK
  BY DEF SchedulingInvariant
<1> USE DEF mainVars, workerVars, signalVars, managerVars, MainStep, WorkerStep
<1>1. ASSUME NEW w \in Workers,
             ReceiveTest(w) \/ LeaveLoop(w) \/ CreateTempfile(w) \/ RunWorkerDefers(w)
      PROVE  LoggersFit'
  BY <1>1 DEF ReceiveTest, LeaveLoop, CreateTempfile, RunWorkerDefers, LoggersFit
<1>2. ASSUME NEW w \in Workers, RunTest(w) PROVE LoggersFit'
  <2>1. mainPc = "spawn"
    BY <1>2, WorkerStepsDuringSpawn DEF RunTest
  <2> QED
    BY <1>2, <2>1 DEF RunTest, LoggersFit
<1>3. ASSUME NEW w \in Workers, LogTestOutput(w) PROVE LoggersFit'
  BY <1>3, PrintsOnTerminal
  DEF LogTestOutput, LogTestOutputBegin, LogTestOutputCopy, LogTestOutputEnd, LoggersFit
<1>4. CASE LoadWorkQueue \/ SpawnWorker \/ AwaitWorkers \/ GetAllTestsPassed \/ RunMainDefers
  BY <1>4 DEF LoadWorkQueue, SpawnWorker, AwaitWorkers, GetAllTestsPassed, LockAndUnlock,
     RunMainDefers, LoggersFit
<1>5. CASE InterceptLogs
  BY <1>5 DEF InterceptLogs, StartInterceptingStdLogger, LoggersFit
<1>6. CASE StopIntercepting \/ Summarise
  BY <1>6 DEF StopIntercepting, Summarise, LockAndUnlock, StopInterceptingStdLogger, PrintSummary,
     LoggersFit
<1>7. CASE DeliverSignal
  BY <1>7 DEF DeliverSignal, SchedulingInvariant, MainFollowsWorkers, AfterVerdict, LoggersFit
<1>8. CASE HandleSignal \/ SystemLog \/ UNCHANGED vars
  BY <1>8 DEF HandleSignal, SystemLog, SystemLogWrite, vars, LoggersFit
<1> QED
  BY <1>1, <1>2, <1>3, <1>4, <1>5, <1>6, <1>7, <1>8 DEF Next, Main, Worker, Finished

-----------------------------------------------------------------------------
(* The three prints of logTestOutput *)

\* A print is one line more on the terminal, for the worker's own test.
LEMMA PrintEffect ==
    ASSUME SchedulingInvariant, LoggersFit, NEW w \in Workers, LogTestOutput(w)
    PROVE  /\ current[w] \in Tests /\ current' = current /\ mainPc' = mainPc
           /\ UNCHANGED <<logMessages, systemLogs>>
           /\ \A v \in Workers \ {w} : workerPc'[v] = workerPc[v]
           /\ \A v \in Workers \ {w} : workerPc[v] \notin {"copy", "status"}
           /\ \/ /\ workerPc[w] = "log" /\ workerPc'[w] = "copy" /\ mutex = 0 /\ mutex' = w
                 /\ current[w] \notin logged /\ logged' = logged \cup {current[w]}
                 /\ stdout' = Append(stdout, Line(current[w], "banner"))
              \/ /\ workerPc[w] = "copy" /\ workerPc'[w] = "status" /\ mutex = w /\ mutex' = w
                 /\ logged' = logged
                 /\ stdout' = Append(stdout, Line(current[w], "logs"))
              \/ /\ workerPc[w] = "status" /\ workerPc'[w] = "receive" /\ mutex = w /\ mutex' = 0
                 /\ logged' = logged
                 /\ stdout' = Append(stdout, Line(current[w], "status"))
<1>0. TypeOK /\ MutexIsHeldByPrinter /\ \A v \in Workers : v # 0
  BY ParallelizerAssumption DEF SchedulingInvariant, Workers
<1> USE DEF WorkerStep, WriteTo, logged
<1>1. current[w] \in Tests /\ (workerPc[w] = "log" => current[w] \notin logged)
  BY DEF LogTestOutput, SchedulingInvariant, WorkersHoldTests, RunOnce, Held
<1>2. \A v \in Workers \ {w} : workerPc'[v] = workerPc[v]
  BY <1>0 DEF LogTestOutput, TypeOK
<1>3. /\ current' = current /\ mainPc' = mainPc /\ systemLogs' = systemLogs
  BY DEF LogTestOutput, mainVars
<1>4. CASE WorkerStep(w, "log", "copy") /\ LogTestOutputBegin(w, current[w], result[w])
  BY <1>0, <1>1, <1>2, <1>3, <1>4, PrintsOnTerminal
  DEF LogTestOutputBegin, MutexIsHeldByPrinter, TypeOK
<1>5. CASE WorkerStep(w, "copy", "status") /\ LogTestOutputCopy(current[w])
  BY <1>0, <1>1, <1>2, <1>3, <1>5
  DEF LogTestOutputCopy, LoggersFit, MutexIsHeldByPrinter, TypeOK
<1>6. CASE WorkerStep(w, "status", "receive") /\ LogTestOutputEnd(current[w])
  BY <1>0, <1>1, <1>2, <1>3, <1>6
  DEF LogTestOutputEnd, LoggersFit, MutexIsHeldByPrinter, TypeOK
<1> QED
  BY <1>4, <1>5, <1>6 DEF LogTestOutput

LEMMA PrintKeepsLastLine ==
    ASSUME SchedulingInvariant, TerminalInvariant, NEW w \in Workers, LogTestOutput(w)
    PROVE  LastLineFits' /\ (stdout \in Seq(Lines))'
<1>1. \A part \in Parts : Line(current[w], part) \in Lines /\ Line(current[w], part).part = part
  BY PrintEffect, LinesTyped DEF TerminalInvariant
<1>2. {"banner", "logs", "status"} \subseteq Parts /\ \A v \in Workers : v # 0
  BY ParallelizerAssumption DEF Parts, Workers
<1>3. ASSUME NEW part \in {"banner", "logs", "status"},
             stdout' = Append(stdout, Line(current[w], part))
      PROVE  /\ stdout' \in Seq(Lines) /\ stdout' # <<>>
             /\ LastLine' = Line(current[w], part) /\ LastLine'.part = part
  BY <1>1, <1>2, <1>3, Appended DEF LastLine, TerminalInvariant
<1>4. CASE workerPc[w] = "log"
  BY <1>2, <1>3, <1>4, PrintEffect DEF LastLineFits, TerminalInvariant
<1>5. CASE workerPc[w] = "copy"
  BY <1>2, <1>3, <1>5, PrintEffect DEF LastLineFits, TerminalInvariant
<1>6. CASE workerPc[w] = "status"
  BY <1>2, <1>3, <1>6, PrintEffect DEF LastLineFits, TerminalInvariant
<1> QED
  BY <1>4, <1>5, <1>6, PrintEffect DEF TerminalInvariant

LEMMA PrintKeepsBlocks ==
    ASSUME SchedulingInvariant, TerminalInvariant, NEW w \in Workers, LogTestOutput(w)
    PROVE  BlocksUnbroken'
<1>1. /\ stdout \in Seq(Lines) /\ BlocksUnbroken /\ LastLineFits /\ LoggersFit
      /\ current[w] \in Tests
  BY PrintEffect DEF TerminalInvariant
<1>2. ASSUME NEW line \in Lines, stdout' = Append(stdout, line),
             line.part \in {"logs", "status"} => stdout # <<>> /\ Continues(line, LastLine),
             stdout # <<>> /\ LastLine.part \in {"banner", "logs"} => Continues(line, LastLine)
      PROVE  BlocksUnbroken'
  <2>1. /\ DOMAIN stdout = 1..Len(stdout) /\ DOMAIN stdout' = 1..(Len(stdout) + 1)
        /\ Len(stdout') = Len(stdout) + 1 /\ Len(stdout) \in Nat
        /\ \A i \in 1..Len(stdout) : stdout'[i] = stdout[i]
        /\ stdout'[Len(stdout) + 1] = line
        /\ stdout # <<>> <=> Len(stdout) > 0
    BY <1>1, <1>2, Appended
  <2> SUFFICES ASSUME NEW i \in 1..(Len(stdout) + 1)
               PROVE  /\ stdout'[i].part \in {"logs", "status"} =>
                            i > 1 /\ Continues(stdout'[i], stdout'[i - 1])
                      /\ stdout'[i].part \in {"banner", "logs"} /\ i < Len(stdout) + 1 =>
                            Continues(stdout'[i + 1], stdout'[i])
    BY <2>1 DEF BlocksUnbroken, Continues
  <2>2. stdout # <<>> => LastLine = stdout[Len(stdout)] /\ stdout'[Len(stdout)] = LastLine
    BY <2>1 DEF LastLine
  <2>3. CASE i = Len(stdout) + 1
    <3>1. stdout # <<>> => i > 1 /\ stdout'[i - 1] = LastLine
      BY <2>1, <2>2, <2>3
    <3>2. stdout'[i] = line /\ ~(i < Len(stdout) + 1)
      BY <2>1, <2>3
    <3> QED
      BY <1>2, <3>1, <3>2
  <2>4. CASE i \in 1..Len(stdout)
    <3>1. stdout'[i] = stdout[i] /\ (i > 1 => stdout'[i - 1] = stdout[i - 1])
      BY <2>1, <2>4
    <3>2. stdout[i].part \in {"logs", "status"} => i > 1 /\ Continues(stdout[i], stdout[i - 1])
      BY <1>1, <2>1, <2>4 DEF BlocksUnbroken
    <3>3. CASE i = Len(stdout)
      <4>1. stdout[i] = LastLine /\ stdout'[i + 1] = line /\ stdout # <<>>
        BY <2>1, <2>2, <2>4, <3>3
      <4> QED
        BY <1>2, <3>1, <3>2, <4>1
    <3>4. CASE i < Len(stdout)
      <4>1. stdout'[i + 1] = stdout[i + 1]
        BY <2>1, <2>4, <3>4
      <4>2. stdout[i].part \in {"banner", "logs"} => Continues(stdout[i + 1], stdout[i])
        BY <1>1, <2>1, <2>4, <3>4 DEF BlocksUnbroken
      <4> QED
        BY <3>1, <3>2, <4>1, <4>2
    <3>5. Len(stdout) \in Int /\ i \in Int /\ i <= Len(stdout)
      BY <2>1, <2>4
    <3>6. i = Len(stdout) \/ i < Len(stdout)
      BY <3>5
    <3> QED
      BY <3>3, <3>4, <3>6
  <2>5. i = Len(stdout) + 1 \/ i \in 1..Len(stdout)
    BY <2>1
  <2> QED
    BY <2>3, <2>4, <2>5
<1>3. \A part \in {"banner", "logs", "status"} :
         /\ Line(current[w], part) \in Lines
         /\ Line(current[w], part).part = part /\ Line(current[w], part).test = current[w]
  BY <1>1, LinesTyped DEF Parts
<1>4. CASE workerPc[w] = "log"
  <2>1. stdout' = Append(stdout, Line(current[w], "banner")) /\ mutex = 0
    BY <1>1, <1>4, PrintEffect
  <2> QED
    BY <1>1, <1>2, <1>3, <2>1 DEF LastLineFits
<1>5. CASE workerPc[w] = "copy"
  <2>1. stdout' = Append(stdout, Line(current[w], "logs"))
    BY <1>1, <1>5, PrintEffect
  <2>2. stdout # <<>> /\ LastLine = Line(current[w], "banner")
    BY <1>1, <1>5 DEF LastLineFits
  <2> QED
    BY <1>2, <1>3, <2>1, <2>2 DEF Continues
<1>6. CASE workerPc[w] = "status"
  <2>1. stdout' = Append(stdout, Line(current[w], "status"))
    BY <1>1, <1>6, PrintEffect
  <2>2. stdout # <<>> /\ LastLine = Line(current[w], "logs")
    BY <1>1, <1>6 DEF LastLineFits
  <2> QED
    BY <1>2, <1>3, <2>1, <2>2 DEF Continues
<1> QED
  BY <1>1, <1>4, <1>5, <1>6, PrintEffect

LEMMA PrintKeepsBanners ==
    ASSUME SchedulingInvariant, TerminalInvariant, NEW w \in Workers, LogTestOutput(w)
    PROVE  BannersFit'
<1>1. /\ stdout \in Seq(Lines) /\ BannersFit /\ LoggersFit /\ current[w] \in Tests
      /\ current' = current /\ \A v \in Workers \ {w} : workerPc'[v] = workerPc[v]
  BY PrintEffect DEF TerminalInvariant
<1>2. PICK part \in {"banner", "logs", "status"} : stdout' = Append(stdout, Line(current[w], part))
  BY <1>1, PrintEffect
<1>3. /\ Line(current[w], part) \in Lines
      /\ Line(current[w], part).part = part /\ Line(current[w], part).test = current[w]
  BY <1>1, LinesTyped DEF Parts
<1>4. /\ DOMAIN stdout = 1..Len(stdout) /\ DOMAIN stdout' = 1..(Len(stdout) + 1)
      /\ Len(stdout) \in Nat
      /\ \A i \in 1..Len(stdout) : stdout'[i] = stdout[i]
      /\ stdout'[Len(stdout) + 1] = Line(current[w], part)
  BY <1>1, <1>2, <1>3, Appended
<1>5. /\ part = "banner" => current[w] \notin logged /\ logged' = logged \cup {current[w]}
      /\ part # "banner" => logged' = logged
      /\ part = "banner" <=> workerPc[w] = "log"
      /\ part = "logs" <=> workerPc[w] = "copy"
      /\ part = "status" <=> workerPc[w] = "status"
  <2>1. stdout'[Len(stdout) + 1].part = part
    BY <1>3, <1>4
  <2>2. \A p \in {"banner", "logs", "status"} :
           stdout' = Append(stdout, Line(current[w], p)) => part = p
    BY <1>1, <2>1, LinesTyped, Appended DEF Parts
  <2> QED
    BY <1>1, <2>2, PrintEffect
<1>6. \A i \in 1..(Len(stdout) + 1) : stdout'[i].part = "banner" => stdout'[i].test \in logged'
  BY <1>1, <1>3, <1>4, <1>5 DEF BannersFit
<1>7. \A i, j \in 1..(Len(stdout) + 1) :
         stdout'[i].part = "banner" /\ stdout'[j] = stdout'[i] => i = j
  <2>1. part = "banner" => \A i \in 1..Len(stdout) : stdout[i] # Line(current[w], part)
    BY <1>1, <1>3, <1>4, <1>5 DEF BannersFit
  <2> QED
    BY <1>1, <1>3, <1>4, <2>1 DEF BannersFit
<1>8. ASSUME NEW t \in logged'
      PROVE  \/ \E i \in 1..(Len(stdout) + 1) : stdout'[i] = Line(t, "status")
             \/ \E v \in Workers : workerPc'[v] \in {"copy", "status"} /\ current'[v] = t
  <2>1. CASE t = current[w]
    <3>1. workerPc[w] = "status" \/ workerPc'[w] \in {"copy", "status"}
      BY <1>1, PrintEffect
    <3> QED
      BY <1>1, <1>4, <1>5, <2>1, <3>1
  <2>2. CASE t # current[w]
    <3>1. t \in logged
      BY <1>5, <2>2
    <3> QED
      BY <1>1, <1>4, <2>2, <3>1 DEF BannersFit
  <2> QED
    BY <2>1, <2>2
<1> QED
  BY <1>4, <1>6, <1>7, <1>8 DEF BannersFit, logged

LEMMA PrintKeepsSystemLogs ==
    ASSUME SchedulingInvariant, TerminalInvariant, NEW w \in Workers, LogTestOutput(w)
    PROVE  SystemLogsFit'
<1>1. /\ stdout \in Seq(Lines) /\ SystemLogsFit /\ LoggersFit /\ current[w] \in Tests
      /\ mainPc' = mainPc /\ UNCHANGED <<logMessages, systemLogs>>
  BY PrintEffect DEF TerminalInvariant
<1>2. PICK part \in {"banner", "logs", "status"} : stdout' = Append(stdout, Line(current[w], part))
  BY <1>1, PrintEffect
<1>3. SystemLines(stdout') = SystemLines(stdout)
  BY <1>1, <1>2, LinesTyped, SystemLinesAppended DEF Parts
<1> QED
  BY <1>1, <1>3 DEF SystemLogsFit, BeforeSummary, Summarised, AfterWait, AfterVerdict, SystemLines

-----------------------------------------------------------------------------
(* What is printed when the workers are gone *)

\* Lines that are of no block, printed while nobody holds the mutex, leave the blocks alone.
LEMMA OtherLinesKeepBlocks ==
    ASSUME TerminalInvariant, NEW text \in Seq(Lines), stdout' = stdout \o text,
           \A i \in DOMAIN text : text[i].part \notin BlockParts,
           mutex = 0, \A w \in Workers : workerPc[w] = "exited",
           UNCHANGED <<mutex, testOutputs, workerPc, current>>
    PROVE  LastLineFits' /\ BlocksUnbroken' /\ BannersFit' /\ (stdout \in Seq(Lines))'
<1>1. /\ stdout \in Seq(Lines) /\ BlocksUnbroken /\ LastLineFits /\ BannersFit
  BY DEF TerminalInvariant
<1> DEFINE old == Len(stdout)
           all == Len(stdout) + Len(text)
<1>2. /\ old \in Nat /\ Len(text) \in Nat
      /\ DOMAIN stdout = 1..old /\ DOMAIN text = 1..Len(text)
      /\ stdout # <<>> <=> old > 0
  BY <1>1, LenProperties, EmptySeq
<1>3. /\ stdout' \in Seq(Lines) /\ Len(stdout') = all /\ DOMAIN stdout' = 1..all
      /\ \A i \in 1..old : stdout'[i] = stdout[i]
      /\ \A i \in (old + 1)..all : stdout'[i] = text[i - old]
      /\ stdout' # <<>> <=> all > 0
  BY <1>1, <1>2, ConcatProperties, LenProperties, EmptySeq
<1>4. \A i \in (old + 1)..all : stdout'[i].part \notin BlockParts
  BY <1>2, <1>3
<1>5. old > 0 => stdout[old].part \notin {"banner", "logs"}
  BY <1>1, <1>2 DEF LastLineFits, LastLine
<1>6. all \in Nat /\ old <= all
  BY <1>2
<1> HIDE DEF old, all
<1>7. all > 0 => stdout'[all].part \notin {"banner", "logs"}
  <2>1. CASE all = old
    BY <1>2, <1>3, <1>5, <2>1
  <2>2. CASE all # old /\ all > 0
    <3>1. all \in (old + 1)..all
      BY <1>2, <1>6, <2>2
    <3> QED
      BY <1>4, <3>1 DEF BlockParts
  <2> QED
    BY <2>1, <2>2
<1>8. LastLineFits'
  BY <1>3, <1>6, <1>7 DEF LastLineFits, LastLine, old, all
<1>9. BlocksUnbroken'
  <2> SUFFICES ASSUME NEW i \in 1..all, stdout'[i].part \in BlockParts
               PROVE  /\ stdout'[i].part \in {"logs", "status"} =>
                            i > 1 /\ Continues(stdout'[i], stdout'[i - 1])
                      /\ stdout'[i].part \in {"banner", "logs"} /\ i < all =>
                            Continues(stdout'[i + 1], stdout'[i])
    BY <1>3 DEF BlocksUnbroken, BlockParts, Continues
  <2>1. i \in 1..old
    <3>1. i \notin (old + 1)..all
      BY <1>4
    <3> QED
      BY <1>2, <1>6, <3>1
  <2>2. stdout'[i] = stdout[i] /\ (i > 1 => stdout'[i - 1] = stdout[i - 1])
    BY <1>2, <1>3, <2>1
  <2>3. stdout[i].part \in {"logs", "status"} => i > 1 /\ Continues(stdout[i], stdout[i - 1])
    BY <1>1, <1>2, <2>1 DEF BlocksUnbroken
  <2>4. stdout[i].part \in {"banner", "logs"} => i < old
    BY <1>2, <1>5, <2>1
  <2>5. i < old => stdout'[i + 1] = stdout[i + 1]
    BY <1>2, <1>3, <2>1
  <2>6. stdout[i].part \in {"banner", "logs"} /\ i < old => Continues(stdout[i + 1], stdout[i])
    BY <1>1, <1>2, <2>1 DEF BlocksUnbroken, old
  <2> QED
    BY <2>2, <2>3, <2>4, <2>5, <2>6
<1>10. BannersFit'
  <2>1. \A i \in 1..all : stdout'[i].part = "banner" => i \in 1..old /\ stdout'[i] = stdout[i]
    BY <1>2, <1>3, <1>4, <1>6 DEF BlockParts
  <2>2. logged' = logged
    BY DEF logged
  <2>3. \A i \in 1..all : stdout'[i].part = "banner" => stdout'[i].test \in logged
    BY <1>1, <1>2, <2>1 DEF BannersFit
  <2>4. \A i, j \in 1..all : stdout'[i].part = "banner" /\ stdout'[j] = stdout'[i] => i = j
    <3> SUFFICES ASSUME NEW i \in 1..all, NEW j \in 1..all,
                        stdout'[i].part = "banner", stdout'[j] = stdout'[i]
                 PROVE  i = j
      OBVIOUS
    <3>1. i \in 1..old /\ j \in 1..old /\ stdout'[i] = stdout[i] /\ stdout'[j] = stdout[j]
      BY <2>1
    <3> QED
      BY <1>1, <1>2, <3>1 DEF BannersFit
  <2>5. \A t \in logged : \E i \in 1..all : stdout'[i] = Line(t, "status")
    <3> SUFFICES ASSUME NEW t \in logged PROVE \E i \in 1..all : stdout'[i] = Line(t, "status")
      OBVIOUS
    <3>1. PICK i \in 1..old : stdout[i] = Line(t, "status")
      BY <1>1, <1>2 DEF BannersFit
    <3>2. i \in 1..all
      BY <1>2, <1>6
    <3> QED
      BY <1>3, <3>1, <3>2
  <2> QED
    BY <1>3, <2>2, <2>3, <2>4, <2>5 DEF BannersFit
<1> QED
  BY <1>3, <1>8, <1>9, <1>10

\* The workers are gone by the time the main goroutine is past its wait, and the mutex is free.
LEMMA AloneAfterWait ==
    ASSUME SchedulingInvariant, AfterWait
    PROVE  mutex = 0 /\ \A w \in Workers : workerPc[w] = "exited"
  BY DEF SchedulingInvariant, MainFollowsWorkers, MutexIsHeldByPrinter, TypeOK

\* A write through the system-wide logger is held while tests run, and printed later on.
LEMMA SystemLogEffect ==
    ASSUME SchedulingInvariant, LoggersFit, SystemLog
    PROVE  /\ UNCHANGED <<mainPc, mutex, testOutputs, workerPc, current>>
           /\ systemLogs' = systemLogs + 1
           /\ \E t \in Tests :
                 \/ /\ ~Summarised
                    /\ logMessages' = Append(logMessages, Line(t, "system"))
                    /\ stdout' = stdout
                 \/ /\ ~BeforeSummary
                    /\ stdout' = Append(stdout, Line(t, "system"))
                    /\ logMessages' = logMessages
<1>1. PICK t \in Live : SystemLogWrite(t)
  BY DEF SystemLog
<1>2. t \in Tests
  BY DEF Live, SchedulingInvariant, TypeOK, WorkersHoldTests
<1>3. mainPc \notin {"load", "intercept"}
  BY ParallelizerAssumption
  DEF Live, LoggersFit, SchedulingInvariant, MainFollowsWorkers, WorkersCounted, TypeOK, Workers
<1>4. mainPc \in MainPcs
  BY DEF SchedulingInvariant, TypeOK
<1> QED
  BY <1>1, <1>2, <1>3, <1>4
  DEF SystemLog, SystemLogWrite, WriteTo, mainVars, workerVars, LoggersFit, MainPcs, BeforeSummary,
      Summarised, AfterWait, AfterVerdict

LEMMA SystemLogKeeps ==
    ASSUME SchedulingInvariant, TerminalInvariant, LoggersFit', SystemLog
    PROVE  TerminalInvariant'
<1>1. /\ stdout \in Seq(Lines) /\ LoggersFit /\ LastLineFits /\ BlocksUnbroken /\ BannersFit
      /\ SystemLogsFit /\ logMessages \in Seq(Lines)
  BY DEF TerminalInvariant, SystemLogsFit
<1>2. /\ UNCHANGED <<mainPc, mutex, testOutputs, workerPc, current>>
      /\ systemLogs' = systemLogs + 1
  BY <1>1, SystemLogEffect
<1>3. PICK t \in Tests :
         \/ /\ ~Summarised
            /\ logMessages' = Append(logMessages, Line(t, "system"))
            /\ stdout' = stdout
         \/ /\ ~BeforeSummary
            /\ stdout' = Append(stdout, Line(t, "system"))
            /\ logMessages' = logMessages
  BY <1>1, SystemLogEffect
<1> DEFINE line == Line(t, "system")
<1>4. line \in Lines /\ line.part = "system"
  BY LinesTyped DEF Parts
<1>5. Summarised' = Summarised /\ BeforeSummary' = BeforeSummary /\ systemLogs \in Nat
  BY <1>2 DEF Summarised, BeforeSummary, AfterWait, AfterVerdict, SchedulingInvariant, TypeOK
<1> HIDE DEF line
<1>6. CASE /\ ~Summarised /\ logMessages' = Append(logMessages, line) /\ stdout' = stdout
  <2>1. /\ logMessages' \in Seq(Lines) /\ Len(logMessages') = Len(logMessages) + 1
        /\ \A i \in DOMAIN logMessages' : logMessages'[i].part = "system"
        /\ Len(logMessages) \in Nat
    <3>1. \A i \in 1..Len(logMessages) : logMessages[i].part = "system"
      BY <1>1, <1>4, Appended DEF SystemLogsFit
    <3> QED
      BY <1>1, <1>4, <1>6, <3>1, Appended
  <2>2. SystemLines(stdout)' = SystemLines(stdout)
    BY <1>6 DEF SystemLines
  <2>3. SystemLogsFit'
    BY <1>1, <1>2, <1>5, <1>6, <2>1, <2>2, SystemLinesCounted DEF SystemLogsFit
  <2>4. LastLineFits' /\ BlocksUnbroken' /\ BannersFit'
    BY <1>1, <1>2, <1>6 DEF LastLineFits, LastLine, BlocksUnbroken, Continues, BannersFit, logged
  <2> QED
    BY <1>1, <1>6, <2>3, <2>4 DEF TerminalInvariant
<1>7. CASE /\ ~BeforeSummary /\ stdout' = Append(stdout, line) /\ logMessages' = logMessages
  <2>1. mutex = 0 /\ \A w \in Workers : workerPc[w] = "exited"
    BY <1>7, AloneAfterWait DEF BeforeSummary
  <2>2. stdout' = stdout \o <<line>> /\ <<line>> \in Seq(Lines)
    BY <1>1, <1>4, <1>7, AppendIsConcat
  <2>3. \A i \in DOMAIN <<line>> : <<line>>[i].part \notin BlockParts
    BY <1>4 DEF BlockParts
  <2>4. LastLineFits' /\ BlocksUnbroken' /\ BannersFit' /\ (stdout \in Seq(Lines))'
    BY <1>2, <2>1, <2>2, <2>3, OtherLinesKeepBlocks
  <2>5. Cardinality(SystemLines(stdout')) = Cardinality(SystemLines(stdout)) + 1
    BY <1>1, <1>4, <1>7, SystemLinesAppended
  <2>6. SystemLines(stdout)' = SystemLines(stdout')
    BY DEF SystemLines
  <2>7. Len(logMessages) \in Nat /\ Cardinality(SystemLines(stdout)) \in Nat
    BY <1>1, LenProperties, SystemLinesCounted
  <2>8. SystemLogsFit'
    BY <1>1, <1>2, <1>5, <1>7, <2>5, <2>6, <2>7 DEF SystemLogsFit
  <2> QED
    BY <2>4, <2>8 DEF TerminalInvariant
<1> QED
  BY <1>3, <1>6, <1>7 DEF line

\* printSummary prints the results and then what was held.
LEMMA PrintsSummaryKeeps ==
    ASSUME SchedulingInvariant, TerminalInvariant, LoggersFit', PrintsSummary
    PROVE  TerminalInvariant'
<1>1. /\ stdout \in Seq(Lines) /\ LoggersFit /\ SystemLogsFit /\ logMessages \in Seq(Lines)
      /\ \A i \in DOMAIN logMessages : logMessages[i].part = "system"
  BY DEF TerminalInvariant, SystemLogsFit
<1>2. /\ mainPc = "summaryBody" /\ mainPc' = "verdict" /\ PrintSummary
      /\ UNCHANGED <<mutex, testOutputs, workerPc, current, systemLogs>>
  BY DEF PrintsSummary, MainStep, Summarise, PrintSummary, workerVars
<1>3. mutex = 0 /\ \A w \in Workers : workerPc[w] = "exited"
  BY <1>2, AloneAfterWait DEF AfterWait
<1>4. PICK order \in Bijection(1..Cardinality(logged), logged) :
         /\ stdout' = stdout \o ([i \in DOMAIN order |-> Line(order[i], "result")] \o logMessages)
         /\ logMessages' = logMessages
  BY <1>1, <1>2, PrintsOnTerminal DEF PrintSummary
<1> DEFINE results == [i \in DOMAIN order |-> Line(order[i], "result")]
<1>5. results \in Seq(Lines) /\ \A i \in DOMAIN results : results[i].part = "result"
  <2>1. logged \subseteq Tests /\ IsFiniteSet(logged)
    BY ParallelizerAssumption, FS_Subset DEF SchedulingInvariant, TypeOK, ManagerTypeOK
  <2>2. Cardinality(logged) \in Nat
    BY <2>1, FS_CardinalityType
  <2>3. order \in [1..Cardinality(logged) -> Tests]
    BY <2>1 DEF Bijection, Injection
  <2>4. \A i \in 1..Cardinality(logged) :
           Line(order[i], "result") \in Lines /\ Line(order[i], "result").part = "result"
    BY <2>3, LinesTyped DEF Parts
  <2>5. results \in [1..Cardinality(logged) -> Lines]
    BY <2>3, <2>4
  <2> QED
    BY <2>2, <2>3, <2>4, <2>5, IsASeq
<1> HIDE DEF results
<1> DEFINE text == results \o logMessages
<1>6. text \in Seq(Lines) /\ \A i \in DOMAIN text : text[i].part \notin BlockParts
  <2>1. /\ DOMAIN results = 1..Len(results) /\ Len(results) \in Nat
        /\ DOMAIN logMessages = 1..Len(logMessages) /\ Len(logMessages) \in Nat
    BY <1>1, <1>5, LenProperties
  <2>2. /\ text \in Seq(Lines) /\ DOMAIN text = 1..(Len(results) + Len(logMessages))
        /\ \A i \in 1..Len(results) : text[i] = results[i]
        /\ \A i \in (Len(results) + 1)..(Len(results) + Len(logMessages)) :
              text[i] = logMessages[i - Len(results)]
    BY <1>1, <1>5, <2>1, ConcatProperties, LenProperties
  <2>3. \A i \in 1..Len(results) : text[i].part = "result"
    BY <1>5, <2>1, <2>2
  <2>4. \A i \in (Len(results) + 1)..(Len(results) + Len(logMessages)) : text[i].part = "system"
    BY <1>1, <2>1, <2>2
  <2>5. \A i \in DOMAIN text : i \in 1..Len(results)
           \/ i \in (Len(results) + 1)..(Len(results) + Len(logMessages))
    BY <2>1, <2>2
  <2> QED
    BY <2>2, <2>3, <2>4, <2>5 DEF BlockParts
<1>7. stdout' = stdout \o text
  BY <1>4 DEF results
<1>8. Cardinality(SystemLines(stdout')) = Cardinality(SystemLines(stdout)) + Len(logMessages)
  BY <1>1, <1>5, <1>7, SystemLinesConcatenated
<1> HIDE DEF text
<1>9. LastLineFits' /\ BlocksUnbroken' /\ BannersFit' /\ (stdout \in Seq(Lines))'
  BY <1>2, <1>3, <1>6, <1>7, OtherLinesKeepBlocks
<1>10. SystemLines(stdout)' = SystemLines(stdout')
  BY DEF SystemLines
<1>11. SystemLogsFit'
  <2>1. ~Summarised /\ Summarised' /\ ~BeforeSummary'
    BY <1>2 DEF BeforeSummary, Summarised, AfterWait, AfterVerdict
  <2>2. Cardinality(SystemLines(stdout')) = systemLogs
    BY <1>1, <1>8, <2>1, SystemLinesCounted, LenProperties DEF SystemLogsFit
  <2>3. systemLogs \in Nat
    BY DEF SchedulingInvariant, TypeOK
  <2> QED
    BY <1>1, <1>2, <1>4, <1>10, <2>1, <2>2, <2>3 DEF SystemLogsFit
<1> QED
  BY <1>9, <1>11 DEF TerminalInvariant

LEMMA SilentKeeps ==
    ASSUME TerminalInvariant, LoggersFit', Silent
    PROVE  TerminalInvariant'
<1>1. LastLineFits'
  BY DEF TerminalInvariant, Silent, LastLineFits, LastLine
<1>2. BlocksUnbroken'
  BY DEF TerminalInvariant, Silent, BlocksUnbroken, Continues
<1>3. BannersFit'
  <2>1. \A w \in Workers, t \in logged :
           workerPc[w] \in {"copy", "status"} /\ current[w] = t =>
              workerPc'[w] \in {"copy", "status"} /\ current'[w] = t
    BY DEF Silent
  <2> QED
    BY <2>1 DEF TerminalInvariant, Silent, BannersFit, logged
<1>4. SystemLogsFit'
  BY DEF TerminalInvariant, Silent, SystemLogsFit, SystemLines
<1> QED
  BY <1>1, <1>2, <1>3, <1>4 DEF TerminalInvariant, Silent

-----------------------------------------------------------------------------
(* The theorems *)

\* The line in front of a line of logs or of a status is told by it.
LEMMA EqualLinesFollowEqualLines ==
    ASSUME stdout \in Seq(Lines), BlocksUnbroken,
           NEW i \in DOMAIN stdout, NEW j \in DOMAIN stdout,
           stdout[i] = stdout[j], stdout[i].part \in {"logs", "status"}
    PROVE  /\ i > 1 /\ j > 1 /\ i - 1 \in DOMAIN stdout /\ j - 1 \in DOMAIN stdout
           /\ stdout[i - 1] = stdout[j - 1]
           /\ stdout[i - 1].part = IF stdout[i].part = "logs" THEN "banner" ELSE "logs"
           /\ i \in Int /\ j \in Int
<1>1. DOMAIN stdout = 1..Len(stdout) /\ Len(stdout) \in Nat
  BY LenProperties
<1>2. /\ i > 1 /\ Continues(stdout[i], stdout[i - 1])
      /\ j > 1 /\ Continues(stdout[j], stdout[j - 1])
  BY DEF BlocksUnbroken
<1>3. i - 1 \in DOMAIN stdout /\ j - 1 \in DOMAIN stdout
  BY <1>1, <1>2
<1>4. stdout[i - 1] \in Lines /\ stdout[j - 1] \in Lines
  BY <1>1, <1>3, ElementOfSeq
<1>5. ASSUME NEW line \in Lines, NEW previous \in Lines, Continues(line, previous)
      PROVE  previous = [test |-> line.test,
                         part |-> IF line.part = "logs" THEN "banner" ELSE "logs"]
  BY <1>5 DEF Continues, Line, Lines
<1>6. stdout[i] \in Lines /\ stdout[j] \in Lines
  BY <1>1, ElementOfSeq
<1> QED
  BY <1>1, <1>2, <1>3, <1>4, <1>5, <1>6

LEMMA TerminalInit == Init => TerminalInvariant
<1> SUFFICES ASSUME Init PROVE TerminalInvariant
  OBVIOUS
<1>1. /\ stdout = <<>> /\ logMessages = <<>> /\ systemLogs = 0 /\ mainPc = "load"
      /\ <<>> \in Seq(Lines) /\ DOMAIN stdout = {} /\ Len(logMessages) = 0
  BY DEF Init, NewManager
<1>2. SystemLines(stdout) = {} /\ Cardinality({}) = 0
  BY <1>1, FS_EmptySet DEF SystemLines
<1>3. LoggersFit /\ LastLineFits
  BY <1>1 DEF Init, NewManager, LoggersFit, LastLineFits
<1>4. BlocksUnbroken /\ BannersFit
  BY <1>1 DEF Init, NewManager, BlocksUnbroken, BannersFit, logged
<1>5. SystemLogsFit
  BY <1>1, <1>2 DEF SystemLogsFit, Summarised, AfterVerdict
<1> QED
  BY <1>1, <1>3, <1>4, <1>5 DEF TerminalInvariant

LEMMA TerminalStep ==
    ASSUME SchedulingInvariant, TerminalInvariant, [Next]_vars
    PROVE  TerminalInvariant'
<1>1. LoggersFit'
  BY LoggersFitKept DEF TerminalInvariant
<1>2. ASSUME NEW w \in Workers, LogTestOutput(w) PROVE TerminalInvariant'
  BY <1>1, <1>2, PrintKeepsLastLine, PrintKeepsBlocks, PrintKeepsBanners, PrintKeepsSystemLogs
  DEF TerminalInvariant
<1> QED
  BY <1>1, <1>2, TerminalSteps, SystemLogKeeps, PrintsSummaryKeeps, SilentKeeps

\* The whole inductive invariant of the parallel executor: goroutines, tests and terminal.
THEOREM InvariantHolds == Spec => []InductiveInvariant
<1>1. Init => TerminalInvariant
  BY TerminalInit
<1>2. SchedulingInvariant /\ TerminalInvariant /\ [Next]_vars => TerminalInvariant'
  BY TerminalStep
<1>3. SchedulingInvariant /\ TerminalInvariant <=> InductiveInvariant
  BY DEF InductiveInvariant
<1> QED
  BY <1>1, <1>2, <1>3, SchedulingInvariantHolds, PTL DEF Spec

\* However many workers print through the manager at once, logTestOutput's lines stand together,
\* each test prints one block, and after the wait every recorded test has printed it all.
THEOREM EveryTestPrintsOneWholeBlock == Spec => []OneWholeBlockPerTest
<1>1. InductiveInvariant => OneWholeBlockPerTest
  <2> SUFFICES ASSUME InductiveInvariant PROVE OneWholeBlockPerTest
    OBVIOUS
  <2>1. /\ SchedulingInvariant /\ BlocksUnbroken /\ BannersFit /\ stdout \in Seq(Lines)
    BY DEF InductiveInvariant, TerminalInvariant
  <2>2. \A i, j \in DOMAIN stdout : stdout[i] = stdout[j] /\ stdout[i].part = "banner" => i = j
    BY <2>1 DEF BannersFit
  <2>3. \A i, j \in DOMAIN stdout : stdout[i] = stdout[j] /\ stdout[i].part = "logs" => i = j
    <3> SUFFICES ASSUME NEW i \in DOMAIN stdout, NEW j \in DOMAIN stdout,
                        stdout[i] = stdout[j], stdout[i].part = "logs"
                 PROVE  i = j
      OBVIOUS
    <3>1. /\ i - 1 \in DOMAIN stdout /\ j - 1 \in DOMAIN stdout /\ i \in Int /\ j \in Int
          /\ stdout[i - 1] = stdout[j - 1] /\ stdout[i - 1].part = "banner"
      BY <2>1, EqualLinesFollowEqualLines
    <3>2. i - 1 = j - 1
      BY <2>2, <3>1
    <3> QED
      BY <3>1, <3>2
  <2>4. \A i, j \in DOMAIN stdout : stdout[i] = stdout[j] /\ stdout[i].part = "status" => i = j
    <3> SUFFICES ASSUME NEW i \in DOMAIN stdout, NEW j \in DOMAIN stdout,
                        stdout[i] = stdout[j], stdout[i].part = "status"
                 PROVE  i = j
      OBVIOUS
    <3>1. /\ i - 1 \in DOMAIN stdout /\ j - 1 \in DOMAIN stdout /\ i \in Int /\ j \in Int
          /\ stdout[i - 1] = stdout[j - 1] /\ stdout[i - 1].part = "logs"
      BY <2>1, EqualLinesFollowEqualLines
    <3>2. i - 1 = j - 1
      BY <2>3, <3>1
    <3> QED
      BY <3>1, <3>2
  <2>5. AfterWait => \A t \in logged : \E i \in DOMAIN stdout : stdout[i] = Line(t, "status")
    BY <2>1, AloneAfterWait DEF BannersFit
  <2> QED
    BY <2>1, <2>2, <2>3, <2>4, <2>5 DEF OneWholeBlockPerTest, BlockParts
<1> QED
  BY <1>1, InvariantHolds, PTL

\* No write of the system-wide logger disturbs the tests' output, and none is swallowed.
THEOREM SystemLogsAlwaysHeldThenShown == Spec => []SystemLogsHeldThenShown
<1>1. InductiveInvariant => SystemLogsHeldThenShown
  <2> SUFFICES ASSUME InductiveInvariant PROVE SystemLogsHeldThenShown
    OBVIOUS
  <2>1. SystemLogsFit /\ stdout \in Seq(Lines) /\ systemLogs \in Nat
    BY DEF InductiveInvariant, TerminalInvariant, SchedulingInvariant, TypeOK
  <2> QED
    BY <2>1, SystemLinesCounted
    DEF SystemLogsFit, SystemLogsHeldThenShown, BeforeSummary, Summarised
<1> QED
  BY <1>1, InvariantHolds, PTL
=============================================================================
