---------------------- MODULE ParallelTestOutputManager ----------------------
(***************************************************************************)
(* The single-use object through which parallel tests print.  While it is  *)
(* active the standard logger of logrus writes into an interceptor and the *)
(* manager prints through a side-channel logger of its own.                *)
(*                                                                         *)
(* The actions below are the methods of the object; the caller conjoins    *)
(* them with the change of its own program counter.  logTestOutput takes   *)
(* three steps, because other goroutines can run between its prints; the   *)
(* bodies of stopInterceptingStdLogger and printSummary are actions that   *)
(* do not hold the mutex, because the code unlocks before entering them.   *)
(***************************************************************************)
EXTENDS TestOutcome, Integers, Sequences, FiniteSets, Functions

CONSTANT Tests          \* names of the tests being run

VARIABLES
    mutex,                   \* holder of manager.mutex, 0 when free
    testOutputs,             \* map: test name -> Outcome
    isInterceptingStdLogger,
    stdLoggerOut,            \* where logrus.StandardLogger() writes
    sideChannelOut,          \* where sideChannelLogger writes
    writerBeforeManagement,
    outputLogger,            \* logger picked by the logTestOutput in progress
    logMessages,             \* lines held by the interceptor
    stdout                   \* lines that reached the terminal

managerVars == <<mutex, testOutputs, isInterceptingStdLogger, stdLoggerOut,
                 sideChannelOut, writerBeforeManagement, outputLogger,
                 logMessages, stdout>>

Writers == {"nil", "stdout", "interceptor"}
Parts   == {"banner", "logs", "status", "result", "system"}

\* One write of a logger on behalf of test t.
Lines == [test : Tests, part : Parts]
Line(t, part) == [test |-> t, part |-> part]

logged == DOMAIN testOutputs

NewManager ==
    /\ mutex = 0
    /\ testOutputs = [t \in {} |-> Errored]
    /\ isInterceptingStdLogger = FALSE
    /\ stdLoggerOut = "stdout"
    /\ sideChannelOut = "nil"
    /\ writerBeforeManagement = "nil"
    /\ outputLogger = "nil"
    /\ logMessages = <<>>
    /\ stdout = <<>>

-----------------------------------------------------------------------------
\* A write through a logger lands in the interceptor or on the terminal.
WriteTo(writer, line) ==
    /\ stdout' = IF writer = "stdout" THEN Append(stdout, line) ELSE stdout
    /\ logMessages' = IF writer = "interceptor" THEN Append(logMessages, line)
                      ELSE logMessages

\* The logger a method prints through.
PickLogger == IF isInterceptingStdLogger THEN sideChannelOut ELSE stdLoggerOut

\* A test that is logged a second time is turned into an error.
Recorded(t, o) == IF t \in logged THEN Errored ELSE o

\* Mutation variant: the mutex is released at once.
LogTestOutputUnlocked(w, t, o) ==
    /\ mutex = 0
    /\ testOutputs' = [x \in logged \cup {t} |->
                          IF x = t THEN Recorded(t, o) ELSE testOutputs[x]]
    /\ outputLogger' = PickLogger
    /\ WriteTo(PickLogger, Line(t, "banner"))
    /\ UNCHANGED <<mutex, isInterceptingStdLogger, stdLoggerOut, sideChannelOut,
                   writerBeforeManagement>>

\* logTestOutput, first part: lock, record the outcome, print the banner.
LogTestOutputBegin(w, t, o) ==
    /\ mutex = 0
    /\ mutex' = w
    /\ testOutputs' = [x \in logged \cup {t} |->
                          IF x = t THEN Recorded(t, o) ELSE testOutputs[x]]
    /\ outputLogger' = PickLogger
    /\ WriteTo(PickLogger, Line(t, "banner"))
    /\ UNCHANGED <<isInterceptingStdLogger, stdLoggerOut, sideChannelOut,
                   writerBeforeManagement>>

\* logTestOutput, second part: io.Copy of the test's log.
LogTestOutputCopy(t) ==
    /\ WriteTo(outputLogger, Line(t, "logs"))
    /\ UNCHANGED <<mutex, testOutputs, isInterceptingStdLogger, stdLoggerOut,
                   sideChannelOut, writerBeforeManagement, outputLogger>>

\* Mutation variant: the mutex is never released.
LogTestOutputKeepsLock(t) ==
    /\ WriteTo(outputLogger, Line(t, "status"))
    /\ UNCHANGED <<mutex, testOutputs, isInterceptingStdLogger, stdLoggerOut,
                   sideChannelOut, writerBeforeManagement, outputLogger>>

\* logTestOutput, last part: print the status, then the deferred unlock.
LogTestOutputEnd(t) ==
    /\ WriteTo(outputLogger, Line(t, "status"))
    /\ mutex' = 0
    /\ UNCHANGED <<testOutputs, isInterceptingStdLogger, stdLoggerOut,
                   sideChannelOut, writerBeforeManagement, outputLogger>>

StartInterceptingStdLogger ==
    /\ mutex = 0
    /\ IF isInterceptingStdLogger
       THEN UNCHANGED <<isInterceptingStdLogger, stdLoggerOut, sideChannelOut,
                        writerBeforeManagement>>
       ELSE /\ writerBeforeManagement' = stdLoggerOut
            /\ sideChannelOut' = stdLoggerOut
            /\ stdLoggerOut' = "interceptor"
            /\ isInterceptingStdLogger' = TRUE
    /\ UNCHANGED <<mutex, testOutputs, outputLogger, logMessages, stdout>>

\* Lock immediately followed by Unlock: it waits for the current holder, and
\* protects nothing that comes after it.
LockAndUnlock == mutex = 0 /\ UNCHANGED managerVars

\* Mutation variant: the standard logger keeps writing into the interceptor.
StopWithoutRestoring ==
    /\ isInterceptingStdLogger' = FALSE
    /\ UNCHANGED <<mutex, testOutputs, stdLoggerOut, sideChannelOut,
                   writerBeforeManagement, outputLogger, logMessages, stdout>>

StopInterceptingStdLogger ==
    /\ IF isInterceptingStdLogger
       THEN /\ stdLoggerOut' = writerBeforeManagement
            /\ isInterceptingStdLogger' = FALSE
       ELSE UNCHANGED <<stdLoggerOut, isInterceptingStdLogger>>
    /\ UNCHANGED <<mutex, testOutputs, sideChannelOut, writerBeforeManagement,
                   outputLogger, logMessages, stdout>>

\* printSummary ranges over a Go map: the order is any order.  The captured
\* system logs come last.
PrintSummary ==
    /\ \E order \in Bijection(1..Cardinality(logged), logged) :
          LET text == [i \in DOMAIN order |-> Line(order[i], "result")] \o logMessages
          IN /\ stdout' = IF PickLogger = "stdout" THEN stdout \o text ELSE stdout
             /\ logMessages' = IF PickLogger = "interceptor" THEN logMessages \o text
                               ELSE logMessages
    /\ UNCHANGED <<mutex, testOutputs, isInterceptingStdLogger, stdLoggerOut,
                   sideChannelOut, writerBeforeManagement, outputLogger>>

\* Mutation variant: only failed tests count against the suite.
NoTestFailed == \A t \in logged : TestStatus(testOutputs[t]) # "FAILED"

\* getAllTestsPassed
AllTestsPassed == \A t \in logged : TestStatus(testOutputs[t]) = "PASSED"

\* Anything that logs through the system-wide logger (the Docker client does).
SystemLogWrite(t) ==
    /\ WriteTo(stdLoggerOut, Line(t, "system"))
    /\ UNCHANGED <<mutex, testOutputs, isInterceptingStdLogger, stdLoggerOut,
                   sideChannelOut, writerBeforeManagement, outputLogger>>
-----------------------------------------------------------------------------
ManagerTypeOK ==
    /\ mutex \in Nat
    /\ logged \subseteq Tests
    /\ testOutputs \in [logged -> Outcome]
    /\ isInterceptingStdLogger \in BOOLEAN
    /\ {stdLoggerOut, sideChannelOut, writerBeforeManagement, outputLogger}
          \subseteq Writers
=============================================================================
