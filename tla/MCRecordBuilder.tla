-------------------------- MODULE MCRecordBuilder --------------------------
(***************************************************************************)
(* Five parts of the record path and two commands, in one of six scenarios *)
(* chosen in the initial state: a RecordBuilder used by the recorder       *)
(* (RecordBuilder), "timecraft run", which drives the recorder and flushes *)
(* the log (RunInstantiate), the records of a log read back by the replay  *)
(* of "timecraft profile" (RecordProfiler), the command around that        *)
(* replay, which stores and prints the profiles (ProfileCommand), the      *)
(* network messages of a log paired into exchanges by "timecraft trace"    *)
(* (ExchangeReader), and the resource lookup of "timecraft get"            *)
(* (GetCommand).  The behaviour is that of the chosen module; the others   *)
(* stay initial.                                                           *)
(***************************************************************************)
EXTENDS RecordBuilder

MCTimes == {0, 1}
MCFuncIds == {0, 2}
MCContents == {"c1", "c2"}

\* Logs of up to 4 records at times 1..3; a window starting at the process
\* start (0), at 1 or at 2, of length 0 or 1; time.Time{} is far earlier.
MCLogTimes == 1..3
MCStartTimes == {0, 1, 2}
MCDurations == {0, 1}
MCMaxRecords == 4
MCZeroTime == -100

\* Messages of up to 4 entries with ids 1 and 2, times 0..2 and spans 0
\* or 2, read in batches of 2 into a buffer of 1 exchange.
MCIds == {1, 2}
MCExTimes == 0..2
MCSpans == {0, 2}

\* The guest makes up to 2 host calls.
MCMaxCalls == 2

VARIABLES scenario, pLog, pStart, pEnd, pPos, pStarted, pStopped, pFirst,
          pLast, pDuration, pProfiled, pPhase

pvars == <<pLog, pStart, pEnd, pPos, pStarted, pStopped, pFirst, pLast,
           pDuration, pProfiled, pPhase>>

RP == INSTANCE RecordProfiler
        WITH Times <- MCLogTimes, StartTimes <- MCStartTimes,
             Durations <- MCDurations, MaxRecords <- MCMaxRecords,
             ZeroTime <- MCZeroTime,
             log <- pLog, startTime <- pStart, endTime <- pEnd, pos <- pPos,
             started <- pStarted, stopped <- pStopped,
             firstTimestamp <- pFirst, lastTimestamp <- pLast,
             duration <- pDuration, profiled <- pProfiled, phase <- pPhase

VARIABLES eInput, ePos, eInflight, eExch, eOffset, eOut, eEof

evars == <<eInput, ePos, eInflight, eExch, eOffset, eOut, eEof>>

EX == INSTANCE ExchangeReader
        WITH Ids <- MCIds, Times <- MCExTimes, Spans <- MCSpans,
             MaxMsgs <- 4, BatchSize <- 2, BufSize <- 1,
             input <- eInput, pos <- ePos, inflight <- eInflight,
             exch <- eExch, offset <- eOffset, out <- eOut, eof <- eEof

VARIABLES rRecording, rStep, rStack, rMpc, rGpc, rCause, rBy, rOutcome,
          rResult, rModuleClosed, rCalls, rWritten, rFlushed

rvars == <<rRecording, rStep, rStack, rMpc, rGpc, rCause, rBy, rOutcome,
           rResult, rModuleClosed, rCalls, rWritten, rFlushed>>

RI == INSTANCE RunInstantiate
        WITH MaxCalls <- MCMaxCalls, recording <- rRecording, step <- rStep,
             stack <- rStack,
             mpc <- rMpc, gpc <- rGpc, cause <- rCause, by <- rBy,
             outcome <- rOutcome, result <- rResult,
             moduleClosed <- rModuleClosed, calls <- rCalls,
             written <- rWritten, flushed <- rFlushed

VARIABLES gArgc, gWord, gOutput, gRegOK, gRes

gvars == <<gArgc, gWord, gOutput, gRegOK, gRes>>

GC == INSTANCE GetCommand
        WITH argc <- gArgc, word <- gWord, output <- gOutput, regOK <- gRegOK,
             res <- gRes

VARIABLES cExports, cPc, cStep, cStack, cGpc, cStored, cRecv, cDescs,
          cLastErr, cEi, cWritten, cPrinted, cResult

cvars == <<cExports, cPc, cStep, cStack, cGpc, cStored, cRecv, cDescs,
           cLastErr, cEi, cWritten, cPrinted, cResult>>

\* --export names cpu, memory, or a type profile does not support.
PC == INSTANCE ProfileCommand
        WITH Profiles <- {"cpu", "memory"},
             ExportTypes <- {"cpu", "memory", "trace"},
             exports <- cExports, pc <- cPc, step <- cStep, stack <- cStack,
             gpc <- cGpc, stored <- cStored, recv <- cRecv, descs <- cDescs,
             lastErr <- cLastErr, ei <- cEi, written <- cWritten,
             printed <- cPrinted, result <- cResult

allvars == <<scenario, vars, pvars, evars, rvars, gvars, cvars>>

MCInit ==
    /\ scenario \in {"builder", "profiler", "exchange", "run", "get", "profile"}
    /\ Init
    /\ scenario # "builder" => startTime = 0 /\ buf = "c1"
    /\ RP!Init
    /\ scenario # "profiler" => pLog = <<>> /\ pStart = 0 /\ pEnd = 0
    /\ EX!Init
    /\ scenario # "exchange" => eInput = <<>>
    /\ RI!Init
    /\ scenario # "run" => rRecording
    /\ GC!Init
    /\ scenario # "get" => gArgc = 0 /\ gWord = <<>> /\ gOutput = "text" /\ gRegOK
    /\ PC!Init
    /\ scenario # "profile" => cExports = {}

\* The steps of RunInstantiate's main goroutine and the end of a recorder
\* call, for fairness.
RunMain == scenario = "run" /\ RI!Main /\ UNCHANGED <<scenario, vars, pvars, evars, gvars, cvars>>
RunRecordEnd == scenario = "run" /\ (RI!RecordEnd \/ RI!RecordFail) /\ UNCHANGED <<scenario, vars, pvars, evars, gvars, cvars>>

\* The same for ProfileCommand: profile's goroutine and each CreateProfile.
ProfMain == scenario = "profile" /\ PC!Main /\ UNCHANGED <<scenario, vars, pvars, evars, rvars, gvars>>
ProfCreate(p) == scenario = "profile" /\ PC!Create(p) /\ UNCHANGED <<scenario, vars, pvars, evars, rvars, gvars>>

MCNext ==
    \/ scenario = "builder" /\ Next /\ UNCHANGED <<scenario, pvars, evars, rvars, gvars, cvars>>
    \/ scenario = "profiler" /\ RP!Next /\ UNCHANGED <<scenario, vars, evars, rvars, gvars, cvars>>
    \/ scenario = "exchange" /\ EX!Next /\ UNCHANGED <<scenario, vars, pvars, rvars, gvars, cvars>>
    \/ scenario = "run" /\ RI!Next /\ UNCHANGED <<scenario, vars, pvars, evars, gvars, cvars>>
    \/ scenario = "get" /\ GC!Next /\ UNCHANGED <<scenario, vars, pvars, evars, rvars, cvars>>
    \/ scenario = "profile" /\ PC!Next /\ UNCHANGED <<scenario, vars, pvars, evars, rvars, gvars>>

MCSpec ==
    /\ MCInit /\ [][MCNext]_allvars
    /\ WF_allvars(RunMain) /\ WF_allvars(RunRecordEnd)
    /\ WF_allvars(ProfMain) /\ \A p \in {"cpu", "memory"} : WF_allvars(ProfCreate(p))

\* The CPU profile covers exactly the host calls of the records in the
\* window [--start-time, start + --duration) that the replay reached.
ProfiledIsWindow == RP!ProfiledIsWindow

\* A started profile's DurationNanos runs from the first record of the
\* window to the last record read.
DurationOfWindow == RP!DurationOfWindow

\* Read returns every message of the stream in exactly one exchange.
EveryMessageOnce == EX!EveryMessageOnce

\* Read pairs each request with the next message of its id.
PairsAsReference == EX!PairsAsReference

\* instantiate reports the status _start returned when no signal came
\* first.
ExitStatusReported == RI!ExitStatusReported

\* A guest that ran to its end and reported success had every host call's
\* record accepted by the record writer.
GuestRecordsWritten == RI!GuestRecordsWritten

\* After the guest returned or a signal came, run returns.
RunReturns == RI!RunReturns

\* get lists a resource exactly when the word is one of its names.

\* get suggests the types sharing a prefix of two characters with the word.
SuggestsCommonPrefix == GC!SuggestsCommonPrefix

\* get never lists with the nil get function of the log resource.
NoNilWriter == GC!NoNilWriter

\* profile returns nil only with both profiles stored and printed and
\* every export written.
ReportedIfSucceeded == PC!ReportedIfSucceeded

\* No createProfiles goroutine stays blocked sending its result.
SendersFinish == PC!SendersFinish

\* The deferred Flush never overlaps a WriteRecord of the guest.
FlushNotConcurrent == RI!FlushNotConcurrent
=============================================================================
