--------------------------- MODULE RunInstantiate ---------------------------
(***************************************************************************)
(* "timecraft run" (run.go).  run sets up in order: the config, the        *)
(* registry, the module file, the runtime and the compiled module; unless  *)
(* --fly-blind, the compression, the registry's module, runtime, config,   *)
(* process and manifest, the log segment and the record writer; then the  *)
(* context that SIGHUP, SIGINT and SIGTERM cancel, and the WASI system.    *)
(* Any step may fail, and run returns its error; a resource it opened is  *)
(* released by a defer, and the defers run last registered first.          *)
(*                                                                         *)
(* The system wraps the WASI calls in a recorder whose callback hands     *)
(* every host call's record to recordWriter.WriteRecord.  instantiate      *)
(* starts _start on a goroutine that closes the module and cancels a       *)
(* child context with the call's error when it returns, waits for that     *)
(* context, and maps its cause to the command's result.                    *)
(*                                                                         *)
(* Two goroutines: main (run and instantiate) and the guest (_start).  A   *)
(* host call of the guest is the system call, then the recorder's          *)
(* WriteRecord, which may fail; the records are counted.  The signal is   *)
(* the environment.  The debugger path (debugREPL) is not modelled.        *)
(***************************************************************************)
EXTENDS Naturals, Sequences

CONSTANTS MaxCalls      \* host calls the guest makes at most

\* What the _start call returns: nil, a sys.ExitError with code 0 or with
\* another code, or any other error (a trap; wazero turns a panic of a host
\* function into an error of the call).
Outcomes == {"nil", "exit0", "exitN", "error"}

\* run's setup steps, in order: whether the step can fail, the call it
\* defers when it succeeds, and whether it is part of the recording
\* (skipped with --fly-blind).  The compression step fails on an unknown
\* --record-compression; NewLogRecordWriter and NotifyContext cannot fail.
SetupSteps == <<
    [fails |-> TRUE, defer |-> "none", rec |-> FALSE], \* missing "--"
    [fails |-> TRUE, defer |-> "none", rec |-> FALSE], \* loadConfig
    [fails |-> TRUE, defer |-> "none", rec |-> FALSE], \* createRegistry
    [fails |-> TRUE, defer |-> "none", rec |-> FALSE], \* os.ReadFile
    [fails |-> FALSE, defer |-> "runtime", rec |-> FALSE], \* newRuntime
    [fails |-> TRUE, defer |-> "compiledModule", rec |-> FALSE], \* CompileModule
    [fails |-> TRUE, defer |-> "none", rec |-> TRUE], \* compression
    [fails |-> TRUE, defer |-> "none", rec |-> TRUE], \* CreateModule
    [fails |-> TRUE, defer |-> "none", rec |-> TRUE], \* CreateRuntime
    [fails |-> TRUE, defer |-> "none", rec |-> TRUE], \* CreateConfig
    [fails |-> TRUE, defer |-> "none", rec |-> TRUE], \* CreateProcess
    [fails |-> TRUE, defer |-> "none", rec |-> TRUE], \* CreateLogManifest
    [fails |-> TRUE, defer |-> "logSegment", rec |-> TRUE], \* CreateLogSegment
    [fails |-> FALSE, defer |-> "recordWriter", rec |-> TRUE], \* NewLogRecordWriter
    [fails |-> FALSE, defer |-> "cancel", rec |-> FALSE], \* signal.NotifyContext
    [fails |-> TRUE, defer |-> "system", rec |-> FALSE] \* builder.Instantiate
    >>

VARIABLES
    recording,  \* --fly-blind was not given
    step,       \* the index in Plan of the next setup step
    stack,      \* the deferred calls registered, the last one on top
    mpc,        \* main goroutine
    gpc,        \* guest goroutine: none, running, syscall, record, returned
    cause,      \* context.Cause of instantiate's child context, or "none"
    by,         \* who cancelled it first: none, guest or signal
    outcome,    \* what _start returned, or "none"
    result,     \* what run returns, or "pending"
    moduleClosed,
    calls,      \* host calls the guest started
    written,    \* records handed to recordWriter.WriteRecord
    flushed     \* records in the log segment after recordWriter.Flush

vars == <<recording, step, stack, mpc, gpc, cause, by, outcome, result,
          moduleClosed, calls, written, flushed>>

MPCs == {"setup", "start", "wait", "returned", "flushing", "done"}

\* The setup steps this run takes.
Plan == IF recording THEN SetupSteps
        ELSE SelectSeq(SetupSteps, LAMBDA t : ~t.rec)

Init ==
    /\ recording \in BOOLEAN
    /\ step = 1 /\ stack = <<>>
    /\ mpc = "setup"
    /\ gpc = "none"
    /\ cause = "none" /\ by = "none"
    /\ outcome = "none"
    /\ result = "pending"
    /\ moduleClosed = FALSE
    /\ calls = 0 /\ written = 0 /\ flushed = 0

\* A setup step: on an error run returns it; else the step's defer is
\* registered, and after the last step run calls instantiate.
Setup ==
    /\ mpc = "setup"
    /\ LET t == Plan[step] IN
       \/ /\ t.fails
          /\ mpc' = "returned" /\ result' = "error"
          /\ UNCHANGED <<step, stack>>
       \/ /\ stack' = IF t.defer = "none" THEN stack
                       ELSE Append(stack, t.defer)
          /\ step' = step + 1
          /\ mpc' = IF step = Len(Plan) THEN "start" ELSE "setup"
          /\ UNCHANGED result
    /\ UNCHANGED <<recording, gpc, cause, by, outcome, moduleClosed, calls,
                   written, flushed>>

\* runtime.InstantiateModule: on an error instantiate returns it; else
\* "defer module.Close(ctx)" and the goroutine calling _start.
Start ==
    /\ mpc = "start"
    /\ \/ /\ mpc' = "returned" /\ result' = "error"
          /\ UNCHANGED gpc
       \/ /\ mpc' = "wait" /\ gpc' = "running"
          /\ UNCHANGED result
    /\ UNCHANGED <<recording, step, stack, cause, by, outcome, moduleClosed,
                   calls, written, flushed>>

\* SIGHUP, SIGINT or SIGTERM after NotifyContext and before its deferred
\* cancel: the signal context, and with it the child context, is
\* cancelled with context.Canceled unless it already was.
Signal ==
    /\ mpc \in {"setup", "start", "wait"}
    /\ "cancel" \in {stack[i] : i \in DOMAIN stack}
    /\ by = "none"
    /\ cause' = "Canceled" /\ by' = "signal"
    /\ UNCHANGED <<recording, step, stack, mpc, gpc, outcome, result,
                   moduleClosed, calls, written, flushed>>

\* The guest makes a host call, through the recorder unless --fly-blind.
\* The runtime's configuration is not under src/, so whether wazero stops
\* a guest still running on a closed module (main's deferred module.Close
\* after a signal) is left open: the call may still be made.
SysCall ==
    /\ gpc = "running"
    /\ calls < MaxCalls
    /\ gpc' = IF recording THEN "syscall" ELSE "running"
    /\ calls' = calls + 1
    /\ UNCHANGED <<recording, step, stack, mpc, cause, by, outcome, result,
                   moduleClosed, written, flushed>>

\* The system call returned; the recorder calls its callback.
RecordBegin ==
    /\ gpc = "syscall"
    /\ gpc' = "record"
    /\ UNCHANGED <<recording, step, stack, mpc, cause, by, outcome, result,
                   moduleClosed, calls, written, flushed>>

\* recordWriter.WriteRecord(record) returned nil.
RecordEnd ==
    /\ gpc = "record"
    /\ gpc' = "running" /\ written' = written + 1
    /\ UNCHANGED <<recording, step, stack, mpc, cause, by, outcome, result,
                   moduleClosed, calls, flushed>>

\* Mutant: the goroutine closes the module and does not cancel the context.
GuestReturnsNoCancel(o) ==
    /\ gpc = "running"
    /\ gpc' = "returned" /\ outcome' = o /\ moduleClosed' = TRUE
    /\ UNCHANGED <<recording, step, stack, mpc, cause, by, result, calls,
                   written, flushed>>

\* _start returned err: module.Close(ctx); cancel(err).  cancel sets the
\* cause only on the first cancellation, and cancel(nil) sets
\* context.Canceled.
GuestEnd(o) ==
    /\ gpc' = "returned" /\ outcome' = o /\ moduleClosed' = TRUE
    /\ cause' = IF cause = "none" THEN (IF o = "nil" THEN "Canceled" ELSE o)
                ELSE cause
    /\ by' = IF by = "none" THEN "guest" ELSE by
    /\ UNCHANGED <<recording, step, stack, mpc, result, calls, written,
                   flushed>>

GuestReturns(o) == gpc = "running" /\ GuestEnd(o)

\* Mutant: the callback drops WriteRecord's error and the guest goes on.
RecordFailIgnored ==
    /\ gpc = "record"
    /\ gpc' = "running"
    /\ UNCHANGED <<recording, step, stack, mpc, cause, by, outcome, result,
                   moduleClosed, calls, written, flushed>>

\* recordWriter.WriteRecord(record) failed: the callback panics with the
\* error inside the host function, wazero recovers the panic, and the
\* _start call returns it as its error.
RecordFail == gpc = "record" /\ GuestEnd("error")

\* Mutant: the cause is returned as it is, context.Canceled included.
WakeKeepsCanceled ==
    /\ mpc = "wait" /\ cause # "none"
    /\ result' = cause
    /\ moduleClosed' = TRUE
    /\ mpc' = "returned"
    /\ UNCHANGED <<recording, step, stack, gpc, cause, by, outcome, calls,
                   written, flushed>>

\* <-ctx.Done(); err = context.Cause(ctx): Canceled and DeadlineExceeded
\* become nil, an ExitError becomes exitCode(rc) unless rc is 0; then the
\* deferred module.Close(ctx).
Wake ==
    /\ mpc = "wait" /\ cause # "none"
    /\ result' = CASE cause \in {"Canceled", "exit0"} -> "nil"
                   [] OTHER                         -> cause
    /\ moduleClosed' = TRUE
    /\ mpc' = "returned"
    /\ UNCHANGED <<recording, step, stack, gpc, cause, by, outcome, calls,
                   written, flushed>>

\* run returns: its deferred calls run, last registered first; the
\* record writer's Flush is the only one of them that takes two steps.
Unwind ==
    /\ mpc = "returned" /\ stack # <<>>
    /\ stack' = SubSeq(stack, 1, Len(stack) - 1)
    /\ mpc' = IF stack[Len(stack)] = "recordWriter" THEN "flushing"
              ELSE "returned"
    /\ UNCHANGED <<recording, step, gpc, cause, by, outcome, result,
                   moduleClosed, calls, written, flushed>>

\* recordWriter.Flush writes the records written so far to the segment,
\* which takes them while its deferred Close has not run; or the write
\* fails.  "defer recordWriter.Flush()" discards the error, so run's result
\* is what it was either way.
FlushEnd ==
    /\ mpc = "flushing" /\ mpc' = "returned"
    /\ \/ flushed' = IF "logSegment" \in {stack[i] : i \in DOMAIN stack}
                     THEN written ELSE flushed
       \/ UNCHANGED flushed
    /\ UNCHANGED <<recording, step, stack, gpc, cause, by, outcome, result,
                   moduleClosed, calls, written>>

\* The last deferred call returned.
Return ==
    /\ mpc = "returned" /\ stack = <<>>
    /\ mpc' = "done"
    /\ UNCHANGED <<recording, step, stack, gpc, cause, by, outcome, result,
                   moduleClosed, calls, written, flushed>>

Main == Setup \/ Start \/ Wake \/ Unwind \/ FlushEnd \/ Return

Guest ==
    SysCall \/ RecordBegin \/ RecordEnd \/ RecordFail
    \/ \E o \in Outcomes : GuestReturns(o)

Next == Main \/ Guest \/ Signal

\* The main goroutine is runnable whenever one of its steps is enabled, and
\* WriteRecord returns, with or without an error, once the host call
\* returned.  Nothing forces the guest to return or a signal to come.
Fairness == WF_vars(Main) /\ WF_vars(RecordEnd \/ RecordFail)

Spec == Init /\ [][Next]_vars /\ Fairness

-----------------------------------------------------------------------------
\* The status of the guest: a nil return and exit code 0 are success.
Status(o) == IF o \in {"nil", "exit0"} THEN "nil" ELSE o

\* When _start returned before any signal, instantiate reports what it
\* returned: the exit code of a non-zero sys.ExitError, the error of a
\* failed call, or success; a signal that comes later does not change it.
ExitStatusReported ==
    mpc \in {"returned", "flushing", "done"} /\ by = "guest"
        => result = Status(outcome)

\* When the guest ran to its end by itself and run reports success, every
\* host call it made was handed to the record writer and accepted: a
\* WriteRecord error panics in the recorder's callback, ends _start with
\* that error, and the command fails rather than go on past a gap in the
\* log.  (Whether the final batch reaches the segment is another matter:
\* the deferred Flush's error is discarded.)
GuestRecordsWritten ==
    mpc = "done" /\ recording /\ by = "guest" /\ result = "nil"
        => written = calls

\* Once the guest returned or a signal came, run finishes its deferred
\* calls and returns.
RunReturns == (outcome # "none" \/ by = "signal") ~> (mpc = "done")

\* recordWriter is not safe for concurrent use: the deferred Flush never
\* runs while the guest's recorder is in WriteRecord.
FlushNotConcurrent == ~(mpc = "flushing" /\ gpc = "record")
====
