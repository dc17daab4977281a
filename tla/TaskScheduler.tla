--------------------------- MODULE TaskScheduler ---------------------------
(***************************************************************************)
(* The TaskScheduler of internal/timecraft/task.go.  Each SubmitTask call  *)
(* runs on its own goroutine: it registers the task under the mutex and   *)
(* sends it on the unbuffered queue.  One scheduleLoop goroutine receives *)
(* tasks and runs scheduleTask on each in turn: it finds or starts the    *)
(* process for the task's module path through the Executor, marks the     *)
(* task Executing and runs doHTTP, which retries on ECONNREFUSED.  Close  *)
(* cancels the loop's context and waits for the loop to return.           *)
(*                                                                         *)
(* Every "s.synchronize(func() {...})" block is one step.  The Executor   *)
(* is the environment: Start may fail, a process may die at any time, and *)
(* a request to a process may succeed, be refused or fail.                *)
(***************************************************************************)
EXTENDS Naturals, FiniteSets

CONSTANTS
    Tasks,          \* the task submitted by each SubmitTask goroutine
    Closers,        \* goroutines calling Close
    Keys,           \* module paths (processKey)
    Pids,           \* process IDs the Executor can hand out
    NoPid,          \* the zero ProcessID
    MaxAttempts,    \* maxAttempts of doHTTP
    CanHang         \* a live process may never answer a request

ASSUME NoPid \notin Pids /\ MaxAttempts \in Nat /\ CanHang \in BOOLEAN

Inputs == {"http", "other"}     \* *HTTPRequest, or any other TaskInput
Terminal == {"Error", "Done"}
TaskStates == {"None", "Queued", "Initializing", "Executing"} \cup Terminal
Errors == {"none", "start", "lookup", "invalid", "refused", "http", "read"}
SchedPCs == {"none", "loop", "init", "check", "start", "lookup", "exec",
             "invalid", "http", "read", "hung", "exited"}

VARIABLES
    initialized,    \* once.Do(s.init) has run
    cancelled,      \* s.cancel() has been called
    tstate,         \* task.state (None: not yet submitted)
    tkey,           \* processKey of the task's moduleSpec
    tinput,         \* kind of task.input
    tpid,           \* task.processID
    terr,           \* which error path set task.err
    tries,          \* client.Do calls made for the task
    spc,            \* SubmitTask goroutine: idle, sending or returned
    sched,          \* scheduleLoop: [pc, task, pid, i]
    processes,      \* s.processes: processKey -> ProcessID
    alive,          \* processes the Executor has running
    pkey,           \* module path each started process runs
    cpc             \* Close goroutine: idle, waiting or done

vars == <<initialized, cancelled, tstate, tkey, tinput, tpid, terr, tries,
          spc, sched, processes, alive, pkey, cpc>>

Init ==
    /\ initialized = FALSE
    /\ cancelled = FALSE
    /\ tstate = [t \in Tasks |-> "None"]
    /\ tkey \in [Tasks -> Keys]
    /\ tinput \in [Tasks -> Inputs]
    /\ tpid = [t \in Tasks |-> NoPid]
    /\ terr = [t \in Tasks |-> "none"]
    /\ tries = [t \in Tasks |-> 0]
    /\ spc = [t \in Tasks |-> "idle"]
    /\ sched = [pc |-> "none", task |-> CHOOSE t \in Tasks : TRUE,
                pid |-> NoPid, i |-> 0]
    /\ processes = [k \in Keys |-> NoPid]
    /\ alive = {}
    /\ pkey = [p \in Pids |-> "none"]
    /\ cpc = [c \in Closers |-> "idle"]

\* once.Do(s.init): the first caller starts scheduleLoop.
InitOnce ==
    /\ initialized' = TRUE
    /\ sched' = IF initialized THEN sched ELSE [sched EXCEPT !.pc = "loop"]

\* The scheduler goes back to its select after scheduleTask returns.
Loop == [pc |-> "loop", task |-> sched.task, pid |-> NoPid, i |-> 0]

\* s.synchronize(func() { task.state = Error; task.err = err }), then return.
Fail(t, why) ==
    /\ tstate' = [tstate EXCEPT ![t] = "Error"]
    /\ terr' = [terr EXCEPT ![t] = why]
    /\ sched' = Loop

-----------------------------------------------------------------------------
(* SubmitTask *)

SubmitTask(t) ==
    /\ spc[t] = "idle"
    /\ InitOnce
    /\ tstate' = [tstate EXCEPT ![t] = "Queued"]
    /\ spc' = [spc EXCEPT ![t] = "sending"]
    /\ UNCHANGED <<cancelled, tkey, tinput, tpid, terr, tries, processes,
                   alive, pkey, cpc>>

\* Mutant: the sender is not marked as returned and sends the task again.
SendKeepsSending(t) ==
    /\ spc[t] = "sending"
    /\ sched.pc = "loop"
    /\ sched' = [Loop EXCEPT !.pc = "init", !.task = t]
    /\ UNCHANGED <<initialized, cancelled, tstate, tkey, tinput, tpid, terr,
                   tries, spc, processes, alive, pkey, cpc>>

\* s.queue <- task meets "case task := <-queue" of the loop's select.
Send(t) ==
    /\ spc[t] = "sending"
    /\ sched.pc = "loop"
    /\ spc' = [spc EXCEPT ![t] = "returned"]
    /\ sched' = [Loop EXCEPT !.pc = "init", !.task = t]
    /\ UNCHANGED <<initialized, cancelled, tstate, tkey, tinput, tpid, terr,
                   tries, processes, alive, pkey, cpc>>

\* "case <-s.ctx.Done(): return" of the loop's select.
LoopExit ==
    /\ sched.pc = "loop"
    /\ cancelled
    /\ sched' = [sched EXCEPT !.pc = "exited"]
    /\ UNCHANGED <<initialized, cancelled, tstate, tkey, tinput, tpid, terr,
                   tries, spc, processes, alive, pkey, cpc>>

-----------------------------------------------------------------------------
(* scheduleTask *)

Unchanged1 == UNCHANGED <<initialized, cancelled, tkey, tinput, spc, cpc>>

\* Mutant: the recorded process is not looked up; a process is always started.
ScheduleInitIgnoresMap ==
    LET t == sched.task IN
    /\ sched.pc = "init"
    /\ tstate' = [tstate EXCEPT ![t] = "Initializing"]
    /\ sched' = [sched EXCEPT !.pc = "start"]
    /\ Unchanged1
    /\ UNCHANGED <<tpid, terr, tries, processes, alive, pkey>>

\* task.state = Initializing; processID, ok = s.processes[key]
ScheduleInit ==
    LET t == sched.task IN
    /\ sched.pc = "init"
    /\ tstate' = [tstate EXCEPT ![t] = "Initializing"]
    /\ sched' = [sched EXCEPT !.pid = processes[tkey[t]],
                   !.pc = IF processes[tkey[t]] # NoPid THEN "check" ELSE "start"]
    /\ Unchanged1
    /\ UNCHANGED <<tpid, terr, tries, processes, alive, pkey>>

\* Mutant: a live process ends scheduleTask without executing the task.
CheckProcessDropsTask ==
    /\ sched.pc = "check"
    /\ sched' = IF sched.pid \in alive THEN Loop ELSE [sched EXCEPT !.pc = "start"]
    /\ Unchanged1
    /\ UNCHANGED <<tstate, tpid, terr, tries, processes, alive, pkey>>

\* process, ok = s.Executor.Lookup(processID): is the process still alive?
CheckProcess ==
    /\ sched.pc = "check"
    /\ sched' = [sched EXCEPT !.pc = IF sched.pid \in alive THEN "exec" ELSE "start"]
    /\ Unchanged1
    /\ UNCHANGED <<tstate, tpid, terr, tries, processes, alive, pkey>>

\* processID, err = s.Executor.Start(...): a fresh process, or an error.
StartProcess ==
    LET t == sched.task IN
    /\ sched.pc = "start"
    /\ \/ \E p \in Pids :
             /\ pkey[p] = "none"
             /\ alive' = alive \cup {p}
             /\ pkey' = [pkey EXCEPT ![p] = tkey[t]]
             /\ sched' = [sched EXCEPT !.pc = "lookup", !.pid = p]
             /\ UNCHANGED <<tstate, terr>>
       \/ /\ Fail(t, "start")
          /\ UNCHANGED <<alive, pkey>>
    /\ Unchanged1
    /\ UNCHANGED <<tpid, tries, processes>>

\* s.Executor.Lookup(processID) after Start, then s.processes[key] = processID.
LookupStarted ==
    LET t == sched.task IN
    /\ sched.pc = "lookup"
    /\ \/ /\ sched.pid \in alive
          /\ processes' = [processes EXCEPT ![tkey[t]] = sched.pid]
          /\ sched' = [sched EXCEPT !.pc = "exec"]
          /\ UNCHANGED <<tstate, terr>>
       \/ /\ sched.pid \notin alive
          /\ Fail(t, "lookup")              \* "failed to start process"
          /\ UNCHANGED processes
    /\ Unchanged1
    /\ UNCHANGED <<tpid, tries, alive, pkey>>

\* task.state = Executing; task.processID = processID; then switch on input.
Execute ==
    LET t == sched.task IN
    /\ sched.pc = "exec"
    /\ tstate' = [tstate EXCEPT ![t] = "Executing"]
    /\ tpid' = [tpid EXCEPT ![t] = sched.pid]
    /\ sched' = [sched EXCEPT !.pc = IF tinput[t] = "http" THEN "http" ELSE "invalid"]
    /\ Unchanged1
    /\ UNCHANGED <<terr, tries, processes, alive, pkey>>

\* default: task.state = Error ("invalid task input")
InvalidInput ==
    /\ sched.pc = "invalid"
    /\ Fail(sched.task, "invalid")
    /\ Unchanged1
    /\ UNCHANGED <<tpid, tries, processes, alive, pkey>>

-----------------------------------------------------------------------------
(* doHTTP *)

\* Mutant: the loop retries ECONNREFUSED without the i == maxAttempts exit.
DoRequestNoBound ==
    LET t == sched.task IN
    /\ sched.pc = "http"
    /\ tries' = [tries EXCEPT ![t] = @ + 1]
    /\ \E res \in IF sched.pid \in alive THEN {"ok", "refused", "err"}
                                         ELSE {"refused"} :
          \/ /\ res = "ok"
             /\ sched' = [sched EXCEPT !.pc = "read"]
             /\ UNCHANGED <<tstate, terr>>
          \/ /\ res = "refused"
             /\ sched' = [sched EXCEPT !.i = @ + 2]
             /\ UNCHANGED <<tstate, terr>>
          \/ /\ res = "err"
             /\ Fail(t, "http")
    /\ Unchanged1
    /\ UNCHANGED <<tpid, processes, alive, pkey>>

\* What client.Do can do with a live process: the http.Client has no
\* Timeout and the request no context, so with CanHang it may never return.
LiveResults == {"ok", "refused", "err"} \cup (IF CanHang THEN {"hang"} ELSE {})

\* One client.Do of the retry loop.  A dead process refuses the connection.
\* On ECONNREFUSED with i # maxAttempts the body sleeps and runs i++, and
\* the for statement runs i++ again.
DoRequest ==
    LET t == sched.task IN
    /\ sched.pc = "http"
    /\ tries' = [tries EXCEPT ![t] = @ + 1]
    /\ \E res \in IF sched.pid \in alive THEN LiveResults ELSE {"refused"} :
          \/ /\ res = "hang"
             /\ sched' = [sched EXCEPT !.pc = "hung"]
             /\ UNCHANGED <<tstate, terr>>
          \/ /\ res = "ok"
             /\ sched' = [sched EXCEPT !.pc = "read"]
             /\ UNCHANGED <<tstate, terr>>
          \/ /\ res = "refused"
             /\ sched.i # MaxAttempts
             /\ sched' = [sched EXCEPT !.i = @ + 2]
             /\ UNCHANGED <<tstate, terr>>
          \/ /\ res = "refused"
             /\ sched.i = MaxAttempts
             /\ Fail(t, "refused")
          \/ /\ res = "err"
             /\ Fail(t, "http")
    /\ Unchanged1
    /\ UNCHANGED <<tpid, processes, alive, pkey>>

\* io.ReadAll(res.Body), then Done with the response or Error.
ReadBody ==
    LET t == sched.task IN
    /\ sched.pc = "read"
    /\ \/ /\ tstate' = [tstate EXCEPT ![t] = "Done"]
          /\ sched' = Loop
          /\ UNCHANGED terr
       \/ Fail(t, "read")
    /\ Unchanged1
    /\ UNCHANGED <<tpid, tries, processes, alive, pkey>>

-----------------------------------------------------------------------------
(* Close and the environment *)

\* Mutant: Close waits for the loop before it cancels the context.
CloseWaitFirst(c) ==
    /\ cpc[c] = "idle"
    /\ InitOnce
    /\ cpc' = [cpc EXCEPT ![c] = "waiting"]
    /\ UNCHANGED <<cancelled, tstate, tkey, tinput, tpid, terr, tries, spc,
                   processes, alive, pkey>>

\* s.once.Do(s.init); s.cancel(); then s.wg.Wait().
Close(c) ==
    /\ cpc[c] = "idle"
    /\ InitOnce
    /\ cancelled' = TRUE
    /\ cpc' = [cpc EXCEPT ![c] = "waiting"]
    /\ UNCHANGED <<tstate, tkey, tinput, tpid, terr, tries, spc, processes,
                   alive, pkey>>

\* s.wg.Wait() returns once scheduleLoop has returned.
CloseWait(c) ==
    /\ cpc[c] = "waiting"
    /\ sched.pc = "exited"
    /\ cpc' = [cpc EXCEPT ![c] = "done"]
    /\ UNCHANGED <<initialized, cancelled, tstate, tkey, tinput, tpid, terr,
                   tries, spc, sched, processes, alive, pkey>>

\* A process managed by the Executor exits.
ProcessExit(p) ==
    /\ p \in alive
    /\ alive' = alive \ {p}
    /\ UNCHANGED <<initialized, cancelled, tstate, tkey, tinput, tpid, terr,
                   tries, spc, sched, processes, pkey, cpc>>

Scheduler ==
    \/ LoopExit \/ ScheduleInit \/ CheckProcess \/ StartProcess
    \/ LookupStarted \/ Execute \/ InvalidInput \/ DoRequest \/ ReadBody

Next ==
    \/ \E t \in Tasks : SubmitTask(t) \/ Send(t)
    \/ Scheduler
    \/ \E c \in Closers : Close(c) \/ CloseWait(c)
    \/ \E p \in Pids : ProcessExit(p)

\* The scheduler goroutine keeps running; a client.Do that hangs (CanHang)
\* leaves it no step to take.  A
\* goroutine blocked on the unbuffered queue is served in FIFO order by the
\* Go runtime, so a sender is received whenever the loop keeps coming back.
Fairness ==
    /\ WF_vars(Scheduler)
    /\ \A t \in Tasks : SF_vars(Send(t))
    /\ \A c \in Closers : WF_vars(CloseWait(c))

Spec == Init /\ [][Next]_vars /\ Fairness

-----------------------------------------------------------------------------
TypeOK ==
    /\ initialized \in BOOLEAN /\ cancelled \in BOOLEAN
    /\ tstate \in [Tasks -> TaskStates]
    /\ tkey \in [Tasks -> Keys]
    /\ tinput \in [Tasks -> Inputs]
    /\ tpid \in [Tasks -> Pids \cup {NoPid}]
    /\ terr \in [Tasks -> Errors]
    /\ tries \in [Tasks -> 0..MaxAttempts]
    /\ spc \in [Tasks -> {"idle", "sending", "returned"}]
    /\ sched \in [pc : SchedPCs, task : Tasks, pid : Pids \cup {NoPid},
                   i : 0..MaxAttempts]
    /\ processes \in [Keys -> Pids \cup {NoPid}]
    /\ alive \subseteq Pids
    /\ pkey \in [Pids -> Keys \cup {"none"}]
    /\ cpc \in [Closers -> {"idle", "waiting", "done"}]

\* The scheduler starts a process for a module path only when the one it
\* recorded is gone: at most one live process per path.
OneLiveProcessPerKey ==
    \A p, q \in alive : p # q => pkey[p] # pkey[q]

\* A task Lookup has seen Error or Done stays so: no task is scheduled twice.
TerminalIsFinal ==
    [][\A t \in Tasks : tstate[t] \in Terminal => tstate'[t] = tstate[t]]_vars

\* Every submitted task reaches Error or Done and its SubmitTask returns.
TaskCompletes ==
    \A t \in Tasks :
        (tstate[t] = "Queued") ~> (tstate[t] \in Terminal /\ spc[t] = "returned")

\* Every submitted task reaches Error or Done and its SubmitTask returns,
\* unless Close cancelled the scheduler's context first.
TaskCompletesUnlessClosed ==
    \A t \in Tasks :
        (tstate[t] = "Queued")
            ~> ((tstate[t] \in Terminal /\ spc[t] = "returned") \/ cancelled)

\* Close returns: once a Close goroutine is in s.wg.Wait, scheduleLoop
\* eventually sees the cancelled context and returns.
CloseReturns ==
    \A c \in Closers : (cpc[c] = "waiting") ~> (cpc[c] = "done")

\* A task that failed with ECONNREFUSED made maxAttempts connection attempts,
\* as its error says ("failed to connect to process after %d attempts").
RefusedAfterMaxAttempts ==
    \A t \in Tasks : terr[t] = "refused" => tries[t] = MaxAttempts
=============================================================================
