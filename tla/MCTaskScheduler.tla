-------------------------- MODULE MCTaskScheduler --------------------------
(***************************************************************************)
(* The timecraft package's scheduler and gRPC server, in one of two        *)
(* scenarios chosen in the initial state; the other module stays initial.  *)
(*                                                                         *)
(* scheduler: two tasks on one module path, two process IDs the Executor  *)
(* can hand out (so a dead process can be replaced once), and the          *)
(* maxAttempts of doHTTP, 10.  Closers is empty or one Close goroutine.    *)
(*                                                                         *)
(* server: the root process and two more process IDs, two environment     *)
(* variables, and a root Env with or without spare capacity.               *)
(***************************************************************************)
EXTENDS TaskScheduler

MCTasks == {"t1", "t2"}
MCKeys == {"k1"}
MCPids == {"p1", "p2"}
MCMaxAttempts == 10
NoClosers == {}
OneCloser == {"c1"}

MCProcs == {"r0", "r1", "r2"}
MCVars == {"A=1", "B=2"}

\* The scenarios a run explores; the violation runs take only the scheduler.
MCScenarios == {"scheduler", "server"}
SchedulerOnly == {"scheduler"}

VARIABLES scenario, svHeap, svSpec, svParent, svStarted, svAlive, svWantEnv,
          svWantProxy, svWaiting, svResp

svvars == <<svHeap, svSpec, svParent, svStarted, svAlive, svWantEnv,
            svWantProxy, svWaiting, svResp>>
allvars == <<scenario, vars, svvars>>

SV == INSTANCE Server
        WITH Procs <- MCProcs, Root <- "r0", Vars <- MCVars, Nil <- NoPid,
             heap <- svHeap, spec <- svSpec, parent <- svParent,
             started <- svStarted, alive <- svAlive, wantEnv <- svWantEnv,
             wantProxy <- svWantProxy, waiting <- svWaiting, resp <- svResp

MCInit ==
    /\ scenario \in MCScenarios
    /\ Init
    /\ SV!Init
    \* the module not chosen takes one of its initial states
    /\ scenario = "server" => tinput = [t \in Tasks |-> "http"]
    /\ scenario = "scheduler" => svSpec["r0"].env.cap = 1

\* A step of the scheduler scenario; the server stays as it is.
SchedStep(A) == scenario = "scheduler" /\ A /\ UNCHANGED <<scenario, svvars>>

MCNext ==
    \/ SchedStep(Next)
    \/ scenario = "server" /\ SV!Next /\ UNCHANGED <<scenario, vars>>

\* TaskScheduler's fairness, for the scheduler scenario; the server's RPCs
\* and the processes are under no obligation to act.
MCSpec ==
    /\ MCInit /\ [][MCNext]_allvars
    /\ WF_allvars(SchedStep(Scheduler))
    /\ \A t \in Tasks : SF_allvars(SchedStep(Send(t)))
    /\ \A c \in Closers : WF_allvars(SchedStep(CloseWait(c)))

\* Server: every process and its outbound proxy see the Env they were
\* spawned with, whatever was spawned since from the same arrays.
InheritsParentEnv == SV!InheritsParentEnv

\* Server: Kill succeeds only for the caller's own child, once it exited.
=============================================================================
