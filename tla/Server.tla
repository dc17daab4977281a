------------------------------- MODULE Server -------------------------------
(***************************************************************************)
(* The gRPC server every guest process has (internal/timecraft/server.go): *)
(* Spawn starts a child process whose ModuleSpec subprocessModuleSpec      *)
(* derives from the server's own, and Kill cancels a process and waits for *)
(* it, provided the caller is its parent.  One Server per process; the     *)
(* ProcessManager (Start, Lookup, Wait and the processes themselves) is    *)
(* not in the repository and is the environment here.                      *)
(*                                                                         *)
(* The ModuleSpec is reduced to what subprocessModuleSpec shares with the  *)
(* parent through Go slices: Env, and the OutboundProxy's Env.  A slice is *)
(* a record [arr, len, cap] into heap, the backing arrays, so that append  *)
(* writes in place when the capacity allows it, as Go's does, and a child  *)
(* shares its parent's array until an append grows it.                     *)
(***************************************************************************)
EXTENDS Naturals, Sequences, FiniteSets

CONSTANTS
    Procs,      \* process IDs the ProcessManager can hand out
    Root,       \* the process timecraft run started
    Vars,       \* environment variables ("NAME=value" strings)
    Nil         \* a nil ParentID, or no process

ASSUME Root \in Procs /\ Nil \notin Procs /\ Vars # {}

\* The zero string, in the capacity of an array beyond the slice's length.
Zero == ""

\* A request's Env: none or one variable.  OutboundProxy is nil, or a spec
\* with its own Env (proxyEnv is <<>> when there is none).
EnvReqs == {<<>>} \cup {<<v>> : v \in Vars}
Requests == [env : EnvReqs, hasProxy : {FALSE}, proxyEnv : {<<>>}]
            \cup [env : EnvReqs, hasProxy : {TRUE}, proxyEnv : EnvReqs]

\* Backing arrays: those growslice allocates for the Env and the proxy Env
\* of the spec built for process c; <<Root, "env">> holds the root's Env.
ArrayIds == Procs \X {"env", "proxy"}

RootVar == CHOOSE v \in Vars : TRUE

VARIABLES
    heap,       \* backing array id -> its elements, capacity long
    spec,       \* ModuleSpec of each started process: [env, hasProxy, proxyEnv]
    parent,     \* ParentID of each started process
    started,    \* processes the ProcessManager started
    alive,      \* processes still running
    wantEnv,    \* the Env each process was meant to get (history)
    wantProxy,  \* the Env its outbound proxy was meant to get (history)
    waiting,    \* the process each server's Kill waits for, or Nil
    resp        \* the last reply an RPC returned

vars == <<heap, spec, parent, started, alive, wantEnv, wantProxy, waiting, resp>>

NoSlice == [arr |-> <<Root, "env">>, len |-> 0, cap |-> 0]

Init ==
    /\ \E c \in {1, 2} :        \* the root Env may have spare capacity
          /\ heap = [a \in ArrayIds |->
                       IF a = <<Root, "env">> THEN <<RootVar>> \o [i \in 1..(c - 1) |-> Zero]
                       ELSE <<>>]
          /\ spec = [p \in Procs |->
                       [env |-> IF p = Root THEN [arr |-> <<Root, "env">>, len |-> 1, cap |-> c]
                                ELSE NoSlice,
                        hasProxy |-> FALSE, proxyEnv |-> NoSlice]]
    /\ parent = [p \in Procs |-> Nil]
    /\ started = {Root} /\ alive = {Root}
    /\ wantEnv = [p \in Procs |-> IF p = Root THEN <<RootVar>> ELSE <<>>]
    /\ wantProxy = [p \in Procs |-> <<>>]
    /\ waiting = [p \in Procs |-> Nil]
    /\ resp = "none"

-----------------------------------------------------------------------------
(* Go slices *)

\* The elements a slice shows.
View(h, sl) == [i \in 1..sl.len |-> h[sl.arr][i]]

\* runtime.nextslicecap for a small slice of strings (16-byte elements,
\* so roundupsize keeps the capacity): double it, or take what is needed.
GrowCap(old, needed) == IF needed > 2 * old THEN needed ELSE 2 * old

\* append(sl, xs...): in place when len+len(xs) fits the capacity, else a
\* fresh array (id fresh) holding a copy, the new elements and zeros.
GoAppend(h, sl, xs, fresh) ==
    LET n == sl.len + Len(xs)
        a == h[sl.arr]
    IN IF n <= sl.cap
       THEN [slice |-> [sl EXCEPT !.len = n],
             heap |-> [h EXCEPT ![sl.arr] =
                         [i \in 1..Len(a) |-> IF sl.len < i /\ i <= n
                                              THEN xs[i - sl.len] ELSE a[i]]]]
       ELSE LET c == GrowCap(sl.cap, n) IN
            [slice |-> [arr |-> fresh, len |-> n, cap |-> c],
             heap |-> [h EXCEPT ![fresh] =
                         View(h, sl) \o xs \o [i \in 1..(c - n) |-> Zero]]]

\* Mutant: the parent's Env is appended to as it is (append(child.Env, ...)).
CappedEnvFull(sl) == sl

\* child.Env[:len(child.Env):len(child.Env)]: the capacity cut to the length.
CappedEnv(sl) == [sl EXCEPT !.cap = sl.len]

\* subprocessModuleSpec(r) of a server whose spec is ps, building the spec
\* of process c: the shallow copy, the Env appended to the capped parent
\* Env, and the outbound proxy, when requested, built the same way from the
\* parent's spec; without one the child keeps the parent's OutboundProxy.
\* Path, Function, Args, Stdin, HostNetworkBinding, Dials and Listens are
\* plain assignments no property reads.
SubprocessModuleSpec(h, ps, r, c) ==
    LET e == GoAppend(h, CappedEnv(ps.env), r.env, <<c, "env">>)
        p == GoAppend(e.heap, CappedEnv(ps.env), r.proxyEnv, <<c, "proxy">>)
    IN IF r.hasProxy
       THEN [spec |-> [env |-> e.slice, hasProxy |-> TRUE, proxyEnv |-> p.slice],
             heap |-> p.heap]
       ELSE [spec |-> [ps EXCEPT !.env = e.slice], heap |-> e.heap]

-----------------------------------------------------------------------------
(* RPCs *)

\* The RPC returns res to the guest.
Reply(res) == resp' = res

\* The arrays of a spec no started process holds are unreachable; the
\* garbage collector frees them (an append to an array in use stays).
Collect(h) == [a \in ArrayIds |-> IF a[1] \in started THEN h[a] ELSE <<>>]

\* Spawn: subprocessModuleSpec, then s.processes.Start, which runs the
\* child as process c or fails, then s.processes.Lookup(processID), which
\* reports "process is not available" when the child has already exited.
\* Only s can kill c, and s is in this call, so the exit is taken with it.
Spawn(s, r, c) ==
    /\ s \in alive /\ waiting[s] = Nil
    /\ LET b == SubprocessModuleSpec(heap, spec[s], r, c) IN
       \/ /\ heap' = b.heap
          /\ started' = started \cup {c}
          /\ parent' = [parent EXCEPT ![c] = s]
          /\ spec' = [spec EXCEPT ![c] = b.spec]
          /\ wantEnv' = [wantEnv EXCEPT ![c] = wantEnv[s] \o r.env]
          /\ wantProxy' = [wantProxy EXCEPT ![c] =
                            IF r.hasProxy THEN wantEnv[s] \o r.proxyEnv
                            ELSE wantProxy[s]]
          /\ \/ alive' = alive \cup {c} /\ Reply("spawned")
             \/ alive' = alive /\ Reply("lost")
       \/ /\ heap' = Collect(b.heap)
          /\ Reply("spawnfailed")
          /\ UNCHANGED <<started, alive, parent, spec, wantEnv, wantProxy>>
    /\ UNCHANGED waiting

\* Kill(x): uuid.Parse, s.processes.Lookup, the ParentID check, then
\* process.cancel(nil) and s.processes.Wait.
Kill(s, x) ==
    /\ s \in alive /\ waiting[s] = Nil
    /\ CASE x \notin Procs -> Reply("invalid") /\ UNCHANGED waiting
         [] x \notin alive -> Reply("notfound") /\ UNCHANGED waiting
         [] parent[x] # s  -> Reply("denied") /\ UNCHANGED waiting
         [] OTHER          -> waiting' = [waiting EXCEPT ![s] = x] /\ UNCHANGED resp
    /\ UNCHANGED <<heap, spec, parent, started, alive, wantEnv, wantProxy>>

\* s.processes.Wait(processID) returns once the process exited.
KillWait(s) ==
    /\ waiting[s] # Nil
    /\ waiting[s] \notin alive
    /\ waiting' = [waiting EXCEPT ![s] = Nil]
    /\ Reply("killed")
    /\ UNCHANGED <<heap, spec, parent, started, alive, wantEnv, wantProxy>>

\* A process exits: it returned, or its context was cancelled.
ProcessExit(p) ==
    /\ p \in alive
    /\ alive' = alive \ {p}
    /\ UNCHANGED <<heap, spec, parent, started, wantEnv, wantProxy, waiting,
                   resp>>

KillTargets == Procs \cup {"bad"}

Next ==
    \/ \E s \in Procs, r \in Requests, c \in Procs \ started : Spawn(s, r, c)
    \/ \E s \in Procs : KillWait(s)
    \/ \E s \in Procs, x \in KillTargets : Kill(s, x)
    \/ \E p \in Procs : ProcessExit(p)

Spec == Init /\ [][Next]_vars

-----------------------------------------------------------------------------
\* Every started process, and its outbound proxy, sees the Env it was
\* spawned with: its parent's Env followed by the variables it asked for,
\* however many siblings, proxies and grandchildren were spawned since
\* from the same backing arrays.
InheritsParentEnv ==
    \A p \in started :
        /\ View(heap, spec[p].env) = wantEnv[p]
        /\ spec[p].hasProxy => View(heap, spec[p].proxyEnv) = wantProxy[p]
====
