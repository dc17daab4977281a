# TLA+ models of timecraft

This directory holds TLA+ specifications of the concurrent and stateful parts
of timecraft (the Go sources under `src/`), with TLC configurations that check
them. `PROJECT.json` lists every component, every run, the mutants that show
each property can fail, the source lines each definition models, the findings
and the hazards.

Check a model from this directory with, for example:

    tlc -workers 2 -config OciFile.cfg MCOciFile

## 1. The system and its parts

timecraft runs WebAssembly programs under wazero. It records every host call
into a log (the time machine), replays it, and serves a gRPC API to guests so
they can submit tasks to other guests. These are its parts and the state that
makes each one hard:

| Part | Source | State | Operations | Concurrency |
|---|---|---|---|---|
| socketFD | `internal/sandbox/socket.go` 270-353 | one atomic uint64: refCount (high 32 bits) and fd (low 32 bits, -1 once detached) | `init`, `load`, `acquire`, `releaseFunc`, `closeFunc` | lock-free CAS loops shared by every goroutine using a socket |
| localSocket | `internal/network/local_unix.go` | state bits (bound, listening, connected, accepted), fd0/fd1 socketFDs, name/peer, `errs` channel, listener, cancel | Bind, Listen, Connect/connect/dial, Accept, Send/Recv, Shutdown, Close; goroutines bridge/serve/dial | guest calls, bridge and dial goroutines, Close |
| TaskScheduler | `internal/timecraft/task.go` | tasks map, processes map (key → process id), unbuffered queue, ctx, once, wg | SubmitTask, init, scheduleLoop, scheduleTask, doHTTP, Lookup, Close | callers of SubmitTask and Close, the single scheduleLoop goroutine, processes started by the Executor that may exit at any time |
| timecraft server | `internal/timecraft/server.go` | its process ID and ModuleSpec (Env slices shared with its children); forwards to TaskGroup/ProcessManager (not under `src/`) | SubmitTasks, PollTasks, DiscardTasks, Spawn (subprocessModuleSpec), Kill | one server per guest process, each RPC on its own goroutine |
| ocifs file | `internal/sandbox/ocifs/file.go` | `f.layers` (pointer to reference-counted fileLayers), mutex, dirbuf | newFile, ref, Close, withLayers1/2 (every file operation), openFile, openSelf/openParent/openRoot, ReadDirent/Seek | goroutines of the guest sharing one open file |
| ExchangeReader | `internal/debug/tracing/exchange.go` | inflight map (id → request), buffered exchanges, offset | Read: pair each request with its response, emit interrupted requests at end of stream, sort the batch | sequential |
| RecordIndexBuilder | `internal/timemachine/index.go` | keys and values slices | Push, Reset, RecordIndex (sort), WriteRecordIndex | sequential |
| RecordBuilder | `internal/timemachine/record.go` | timestamp, function id, call, finished flag, buffer | Reset, SetTimestamp/FunctionID/FunctionCall (panic once finished), Bytes | sequential |
| recordProfiler | `profile.go` | started/stopped, first/last timestamps | profile's steps, Read, start, stop; createProfiles (goroutines + channel), exports | sequential reader, then parallel writers |
| CLI commands | `run.go`, `replay.go`, `logs.go`, `internal/cmd/get.go`, `internal/timecraft/run.go` | flags, the log writer, the guest goroutine | run, replay, logs, get | the guest runs in a goroutine cancelled with a cause |
| generated code, enum, help, SDK | `gen/`, `format/`, `pkg/format/`, `wasicall/syscall.go`, `help.go`, `sdk/` | none | none | none |

How the parts interact:

- Every system call on a sandbox or virtual-network socket brackets its use of
  the descriptor with `acquire` and a deferred `release` on the socket's
  socketFD. Close calls `close`. The descriptor is closed by whichever step
  drops the last reference after the detach.
- `localSocket.connect`, `dial` and `serve` hand a descriptor to another owner.
  They detach it from the socketFD (`close`), and in dial and serve they take a
  reference that is never released, so that the socketFD never closes it.
- Guests call the server. The server submits tasks to the TaskScheduler. The
  scheduler starts or reuses a process per module key through the Executor and
  sends the task as an HTTP request over the process's transport.
- The run command records host calls through RecordBuilder into the log. The
  profile and logs commands read records back, and ExchangeReader rebuilds HTTP
  exchanges from traced messages.

## 2. Hard behaviours, and what should hold

- **socketFD:** acquire, release and close interleave through CAS retries. The
  count must always equal the number of goroutines holding the fd, and the fd
  must never be closed while someone holds it. It must be closed exactly once,
  and eventually once detached. The whole thing must behave like the atomic
  contract in the comment at socket.go 270-288.
- **TaskScheduler:**
  - Close races SubmitTask. Processes die between Lookup and use. The retry
    loop's counter must stay in bounds.
  - A terminal state is final. Every submitted task ends. One key never maps to two live processes.
  - A task refused after the retries reports the attempts it made.
  - `client.Do` has no timeout: a process that never answers holds the loop,
    and Close must still return.
- **timecraft server:** a child's ModuleSpec is a shallow copy of its
  parent's, so its Env shares the parent's backing array. Every child, and
  every outbound proxy, must keep the Env it was spawned with whatever is
  spawned after it.
- **ocifs file:** operations race Close. No operation may use freed layers, and an
  operation runs on the layers it referenced. Files opened from one another
  share a tree of layers, and a branch must be freed exactly when no open
  file can reach it.
- **localSocket:**
  - Concurrent Listen/Connect/Accept each test and set bits in separate steps.
  - Close drains the error channel.
  - Detached descriptors are never closed by the socketFD.
- **ExchangeReader:**
  - Every request is paired with the next response of its id, or with
    io.ErrUnexpectedEOF at end of stream.
  - No exchange is lost or duplicated.
  - Order across batches.
- **OverlayLookup:** openFile, Stat and Readlink see what OCI whiteout
  semantics makes visible, and report an I/O error met on the way.
  openFile closes every layer file it does not return, on every path: the
  failed open, the failed Stat of an opened file, and a failed marker Stat
  included.
- **RecordBuilder:** Set after Bytes panics until Reset. Bytes is
  idempotent, even when the caller reuses the buffer it retained.
- **timecraft run:** the guest's `_start` runs on its own goroutine, and a
  signal races its return. The exit status must be the guest's when it
  returned first, run must return once either happened, and the recorder
  must be done before the deferred Flush runs. A run that reports success
  must have had every record accepted by the writer; the deferred Flush's
  own error is discarded (run.go:193), so the last batch may still be
  missing from a run that reports success.
- **recordProfiler:** the CPU profile covers exactly the host calls of the
  records in the window. The duration is measured from the first record in
  the window.
- **profile command:** createProfiles stores the two profiles on two
  goroutines that send their results on an unbuffered channel. A
  CreateProfile error must fail the command whichever result arrives
  first, and no goroutine may be left blocked on its send.

## 3. Modules

### SocketFD (`SocketFD.tla`, `SharedFD.tla`, in `MCOciFile`)

The state is the packed word as a record `[ref, fd]`, with `fd = Closed = -1`
once detached. Each goroutine `t` has a program counter `pc[t]`, the value
`old[t]` its loop last loaded, and `held[t]`, the fd it acquired (or `None`).
`osOpen` and `closes` record the operating-system descriptor.

How the actions correspond to the code:

- Every CAS loop is two steps: the `Load` of `oldState` (`Acquire`, `Release`,
  `Close`), and the `CompareAndSwap` with its outcome (`AcquireCAS`,
  `ReleaseCAS`, `CloseCAS`).
  - A failed CAS reloads.
  - The negative-fd early returns are disjuncts of the CAS step. They test the
    loaded value, exactly as the code tests `int32(oldState)`.
  - `CloseFD` is the `closeFD(fd)` callback.
- A goroutine that closes while holding the fd goes on to its deferred release
  (`AfterClose`). This is the acquire / defer release / close pattern of
  `localSocket.connect`.

`SharedFD.tla` is the abstract contract the comment describes:

- acquire succeeds only before close;
- release drops one holder;
- close detaches;
- the fd is closed once nobody holds it.

`SocketFD` instantiates it with holders = the goroutines whose `held` is set,
detached = (fd = -1), and fdOpen = `osOpen`. The run checks `Abstract!ASpec` as
a property (`ImplementsSharedFD`).

It is the `socketfd` scenario of `MCOciFile`, with three goroutines and the
descriptor number 3, and is checked in the ocifile run; its fairness
conditions are stated there for the goroutines of that scenario.

Fairness: weak fairness on every busy step of a CAS loop (a goroutine inside
the loop keeps running) and on the deferred release (a deferred call runs when
the function returns). A goroutine is never forced to start an acquire or a
close.

### TaskScheduler (`TaskScheduler.tla`, `MCTaskScheduler.tla`, four cfgs)

The variables are:

- per task: `tstate`, `tkey`, `tinput`, `tpid`, `terr`, `tries`, and `spc`, the
  submitting goroutine's position;
- the scheduler: `initialized`, `cancelled`, the loop goroutine `sched` (pc,
  current task, process id, retry counter `i`), and `processes` (the map);
- the Executor: `alive` and `pkey` (the key each started process serves);
- closers: `cpc`.

How the actions correspond to the code:

| Action | Code |
|---|---|
| `SubmitTask`, `Send` | task.go 99-117: registering, then the unbuffered send that rendezvouses with the loop's receive |
| `LoopExit` | the `ctx.Done` case |
| `ScheduleInit`, `CheckProcess`, `StartProcess`, `LookupStarted`, `Execute`, `InvalidInput` | the critical sections and Executor calls of `scheduleTask`, in order, with every early return to Error |
| `DoRequest` | one `client.Do` with its outcome: ok, ECONNREFUSED (the only outcome once the process died), or another error; with `CanHang`, a live process may also never answer (`LiveResults`), which leaves the loop in `hung`. The counter advances by two per retry, as the code does. |
| `ReadBody` | `io.ReadAll` of the body |
| `Close`, `CloseWait` | `cancel` and `wg.Wait` |
| `ProcessExit` | an Executor process ending |

HTTP payloads, module specs and log specs are abstracted to a key and an input
kind.

Fairness:

- weak fairness on the scheduler goroutine's steps;
- strong fairness on each `Send`, because a blocked sender is enabled whenever
  the loop is at its select, and Go serves blocked senders of a channel in
  order;
- weak fairness on `CloseWait`.

`CanHang` is FALSE in the passing run: there the scheduler's fairness
amounts to assuming that `client.Do` returns. The scheduler_hang run sets it
to TRUE and shows that Close then never returns: `cancel` does not reach a
request that was built without the scheduler's context.

`MCTaskScheduler` also holds the `server` scenario (the Server module below).
Its violation cfgs restrict `MCScenarios` to the scheduler.

### Server (`Server.tla`, in `MCTaskScheduler`)

One Server per process. The variables are:

- `spec`: the ModuleSpec of each started process. It is reduced to the Go
  slices `subprocessModuleSpec` shares with the parent: `env`, and `proxyEnv`
  of the OutboundProxy (with `hasProxy`). A slice is `[arr, len, cap]`.
- `heap`: the backing arrays, each as long as its capacity;
- `parent`, `started` and `alive`: the ProcessManager's view;
- `waiting`: the process a server's Kill waits for;
- `resp`: the last reply;
- `wantEnv` and `wantProxy`: what each process's Env should read. These are
  history variables, computed as plain sequences.

How the actions correspond to the code:

| Definition | Code |
|---|---|
| `GoAppend` | Go's `append`: in place when the result fits the capacity, else a fresh array from `growslice`. Its capacity is `GrowCap`, runtime.nextslicecap for 16-byte strings, whose size classes keep small capacities as they are. |
| `CappedEnv` | `child.Env[:len:len]` (server.go 99) |
| `SubprocessModuleSpec` | server.go 84-122: the Env append, then the proxy built from the parent's spec, and the parent's OutboundProxy kept when none is asked for. The other fields are assignments no property reads. |
| `Spawn` | server.go 245-259: subprocessModuleSpec, `Start` (fails, or starts `c`), and `Lookup`. The child may already have exited, giving "process is not available". |
| `Kill`, `KillWait` | server.go 261-276: parse, Lookup, the ParentID check, cancel, then Wait until the process exited |
| `ProcessExit` | a process ending, at any time (ProcessManager is not under `src/`) |

`Collect` drops the arrays of a spec whose Start failed. Nothing can reach
them, and Go's collector frees them.

The root's Env may have spare capacity, as `append(os.Environ(), envs...)`
in run.go typically leaves. Requests carry at most one variable for the
child and one for the proxy.

### OciFile (`OciFile.tla`, `MCOciFile.tla`, three cfgs)

`MCOciFile` checks four scenarios of the sandbox's reference-counted
resources, chosen in the initial state:

- goroutines sharing and closing an open overlay directory (`OciFile`);
- a name looked up across its layers (`OverlayLookup`, below);
- goroutines sharing a socket descriptor (`SocketFD`, above);
- files opened from one another and closed (`OciFileTree`, below).

A behaviour is that of the chosen module, and the other modules' variables
stay initial. So the states add rather than multiply. The lookup scenario
ends by stuttering (`LookupOver`), so deadlock stays checked for the
goroutines.

The variables are `layers` (`f.layers`: the value `L` or `Nil`), `refs` and
`freed` (the reference count of `L`, and whether its last unref ran), and per
goroutine `pc`, `got` (what `f.ref()` returned) and `arg` (what `do` received).

How the actions correspond to the code:

- `FileRef` is `f.ref()` under the mutex, with the EBADF early return.
- `ReadLayers` is the unsynchronized read of `f.layers` in `do(f.layers)`. It
  sees the value at that moment: Go loads a pointer in one word.
- `Do` is the operation. It panics on nil.
- `DeferredUnref` is the deferred call.
- `Close` swaps in nil under the mutex and unrefs.

`ref`/`unref` of fileLayers are not under `src/`. `Unref` follows how file.go
uses them: nil-safe, and the last one frees.

### OciFileTree (`OciFileTree.tla`, in `MCOciFile`)

The tree of fileLayers values that open files point to (`file.go` 23-160).
openFile makes a new value whose parent is the directory's layers, and
"the new fileLayers value owns a reference to its parent" (155-156).
openSelf, openParent and openRoot make a new file on the directory's own
layers, its parent's, or the root's. Close drops the file's reference.

- **State:** `fileOf` (each file's `f.layers`, Nil after Close), `made`,
  `parent` (each value's parent), `refs` and `freed`.
- **Actions:** `OpenSelf`, `OpenParent`, `OpenRoot` and `OpenFile` on an
  open file, each one step (`NewFile` is newFile's ref; the reference
  withLayers2 takes is dropped before it returns), and `Close`. `Release`
  is the unref chain: the last reference frees a value and unrefs its
  parent, as the owned reference implies. unref itself is not under `src/`.
  The race of the withLayers reference with Close is OciFile's, and what
  openFile finds is OverlayLookup's.
- **Property:** `FreedIffUnreachable`: the values freed are exactly those
  that no open file's layers are, or are an ancestor of. Its mutant drops
  `ref(open.layers.parent)`: closing the directory's file then frees the
  parent that the child's openParent would open.
- **Bounds:** four files and three values (a chain of three, or a root
  with two children), in every order of opening and closing.

### LocalSocket (`LocalSocket.tla`, `MCLocalSocket.tla`, two cfgs)

`MCLocalSocket` chooses the socket type of the guests' sockets in the
initial state, as `ns.socket(family, socktype, protocol)` does:

- **stream:** `LocalSocket`, described here;
- **datagram:** `LocalDatagram`, described in the next section.

The other module stays initial. The datagram scenario runs under one
namespace configuration with no listen or dial function, and the larger
descriptor limit. Those two only affect stream sockets.

What it models is ownership of descriptors in the virtual network
(`internal/network/local_unix.go`). The actors are:

- a server guest S: Listen, Accept, Close, and Close of the sockets Accept
  returned;
- a client guest C: Connect to S, or Connect to an outside address through
  dial, and Close;
- the bridge goroutine that Listen starts, with the `serve` calls it makes;
- the dial goroutine;
- the tunnels.

Each guest is a single-threaded WASI module. Its calls are therefore
sequential, and the interleavings are between guests and goroutines.

The variables are:

- `fdState` and `closes`: each descriptor number is free, open or closed, with
  a count of its closes;
- `usedClosed`: a history of system calls made on closed numbers;
- `sfd`: the socketFD words of every socket, as `[ref, fd]`;
- `queue`: the connections in flight in S's socketpair;
- the goroutines' positions and the error channels `errs`, each with its
  buffer of one.

The socketFD calls are the operators `Acq`, `Rel`, `RelCloses`, `Cls` and
`ClsCloses`. Each is a single atomic step, the contract the SocketFD run shows
the CAS loops implement. The `socketFD` of the network package is not under
`src/`; it is assumed to be the sandbox's.

How the actions correspond to the code:

- Each action is a whole call, or the part of it between two points where
  another actor can interfere. `ConnectLocal` ends at `server.fd1.acquire()`,
  and `ConnectSend` is the rest of `Connect`, including its deferred release.
- Deferred calls run in the code's LIFO order. Close is one step followed by
  its drain loop (`DrainS`, `DrainC`).
- Descriptor numbers are handed out lowest first and are not reused. A number
  stands for one descriptor lifetime, so a second close of it, or a call on it
  after its close, is what would hit a reused number in the real process.
- Errors come from the code's conditions:
  - EMFILE when no numbers are left (`ns.socket`, `FileConn`);
  - a failing Sendmsg once S's fd0 is closed;
  - EBADF on a detached socketFD.
- The namespace's listen and dial functions are chosen in `Init`, so every run
  covers the four configurations.

Runs:

- **localsocket:** `MaxFds` = 10, one external connection. The descriptor
  limit is 6 or 10, chosen in Init: with 6, ns.socket and FileConn run out
  of descriptors (EMFILE) on some paths. `Accept` is enabled only while a
  number is free. At the limit, Linux drops the descriptor passed with
  SCM_RIGHTS and sets MSG_CTRUNC without a control message, so Recvmsg
  returns no error with `oobn` = 0 and `msgs[0]` (local_unix.go:472) is out
  of range. That path is listed as a hazard and is not modelled. It checks:
  - TypeOK;
  - NoDoubleClose;
  - NoUseAfterClose;
  - CloseReturns (the drain loops of Close end);
  - NoLeak: once the guests closed every socket, every descriptor is eventually
    closed;
  - the three passing datagram properties below.
- **localsocket_dgram_connected:** violation of `ConnectedSendDelivered`.

Fairness:

- weak fairness on steps of goroutines that are already running: the rest of
  Connect, the drain loops, serve, the bridge after its listener closed, and
  dial;
- weak fairness on a tunnel's return once the socket at the other end of its
  downstream is closed. `tunnel` is not under `src/`, and this is an assumption
  about it.

Guests and outside clients are never forced to act. The system may stop, so
deadlock is not checked.

### LocalDatagram (`LocalDatagram.tla`, in `MCLocalSocket`)

Datagram sockets of `internal/network/local_unix.go`. A socket is a
socketpair. The guest uses fd0, and a peer sends to the socket by writing
its fd1.

- **State:**
  - `bits`, `peer`: the state bits and `s.peer`.
  - `registered`: the namespace's bound addresses. The namespace is not
    under `src/`; each socket's address is its own name.
  - `sfd`: each socketFD as `[ref, attached]`.
  - `sys`: whether the kernel descriptors are open.
  - `rq`: the datagrams queued at each socketpair end, each with its
    20-byte header (or none) and its length.
  - `sent`, `recvd`: histories of SendTo and RecvFrom results.
- **Actions:**
  - `Bind`, `Connect` (the datagram path: lookup, then store the peer), and
    `RecvFrom`, with `bindAny` where the code calls it.
  - `SendToAddr` covers the checks, bindAny and the lookup.
  - `SendToAcquire` is `peer.fd1.acquire()`, which gives EHOSTUNREACH once
    the peer is closed.
  - `SendToSend` is the header, the Sendmsg on the peer's fd1, the `n -=
    addrBufSize`, and the deferred release.
  - `SendToConnected` is SendTo with a nil address.
  - `Close` unlinks the address and detaches both ends. A kernel descriptor
    closes only when nobody holds it.
  - The addressee's Close can run between any two SendTo steps.
- **Properties:**
  - `AddressedSendDelivered`: an addressed SendTo that succeeds returns the
    payload length and leaves the datagram at the addressee's fd0.
  - `ReceivedFromSender`: RecvFrom reports the sender's address and
    payload length.
  - `HeldPeerFdOpen`: the fd1 a sender holds is still open at its Sendmsg.
  - `ConnectedSendDelivered` (violation): a connected socket's SendTo(nil)
    reaches its peer. The code sends on the guest's own fd0 (line 592), so
    the datagram lands on the socket's own fd1 and nobody reads it. The
    count it returns is also 20 short.

### ExchangeReader (`ExchangeReader.tla`, in `MCRecordBuilder` and `MCExchangeReader`)

`ExchangeReader.Read` (`internal/debug/tracing/exchange.go` 141-222) is
sequential, so one Read call is one action, `Read`. Its `for` loop is the
RECURSIVE operator `ReadLoop`.

- **The stream:** the environment, chosen in Init among all time-ordered
  sequences of up to `MaxMsgs` messages `[id, time, span]`. A message is
  named by its index in the stream.
- **State:** `pos` (what `stream.ReadFull` consumed), `inflight` (id → index
  of the pending request), `exch` and `offset` (`r.exchanges`, `r.offset`).
  `out` records every exchange returned to the caller; `eof` records that
  Read returned io.EOF.
- **Steps inside ReadLoop:**
  - `CopyOut`: the copy into the caller's buffer of `BufSize` entries, and
    the reset of offset and exchanges.
  - `ReadFull`: the next batch of at most `BatchSize` messages.
  - `PairMessage`, folded over the batch with `FoldLeft`.
  - `Interrupted`: the requests left at end of stream.
  - `SortExchanges`: every key-sorted permutation. `slices.SortFunc` is not
    stable, so exchanges with equal keys come in either order, and this also
    covers the random map order of the interrupted requests.
- **Properties:**
  - `EveryMessageOnce`: no message is in two returned exchanges, and after
    EOF every message is in exactly one.
  - `PairsAsReference`: after EOF, the pairs returned are those of
    `RefPairs`. This is a declarative pairing: the odd occurrences of an id
    are requests, each paired with the next message of the same id.
  - `CompletedInTimeOrder`: completed exchanges are returned in end-time
    order. This is a violation run.

The passing properties are checked in the `exchange` scenario of
`MCRecordBuilder` (re-exported there as `EveryMessageOnce` and
`PairsAsReference`). `MCExchangeReader` gives the
same constants to the violation run.

### OverlayLookup (`OverlayLookup.tla`, in `MCOciFile`)

Name lookup in a merged directory, `internal/sandbox/ocifs/file.go`
`openFile` (79-160), `hasWhiteout` (162-177), `Stat` (187-212) and
`Readlink` (214-239).

- **State:** `layers` is `l.files`, upper first. Each layer holds nothing,
  a file, a directory, a symlink, or fails with EIO under the name, and may
  hold a whiteout (`.wh.<name>`) or an opaque marker. `flags` are the
  caller's O_DIRECTORY and O_NOFOLLOW. `fault` is at most one further
  call that fails with EIO: the Stat openFile makes of a file it opened
  (line 111), or hasWhiteout's Stat of a marker (lines 163 and 169). All
  are inputs chosen in Init, over every stack of 1 to 3 layers. The faults
  are the constant `Faults`: both kinds in the ocifile run, none in the
  violation run, whose reference has no such fault.
- **Actions:** `OpenFile`, `Stat` and `Readlink`, each running once and
  recording its result. Their loops are the recursive `OpenLoop` and
  `LookupLoop`, one step per layer, with every `break` and early return
  of the code. `LayerOpen` and `LayerCall` are the layer's own calls: an
  open with O_NOFOLLOW added gives ELOOP on a symlink and ENOTDIR on a file
  under O_DIRECTORY. `openFile` records which layer files it opened,
  returned, and closed (the close of a masked entry, the close after a
  failed Stat, and the deferred `closeFiles` on every other error return,
  hasWhiteout's included).
- **Reference:** `OverlayOpen` and `OverlayStat` state OCI semantics
  declaratively. The reachable layers end at the first marker. The name is
  the first reachable entry. A directory is merged with the directories
  below it, down to the first entry of another type. A marker Stat that
  fails in a layer passed before the name is found makes the lookup fail.
- **Properties:**
  - `LookupMatchesOverlay`: Stat and Readlink agree with the reference.
  - `OpenClosesUnreturned`: every file openFile opened is returned or
    closed, never both, on every return of the loop, the two Stat failures
    included.
  - `OpenMatchesOverlay`: openFile agrees with the reference. This is a
    violation run: the ENOTDIR early stop (line 97) tests the caller's
    O_NOFOLLOW, while its comment means a directory open. An O_DIRECTORY
    open of an upper directory that masks a lower file fails with ENOTDIR.
    Over all inputs of the bounds, this is the only disagreement.

### RecordBuilder (`RecordBuilder.tla`, `MCRecordBuilder.tla`)

`RecordBuilder` (`internal/timemachine/record.go` 19-95) has:

- `Reset(t)`;
- the three setters;
- `SetterPanics`, for a setter called on a finished builder;
- `Bytes`, which also stands for `Write`.

`SetFunctionCall` retains the caller's slice, and `build` copies it. The
caller may overwrite its buffer at any time (`MutateBuffer`).

`BytesStable` says that every Bytes since Reset returns the same record. A
Bytes that did not mark the builder finished would rebuild from the
overwritten buffer.

`MCRecordBuilder` holds six scenarios, one chosen in the initial state:
`builder` (this module), `profiler` (`RecordProfiler`), `exchange`
(`ExchangeReader`), `run` (`RunInstantiate`), `get` (`GetCommand`) and
`profile` (`ProfileCommand`). The chosen module
steps and the others stay in their initial state, so the state counts add
up. Each instanced module's properties are re-exported under the names the
cfg uses. The only fairness is RunInstantiate's and ProfileCommand's, each
restricted to its scenario.

### RecordProfiler (`RecordProfiler.tla`, in `MCRecordBuilder`)

`recordProfiler` of `profile.go` (198-256), with the replay calling it and
`profile()` calling `stop()` once more afterwards (155-159).

- **Inputs, chosen in Init:** a log of record times in time order,
  `--start-time` and `--duration`.
- **Actions:**
  - `Read` is one call with a record left. It sets `lastTimestamp`, starts
    the profiler at the first record at or after the start, and stops it at
    the first record at or after the end. The record's host call then runs,
    profiled if the profiler is started and not stopped (`profiled`).
  - `ReplayReturns`: the replay returns at any point. It returns on io.EOF
    once stopped or at the end of the log, and also when the guest exits
    first.
  - `FinalStop` is the `records.stop()` at line 159.
- **Properties:**
  - `ProfiledIsWindow`: the profiled calls are exactly the records of
    `[start, start + duration)` that the replay reached.
  - `DurationOfWindow`: a started profile's `DurationNanos` is the time from
    the window's first record to the last record read.
- **Hazard, not a checked property:** a profile that never started. The
  final `stop()` then measures from the zero `time.Time`.

### ProfileCommand (`ProfileCommand.tla`, in `MCRecordBuilder`)

`profile` (`profile.go` 55-196) and `createProfiles` (258-292), around the
replay that RecordProfiler models.

- **Input, chosen in Init:** the `--export` types, a subset of cpu, memory
  and one type profile does not support.
- **Setup:** `SetupSteps` lists profile's steps up to the replay: flag
  parsing, the one process id, the export types (failing exactly when one
  is unsupported), parseProcessID, LoadConfig, OpenRegistry, NewRuntime
  (defers runtime.Close), RecordReader, ModuleCode, CompileModule (defers
  its Close), Prepare and ReplayRecordsModule. `Setup` takes one step: it
  returns the error (`Fail`) or goes on.
- **createProfiles:** `Spawn` starts one goroutine per profile. `Create(p)`
  is its CreateProfile returning, stored or not; the goroutine then blocks
  on the unbuffered channel. `Receive(p)` is one `<-ch` of the loop, from
  whichever goroutine is sending: an error sets lastErr, a descriptor is
  appended. `Created` returns after one result per profile, and profile
  returns lastErr if it is set.
- **The rest of profile:** `Export` writes the next sorted export type or
  returns the write error, `WriteDescriptors` creates the writer (deferred Close) and
  copies the descriptors, all or some with an error. `Unwind` runs the
  deferred Closes, last first, and `Return` follows.
- **Fairness:** weak fairness on profile's goroutine and on each
  CreateProfile returning. Nothing else runs on these goroutines.
- **Properties:**
  - `ReportedIfSucceeded`: when profile returns nil, both profiles are
    stored and printed and every export file is written. Its mutant sets
    lastErr from each result, so a success received after a failure clears
    it; only that arrival order breaks it.
  - `SendersFinish`: every goroutine's send is received. Its mutant returns
    from the loop at the first error and leaves the other goroutine
    blocked.

### RunInstantiate (`RunInstantiate.tla`, in `MCRecordBuilder`)

`run` (`run.go` 42-225) and `instantiate` (227-288), without the debugger
REPL.

- **Setup:** `SetupSteps` is run's sequence of steps (68-222): the "--"
  check, loadConfig, createRegistry, ReadFile, newRuntime, CompileModule,
  and, unless `--fly-blind` (`recording` is FALSE, chosen in Init), the
  compression check, the registry's CreateModule, CreateRuntime,
  CreateConfig, CreateProcess and CreateLogManifest, CreateLogSegment and
  NewLogRecordWriter; then NotifyContext and builder.Instantiate. Each step
  records whether it can fail and which call it defers. `Setup` takes one
  step: it fails, and run returns the error, or it pushes its defer on
  `stack` (runtime, compiledModule, logSegment, recordWriter, cancel,
  system).
- **Goroutines:** main (`mpc`) and the guest running `_start` (`gpc`).
  Signals are the environment (`Signal`). They are caught from
  NotifyContext until its deferred cancel.
- **Main:**
  - `Start`: InstantiateModule fails, or the guest goroutine starts.
  - `Wake`: `<-ctx.Done()`. The cause is mapped to the result (Canceled and
    exit code 0 give nil, a non-zero ExitError its code, another error
    itself), then the deferred `module.Close`.
  - `Unwind` runs run's defers, last registered first. The record writer's
    Flush takes a second step, `FlushEnd`, which writes the records into the
    segment if its Close has not run, or fails. The error is discarded, so
    the result does not change. `Return` follows the last one.
- **Guest:** `SysCall` (a host call, through the recorder unless
  `--fly-blind`; it may come after main's `module.Close`, since whether
  wazero stops a running guest there depends on a runtime configuration
  that is not under `src/`), `RecordBegin` and then
  `RecordEnd` or `RecordFail` (WriteRecord returns nil, or an error that the
  callback panics with: wazero recovers the panic and `_start` returns it),
  and `GuestReturns(o)`: `module.Close`, then `cancel(err)`. Only the first
  cancellation sets the cause, and `cancel(nil)` sets context.Canceled.
- **Fairness:** weak fairness on main's steps (runnable, they wait on
  nothing but the context) and on the end of WriteRecord. The guest need not
  return and no signal need come.
- **Properties:**
  - `ExitStatusReported`: when the guest returned before any signal, the
    result is its status.
  - `GuestRecordsWritten`: a recording run whose guest ran to its end and
    that reports success had the record of every host call accepted by
    WriteRecord. Its mutant drops WriteRecord's error instead of panicking.
    The stronger claim, that such a run has every record flushed to the
    segment, is false. `defer recordWriter.Flush()` (run.go:193) discards
    the error of the final write, and `defer logSegment.Close()` (189)
    discards Close's. With batches of 4096 records, a failed final write
    leaves a run that reports success with its last batch missing. This is
    listed as a hazard and is not checked as a property.
  - `RunReturns`: once the guest returned or a signal came, run finishes its
    deferred calls, whichever setup step it reached.
  - `FlushNotConcurrent` (violation): the deferred Flush never overlaps the
    guest's WriteRecord. On a signal, instantiate returns without waiting for
    the goroutine, so a host call in progress records into the writer while
    main flushes it.

### GetCommand (`GetCommand.tla`, in `MCRecordBuilder`)

`get` of `internal/cmd/get.go` (112-181), with its `resources` table
(53-110), `findResource`, `findMatchingResources` and `prefixLength`
(346-375). It is one action, `Get`, over every input chosen in Init: 0 to 2
arguments, the word, the output format, and whether the registry opens. The
words are every prefix of every name and alternate name, and every name
with one character appended. Names are sequences of characters, because
`prefixLength` compares them byte by byte. `prefixLength` is the RECURSIVE
`PrefixLengthFrom`.

- `SuggestsCommonPrefix`: otherwise the suggestions are the types, in table
  order, whose longest common prefix with the word (SequencesExt's
  `LongestCommonPrefix`, the reference) has at least two characters.
- `NoNilWriter`: the log resource's `get` is nil. The special case for
  `typ == "log"` keeps the text output from calling it.

This is a fifth scenario of `MCRecordBuilder`, for the run budget.

## 4. Runs

| Run | Expect | What it shows |
|---|---|---|
| scheduler | pass | 2 tasks, 1 key, 2 process ids, processes exiting at any time, one Close racing. OneLiveProcessPerKey (the scheduler starts a process for a key only when the one it recorded is gone); TerminalIsFinal (no step leaves Done or Error); TaskCompletesUnlessClosed (every task ends and its submitter returns, unless Close cancelled the loop first); CloseReturns. Server scenario: a root process and two more IDs, Spawn with and without an outbound proxy, Kill of any ID, processes exiting at any time: InheritsParentEnv (no child's or proxy's Env is overwritten through a shared array). |
| scheduler_submit_after_close | violation | TaskCompletes fails: Close, then the loop exits through ctx.Done, and a later (or racing) SubmitTask blocks forever on the unbuffered queue. Finding task.go:115. |
| scheduler_hang | violation | CloseReturns fails: a live process accepts the request and never answers, `client.Do` never returns, and Close waits in `wg.Wait` for ever. Finding task.go:207. |
| scheduler_retry | violation | RefusedAfterMaxAttempts fails: a task that ends with "failed to connect to process after 10 attempts" made 6 attempts. Finding task.go:238. |
| ocifile | pass | SocketFD: 3 goroutines, each acquiring, releasing and closing in any order. RefCountMatchesHolders, NoUseAfterClose, CloseOnce, EventuallyClosed, and the refinement ImplementsSharedFD hold. OciFile: 3 goroutines, one of which may Close: no operation runs on freed layers. Separately, for every stack of up to 3 layers and every flag set, Stat and Readlink see what OCI semantics makes visible, and openFile closes every layer file it does not return, also when an opened file's Stat or a marker's Stat fails. OciFileTree: 4 files opened from one another over 3 fileLayers values and closed in any order: exactly the values no open file can reach are freed. |
| localsocket | pass | Stream: S, C, the bridge with one external connection and the dial goroutine, under all four namespace configurations. There is no double close, no system call on a closed descriptor, Close returns, and nothing leaks once the guests closed their sockets. Datagram: two guests binding, connecting, sending, receiving and closing. Addressed sends are delivered with the right counts and sender, and a held fd1 stays open. |
| localsocket_dgram_connected | violation | ConnectedSendDelivered fails: after Connect, SendTo(iovs, nil) queues the datagram on the sender's own fd1. Finding local_unix.go:592. |
| exchange_order | violation | CompletedInTimeOrder fails: a response with span 2 completed in the first batch is returned before an exchange of the second batch that ends earlier. Finding exchange.go:220. |
| record_builder | pass | Any sequence of builder calls and buffer overwrites, at most 3 Bytes per Reset: Bytes is stable until Reset. Every log of up to 4 records against every window: the profile covers exactly the window's records, with the duration from its first record to the last read. Streams of up to 4 messages over 2 ids, batches of 2, caller buffer of 1: every message in exactly one exchange, pairs as the reference. timecraft run, recording or `--fly-blind`, with any setup step failing, up to 2 host calls whose records may fail to write, and any guest outcome, with or without a signal: the guest's exit status is reported, a run that reports success had every record accepted by the writer (the final Flush may fail unreported), and run returns. get, for every word near a resource name: suggestions share a two-character prefix, and the nil get of log is never used. profile, with any setup step failing, any --export types and either CreateProfile failing in either order: it succeeds only with both profiles stored and printed and every export written, and no createProfiles goroutine stays blocked. |
| run_interrupt | violation | FlushNotConcurrent fails: a signal during a host call; main wakes, runs system.Close and cancel, and starts Flush while the guest is in WriteRecord. Finding run.go:193. |
| overlay_open | violation | OpenMatchesOverlay fails: an O_DIRECTORY open of a directory masking a lower file returns ENOTDIR. Finding file.go:98. |
| ocifile_close_race | violation | DoGetsReferencedLayers fails: f.ref() returns the layers, Close sets f.layers to nil, and do receives nil and panics. Finding file.go:431. |

Every property of a passing run has a mutant in `PROJECT.json`: a plausible
bug in a mapped action (a dropped fd check, a missing decrement, an
off-by-one, a dropped map lookup, a missing bound) under which TLC reports the
property violated.

## 5. Bounds

- **SocketFD:** three goroutines. With three, one can close while two are
  acquiring or releasing, which is every interleaving of the three loops. Two
  goroutines would miss a release racing both an acquire and a close. The fd
  value is one model number, because the code never compares fd values.
  926,966 states for the four scenarios of the ocifile run.
- **TaskScheduler:**
  - Two tasks on one key exercise process reuse, restart after exit, and two
    tasks sharing a process.
  - Two process ids let a restart get a fresh id.
  - MaxAttempts = 10 is the code's constant.
  - Closers is one closer, which may or may not act. The retry violation run
    has no closer.
  - Each process id is started at most once, as the Executor hands out fresh
    ids.
- **Server:** three process IDs (the root and two children), two variables,
  a root Env of length 1 with capacity 1 or 2 (165,948 states with the
  scheduler scenario). A root with spare capacity and two children, or one
  child with a proxy, are the two ways an uncapped append would write into a
  shared array. Two children also let a child be killed by its parent and
  the other process try the same and be denied (the ParentID check is a
  single guard with nothing between it and the reply, so no property is
  spent on it). Deeper trees reach spare
  capacity only through growth (length 2 plus 1 gives capacity 4), which
  needs a fourth process. That is 40 times the states, for the same
  in-place write.
- **OciFile:** three goroutines: one closing while two operate.
- **OciFileTree:** four files and three fileLayers values: a chain of three
  values, or a root with two children, each opened and closed in any order.
  A third level is where a value's parent is not the root, so an unref of
  the parent must cascade further, and four files let two share a value.
- **LocalDatagram:** two sockets A and B, 2 SendTo calls each, payloads of
  0 and 5 bytes (638,761 states with the stream scenario). Two sockets let
  each send to the other and to itself, and let one close while the other
  holds its fd1 between acquire and Sendmsg. The 0-byte payload is the
  edge where `n > 0` decides whether the header is subtracted.
- **OverlayLookup:** 1 to 3 layers, 5 entry kinds, whiteout and opaque
  markers, 4 flag sets, and no fault or one Stat failing at any layer
  where that Stat is made (926,966 states for the ocifile run). Three layers give an upper
  directory, a middle layer, and a lower one that the middle masks or
  merges, so every break of the loop meets a layer below it.
- **RecordProfiler:** every log of up to 4 records at times 1..3, start 0, 1
  or 2, and duration 0 or 1 (29,738 states for the six scenarios together). Equal times,
  records before, inside and after the window, and a window of length 0
  all occur.
- **RecordBuilder:** 2 start times, 2 function ids, 2 buffer contents, and at
  most `MaxBytes` = 3 Bytes calls per Reset. Three calls separate the first
  build from two later ones around a buffer overwrite.
- **ProfileCommand:** the two profiles the code always stores, every
  subset of three export types, and every failing step. Two goroutines
  give both orders of a failure and a success on the channel.
- **GetCommand:** the words are every prefix of every name plus every name
  with a character appended (both sides of each `> 1` boundary), with 0, 1
  and 2 arguments and each output format.
- **RunInstantiate:** up to 2 host calls, with and without `--fly-blind`.
  One call is enough to be in progress when the signal comes, and a second
  one is there to be refused once the module is closed. Every guest
  outcome, every failing setup step, a failing WriteRecord, and every order
  of signal and return occur (29,738 states for the six scenarios
  together).
- **ExchangeReader:** every stream of up to 4 messages over 2 ids, times
  0..2 and spans {0, 2} (24,078 states alone). Four messages are two exchanges,
  or an id used twice, or requests left in flight. Batches of 2 put a
  request and its response in different batches. A caller buffer of 1
  spreads one batch over several Read calls. The code's 1000-message buffer
  is scaled down to 2. The behaviour at a batch boundary is the same at any
  size. The errors ErrNoProgress and ErrUnexpectedEOF of ReadFull are not
  modelled. The stream package is not under `src/`, and the model assumes
  ReadFull returns 0 messages only at end of stream.

## 6. Not modelled, and why

- **Generated code, the system call enum, help and the SDK:** no behaviour.
- **Syscall wrappers** (`syscall_linux.go`) **and socketConn/socketListener:**
  single system calls. Their only shared state is the socketFD.
- **The server's task RPCs** (SubmitTasks, LookupTasks, PollTasks,
  DiscardTasks): they forward to TaskGroup, which is not under `src/`.
  submitTask builds its spec with the same subprocessModuleSpec that Spawn
  uses. PollTasks takes task IDs off TaskGroup's channel before it returns
  them, so a caller that goes away may lose completions. Whether TaskGroup
  delivers them again is not in the repository, so this is not listed as a
  hazard of this code.
- **localSocket:** Name, Peer and Shutdown (reads, or a single call on fd0),
  the stream data path, and address families are not modelled.
- **Exchange formatting** (Format, MarshalJSON, MarshalYAML): pure conversions.
- **RecordIndexBuilder** (`index.go`): nothing else in `src/` uses it. Its
  one question is whether `sort.Sort` keeps equal keys in Push order. Below
  13 entries, pdqsort uses insertion sort, which is stable. The unstable
  case needs permutations of 13 entries, which is beyond TLC. It is listed
  as a hazard. RecordIndexWriter is flatbuffers serialization.
- **ocifs:** the file operations other than lookup and the opens are
  single calls on `l.files[0]` inside `withLayers` (OciFile covers the
  layering). unref is not under `src/`; OciFileTree takes its cascade from
  the reference the comment at file.go:155 says a value owns.
  ReadDirent depends on dirbuf, which is not under `src/`.
- **profile():** the pprof data and the registry's storage are abstracted
  to whether each call fails. The wzprof profilers are not under `src/`.
- **CLI commands:** replay, logs and timecraft.runModule are sequential
  I/O. run's flag parsing and the contents of what its setup writes to the
  registry are left out: RunInstantiate keeps only whether each step fails
  and what it defers. The debugger REPL is not under `src/`.
- **get's writers** (getConfigs ... getLogs) and `useGet`: table formatting.

## 7. Plan

In order of importance:

1. **Done:** SocketFD + SharedFD (refinement), TaskScheduler, and OciFile. These
   are the concurrent cores.
2. **Done:** LocalSocket (stream connection setup, serve, dial, Close) and
   LocalDatagram (Bind, Connect, SendTo, RecvFrom, Close). The datagram
   finding is that connected sends are lost.
3. **Done:** ExchangeReader. Its finding is that ordering holds only within a
   batch.
4. **Done:** RecordBuilder and OverlayLookup. RecordIndex was dropped (see
   section 6).
5. **Done:** recordProfiler, as a second scenario of the record_builder run.
   The unstarted-profile duration is listed as a hazard but not checked.
6. **Done:** timecraft run's goroutine, signal and deferred-flush lifecycle
   (RunInstantiate). The exchange_reader pass run joined record_builder as a
   scenario, to keep one run per question.
7. **Done:** get's resource lookup (GetCommand), against SequencesExt's
   LongestCommonPrefix.
8. **Done:** the scheduler's unbounded `client.Do` (scheduler_hang). The
   server's Spawn and Kill, as a scenario of the scheduler run. SocketFD
   joined the ocifile run as a scenario, to keep the run budget for
   questions. The type invariants of the instanced sub-modules were dropped
   in favour of deeper properties.
9. **Done:** run's setup steps, their failures and its defer stack, with
   `--fly-blind`; a WriteRecord failure, which wazero turns into the error
   of `_start` (GuestRecordsWritten now requires it to fail the command).
   The tree of fileLayers values that files opened from one another share
   (OciFileTree, FreedIffUnreachable), as the ocifile run's fourth scenario.
10. **Done:** the profile command (ProfileCommand): its setup steps,
   createProfiles' goroutines and channel, the exports and the printing,
   as a sixth scenario of the record_builder run. FreedOnlyAfterClose,
   which restated Close's order of assignments, was dropped for it.
11. **Next:** the unstarted-profile duration (a violation run would need a
   run slot); socket.go's operations beyond the reference count.
