--------------------------- MODULE ProfileCommand ---------------------------
(***************************************************************************)
(* "timecraft profile" (profile.go 55-196 and createProfiles, 258-292).    *)
(* profile runs its setup steps in order; each can return an error, and    *)
(* some defer a Close.  The replay is RecordProfiler's; here it succeeds   *)
(* or fails.  Then createProfiles starts one goroutine per profile (CPU    *)
(* and memory), each storing its profile in the registry and sending the   *)
(* result on an unbuffered channel, and receives one result per profile:   *)
(* the descriptors of those stored and the last error.  profile then       *)
(* writes the --export files in sorted order and prints the descriptors;   *)
(* the deferred Closes run last first.                                     *)
(*                                                                         *)
(* The registry, pprof and wzprof are I/O: a call is modelled by whether   *)
(* it fails.  Flags and export paths are left out, but the --export types  *)
(* are an input, since an unsupported one fails the command.               *)
(***************************************************************************)
EXTENDS Naturals, Sequences, FiniteSets

CONSTANTS
    Profiles,     \* the profiles createProfiles stores: cpu and memory
    ExportTypes   \* the --export types a user can name

\* exportedProfileTypes after slices.Sort.
ExportOrder == <<"cpu", "memory">>

ASSUME Profiles = {"cpu", "memory"} /\ Profiles \subseteq ExportTypes

\* The steps of profile before createProfiles: whether each can fail, and
\* the Close it defers.  "unsupported" fails exactly when a --export type
\* is neither cpu nor memory.
SetupSteps == <<
    [fails |-> "may", defer |-> "none"],            \* parseFlags
    [fails |-> "may", defer |-> "none"],            \* one process id
    [fails |-> "unsupported", defer |-> "none"],    \* export types
    [fails |-> "may", defer |-> "none"],            \* parseProcessID
    [fails |-> "may", defer |-> "none"],            \* LoadConfig
    [fails |-> "may", defer |-> "none"],            \* OpenRegistry
    [fails |-> "may", defer |-> "runtime"],         \* NewRuntime
    [fails |-> "may", defer |-> "none"],            \* RecordReader
    [fails |-> "may", defer |-> "none"],            \* ModuleCode
    [fails |-> "may", defer |-> "compiledModule"],  \* CompileModule
    [fails |-> "may", defer |-> "none"],            \* Prepare
    [fails |-> "may", defer |-> "none"]             \* ReplayRecordsModule
>>

VARIABLES
    exports,   \* the --export types
    pc,        \* profile: setup, create, export, print, returned, done
    step,      \* next setup step
    stack,     \* deferred Closes, last registered last
    gpc,       \* each createProfiles goroutine: none, creating, sending, done
    stored,    \* result of each reg.CreateProfile: none, ok, err
    recv,      \* results the receive loop took off the channel
    descs,     \* the profiles whose descriptor it appended
    lastErr,   \* whether lastErr is set
    ei,        \* next index into the sorted export types
    written,   \* the profiles WriteProfile wrote
    printed,   \* the profiles whose descriptor stream.Copy printed
    result     \* what profile returns: pending, nil, error

vars == <<exports, pc, step, stack, gpc, stored, recv, descs, lastErr, ei,
          written, printed, result>>

Unsupported == exports \ Profiles # {}

\* The sorted export types the loop of lines 166-181 goes through.
Exported == SelectSeq(ExportOrder, LAMBDA t : t \in exports)

Init ==
    /\ exports \in SUBSET ExportTypes
    /\ pc = "setup" /\ step = 1 /\ stack = <<>>
    /\ gpc = [p \in Profiles |-> "none"]
    /\ stored = [p \in Profiles |-> "none"]
    /\ recv = 0 /\ descs = {} /\ lastErr = FALSE
    /\ ei = 1 /\ written = {} /\ printed = {}
    /\ result = "pending"

\* return err from profile: the deferred Closes run next.
Fail ==
    /\ pc' = "returned" /\ result' = "error"

\* One setup step: its error return, or the Close it defers.
Setup ==
    /\ pc = "setup"
    /\ LET t == SetupSteps[step] IN
       \/ /\ t.fails = "may" \/ (t.fails = "unsupported" /\ Unsupported)
          /\ Fail
          /\ UNCHANGED <<step, stack>>
       \/ /\ ~(t.fails = "unsupported" /\ Unsupported)
          /\ stack' = IF t.defer = "none" THEN stack
                      ELSE Append(stack, t.defer)
          /\ step' = step + 1
          /\ pc' = IF step = Len(SetupSteps) THEN "create" ELSE "setup"
          /\ UNCHANGED result
    /\ UNCHANGED <<exports, gpc, stored, recv, descs, lastErr, ei, written,
                   printed>>

\* records.stop(), then createProfiles' loop: one goroutine per profile.
Spawn ==
    /\ pc = "create" /\ \A p \in Profiles : gpc[p] = "none"
    /\ gpc' = [p \in Profiles |-> "creating"]
    /\ UNCHANGED <<exports, pc, step, stack, stored, recv, descs, lastErr,
                   ei, written, printed, result>>

\* A goroutine's reg.CreateProfile returns: the profile is stored, or not;
\* it then blocks sending the result on the unbuffered channel.
Create(p) ==
    /\ gpc[p] = "creating"
    /\ \E r \in {"ok", "err"} : stored' = [stored EXCEPT ![p] = r]
    /\ gpc' = [gpc EXCEPT ![p] = "sending"]
    /\ UNCHANGED <<exports, pc, step, stack, recv, descs, lastErr, ei,
                   written, printed, result>>

\* Mutant: the loop returns at the first error.
ReceiveReturnsOnError(p) ==
    /\ pc = "create" /\ recv < Cardinality(Profiles)
    /\ gpc[p] = "sending"
    /\ gpc' = [gpc EXCEPT ![p] = "done"]
    /\ recv' = recv + 1
    /\ IF stored[p] = "err"
       THEN /\ lastErr' = TRUE /\ Fail /\ UNCHANGED descs
       ELSE /\ descs' = descs \cup {p} /\ UNCHANGED <<lastErr, pc, result>>
    /\ UNCHANGED <<exports, step, stack, stored, ei, written, printed>>

\* Mutant: lastErr = err on every result, so a later success clears it.
ReceiveClearsErr(p) ==
    /\ pc = "create" /\ recv < Cardinality(Profiles)
    /\ gpc[p] = "sending"
    /\ gpc' = [gpc EXCEPT ![p] = "done"]
    /\ recv' = recv + 1
    /\ lastErr' = (stored[p] = "err")
    /\ descs' = IF stored[p] = "err" THEN descs ELSE descs \cup {p}
    /\ UNCHANGED <<exports, pc, step, stack, stored, ei, written, printed,
                   result>>

\* <-ch: one result, from whichever goroutine is sending; an error sets
\* lastErr, a descriptor is appended.
Receive(p) ==
    /\ pc = "create" /\ recv < Cardinality(Profiles)
    /\ gpc[p] = "sending"
    /\ gpc' = [gpc EXCEPT ![p] = "done"]
    /\ recv' = recv + 1
    /\ lastErr' = (lastErr \/ stored[p] = "err")
    /\ descs' = IF stored[p] = "err" THEN descs ELSE descs \cup {p}
    /\ UNCHANGED <<exports, pc, step, stack, stored, ei, written, printed,
                   result>>

\* createProfiles returns after one result per profile; profile returns
\* its error, or goes on to the exports.
Created ==
    /\ pc = "create" /\ recv = Cardinality(Profiles)
    /\ IF lastErr THEN Fail ELSE pc' = "export" /\ UNCHANGED result
    /\ UNCHANGED <<exports, step, stack, gpc, stored, recv, descs, lastErr,
                   ei, written, printed>>

\* wzprof.WriteProfile of the next export type; both profiles are set,
\* since stop() ran.  A write error is returned.
Export ==
    /\ pc = "export" /\ ei <= Len(Exported)
    /\ \/ /\ written' = written \cup {Exported[ei]}
          /\ ei' = ei + 1
          /\ UNCHANGED <<pc, result>>
       \/ Fail /\ UNCHANGED <<ei, written>>
    /\ UNCHANGED <<exports, step, stack, gpc, stored, recv, descs, lastErr,
                   printed>>

\* The writer (deferred Close) and stream.Copy of the descriptors, which
\* prints them all, or some and returns an error.
WriteDescriptors ==
    /\ pc = "export" /\ ei > Len(Exported)
    /\ stack' = Append(stack, "writer")
    /\ \/ printed' = descs /\ pc' = "returned" /\ result' = "nil"
       \/ \E some \in SUBSET descs : printed' = some /\ Fail
    /\ UNCHANGED <<exports, step, gpc, stored, recv, descs, lastErr, ei,
                   written>>

\* The deferred Closes, last registered first.
Unwind ==
    /\ pc = "returned" /\ stack # <<>>
    /\ stack' = SubSeq(stack, 1, Len(stack) - 1)
    /\ UNCHANGED <<exports, pc, step, gpc, stored, recv, descs, lastErr, ei,
                   written, printed, result>>

Return ==
    /\ pc = "returned" /\ stack = <<>>
    /\ pc' = "done"
    /\ UNCHANGED <<exports, step, stack, gpc, stored, recv, descs, lastErr,
                   ei, written, printed, result>>

Main ==
    \/ Setup \/ Spawn \/ \E p \in Profiles : Receive(p)
    \/ Created \/ Export \/ WriteDescriptors \/ Unwind \/ Return

Next == Main \/ \E p \in Profiles : Create(p)

\* profile's goroutine runs whenever it can, and CreateProfile returns.
Fairness == WF_vars(Main) /\ \A p \in Profiles : WF_vars(Create(p))

Spec == Init /\ [][Next]_vars /\ Fairness

-----------------------------------------------------------------------------
\* When profile returns nil, both profiles are stored in the registry and
\* printed, and every --export file was written: a CreateProfile error is
\* not lost, whichever goroutine's result the loop receives first.
ReportedIfSucceeded ==
    pc = "done" /\ result = "nil" =>
        /\ \A p \in Profiles : stored[p] = "ok"
        /\ printed = Profiles
        /\ written = exports

\* Every createProfiles goroutine's send is eventually received: none is
\* left blocked on the unbuffered channel, whatever CreateProfile returned.
SendersFinish ==
    \A p \in Profiles : gpc[p] = "sending" ~> gpc[p] = "done"
====
