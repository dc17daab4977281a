------------------------------ MODULE OciFile ------------------------------
(***************************************************************************)
(* An open file of the overlay file system, internal/sandbox/ocifs/file.go.*)
(* The file points to a reference-counted fileLayers value; newFile takes *)
(* one reference for the file.  Every operation (Readv, Writev, Sync,      *)
(* Stat, ...) goes through withLayers1 or withLayers2: f.ref() reads       *)
(* f.layers and references it under f.mutex, then the operation runs on    *)
(* "do(f.layers)" and the reference is dropped by the deferred unref.      *)
(* Close swaps f.layers to nil under the mutex and drops the file's        *)
(* reference.  The last unref frees the layers (closes their files).       *)
(*                                                                         *)
(* The read of f.layers passed to do is not under the mutex; a concurrent  *)
(* Close may make it nil.  Go loads a pointer in one word, so the read     *)
(* sees either the layers or nil.                                          *)
(***************************************************************************)
EXTENDS Naturals, FiniteSets

CONSTANTS
    Goroutines, \* goroutines using the same *file
    L,          \* the fileLayers value the file was opened with
    Nil         \* the nil pointer

ASSUME L # Nil

VARIABLES
    layers,     \* f.layers
    refs,       \* reference count of L
    freed,      \* the last unref of L has run
    pc,         \* program counter of each goroutine
    got,        \* the layers f.ref() returned (and referenced), or Nil
    arg         \* the fileLayers pointer handed to do

vars == <<layers, refs, freed, pc, got, arg>>

PCs == {"idle", "read", "do", "unref", "panicked"}

Init ==
    /\ layers = L                   \* newFile(layers)
    /\ refs = 1                     \* ref(layers) of newFile
    /\ freed = FALSE
    /\ pc = [g \in Goroutines |-> "idle"]
    /\ got = [g \in Goroutines |-> Nil]
    /\ arg = [g \in Goroutines |-> Nil]

\* Mutant: unref is not nil-safe and decrements for a nil pointer too.
UnrefNoNilCheck(l) ==
    /\ refs' = refs - 1
    /\ freed' = (refs = 1)

\* unref(l): drop one reference; the last one frees the layers.
Unref(l) ==
    IF l = Nil THEN UNCHANGED <<refs, freed>>
    ELSE /\ refs' = refs - 1
         /\ freed' = (refs = 1)

\* Mutant: ref(layers) is not called by f.ref().
FileRefNoIncrement(g) ==
    /\ pc[g] = "idle"
    /\ got' = [got EXCEPT ![g] = layers]
    /\ pc' = [pc EXCEPT ![g] = IF layers = Nil THEN "idle" ELSE "read"]
    /\ UNCHANGED <<layers, refs, freed, arg>>

\* layers := f.ref(); if layers == nil return EBADF.
FileRef(g) ==
    /\ pc[g] = "idle"
    /\ got' = [got EXCEPT ![g] = layers]
    /\ refs' = IF layers = Nil THEN refs ELSE refs + 1
    /\ pc' = [pc EXCEPT ![g] = IF layers = Nil THEN "idle" ELSE "read"]
    /\ UNCHANGED <<layers, freed, arg>>

\* The unsynchronized read of f.layers in "return do(f.layers)".
ReadLayers(g) ==
    /\ pc[g] = "read"
    /\ arg' = [arg EXCEPT ![g] = layers]
    /\ pc' = [pc EXCEPT ![g] = "do"]
    /\ UNCHANGED <<layers, refs, freed, got>>

\* Fd and String use the layers f.ref() returned, not f.layers: they run
\* l.files[0].Fd() (or format l.files) and the deferred unref follows.
UseReferenced(g) ==
    /\ pc[g] = "read"
    /\ pc' = [pc EXCEPT ![g] = "unref"]
    /\ UNCHANGED <<layers, refs, freed, got, arg>>

\* do(l) runs l.files[0].<operation> (Readv, Writev, Preadv, Pwritev,
\* CopyRange, Allocate, Truncate, Sync, Datasync, Flags, SetFlags): a nil l
\* panics (nil dereference).
Do(g) ==
    /\ pc[g] = "do"
    /\ pc' = [pc EXCEPT ![g] = IF arg[g] = Nil THEN "panicked" ELSE "unref"]
    /\ UNCHANGED <<layers, refs, freed, got, arg>>

\* defer unref(layers)
DeferredUnref(g) ==
    /\ pc[g] = "unref"
    /\ Unref(got[g])
    /\ got' = [got EXCEPT ![g] = Nil]
    /\ arg' = [arg EXCEPT ![g] = Nil]
    /\ pc' = [pc EXCEPT ![g] = "idle"]
    /\ UNCHANGED layers

\* Close: swap f.layers for nil under the mutex, then unref what it held.
Close(g) ==
    /\ pc[g] = "idle"
    /\ layers' = Nil
    /\ Unref(layers)
    /\ UNCHANGED <<pc, got, arg>>

Next ==
    \E g \in Goroutines :
        \/ FileRef(g) \/ ReadLayers(g) \/ UseReferenced(g) \/ Do(g)
        \/ DeferredUnref(g)
        \/ Close(g)

Spec == Init /\ [][Next]_vars

-----------------------------------------------------------------------------
TypeOK ==
    /\ layers \in {L, Nil}
    /\ refs \in 0..Cardinality(Goroutines) + 1
    /\ freed \in BOOLEAN
    /\ pc \in [Goroutines -> PCs]
    /\ got \in [Goroutines -> {L, Nil}]
    /\ arg \in [Goroutines -> {L, Nil}]

\* An operation never runs on layers whose files the last unref has closed.
NoUseOfFreedLayers ==
    \A g \in Goroutines : pc[g] = "do" /\ arg[g] = L => ~freed

\* The operation runs on the layers withLayers referenced: do is never
\* handed nil after f.ref() returned the layers.
DoGetsReferencedLayers ==
    \A g \in Goroutines : pc[g] = "do" => arg[g] = got[g]
=============================================================================
