---------------------------- MODULE OciFileTree ----------------------------
(***************************************************************************)
(* The open files of the overlay file system and the fileLayers values     *)
(* they point to (internal/sandbox/ocifs/file.go), as a tree: openFile     *)
(* makes a fileLayers value whose parent is the directory's, and "the new  *)
(* fileLayers value owns a reference to its parent" (file.go:155).         *)
(* newFile takes one reference for the file; openSelf, openParent and      *)
(* openRoot make a new file on the directory's own layers, its parent's or *)
(* the root's; Close drops the file's reference.  The last unref of a      *)
(* value frees it and, through the reference it owns, unrefs its parent.   *)
(*                                                                         *)
(* Each operation is one step: withLayers2's reference of the file's       *)
(* layers is dropped again before it returns, and the race of that         *)
(* reference with Close is OciFile's.  Which layers openFile finds is      *)
(* OverlayLookup's; here it succeeds, or fails and leaves nothing behind.  *)
(***************************************************************************)
EXTENDS Naturals, FiniteSets, TLC

CONSTANTS
    Handles,    \* *file values
    Nodes,      \* *fileLayers values
    Root,       \* the fileLayers of the directory the file system opened
    Nil         \* the nil pointer

ASSUME Root \in Nodes /\ Nil \notin Nodes

VARIABLES
    fileOf,     \* f.layers of each file made so far, Nil after Close
    made,       \* the files newFile made
    parent,     \* l.parent of each fileLayers value made so far
    refs,       \* reference count of each fileLayers value
    freed       \* the fileLayers values whose last unref ran

vars == <<fileOf, made, parent, refs, freed>>

Created == DOMAIN parent

Init ==
    /\ made = {CHOOSE h \in Handles : TRUE}
    /\ fileOf = [h \in made |-> Root]
    /\ parent = [n \in {Root} |-> Nil]
    /\ refs = [n \in Nodes |-> IF n = Root THEN 1 ELSE 0]
    /\ freed = {}

\* The ancestors of l, l included, following the parent pointers.
RECURSIVE Chain(_)
Chain(l) == IF l = Nil THEN {} ELSE {l} \cup Chain(parent[l])

\* The root of l's tree: openRoot's "for l.parent != nil { l = l.parent }".
RECURSIVE RootOf(_)
RootOf(l) == IF parent[l] = Nil THEN l ELSE RootOf(parent[l])

\* unref(l) applied to the counts rc and freed set fr: the last reference
\* frees l and unrefs the parent it owns a reference to.
RECURSIVE Release(_, _, _)
Release(rc, fr, l) ==
    IF l = Nil THEN [refs |-> rc, freed |-> fr]
    ELSE IF rc[l] = 1
         THEN Release([rc EXCEPT ![l] = 0], fr \cup {l}, parent[l])
         ELSE [refs |-> [rc EXCEPT ![l] = rc[l] - 1], freed |-> fr]

\* The files open now, and the layers they hold.
Open == {h \in made : fileOf[h] # Nil}

\* newFile(l) as the file h2: ref(l).  withLayers2 referenced the caller's
\* layers and drops that reference on return, so it leaves no trace.
NewFile(h2, l) ==
    /\ h2 \in Handles \ made
    /\ made' = made \cup {h2}
    /\ fileOf' = fileOf @@ (h2 :> l)
    /\ refs' = [refs EXCEPT ![l] = refs[l] + 1]

\* openSelf: a new file on f's own layers.
OpenSelf(h, h2) ==
    /\ h \in Open
    /\ NewFile(h2, fileOf[h])
    /\ UNCHANGED <<parent, freed>>

\* openParent: a new file on the parent's layers, or on f's own at the root.
OpenParent(h, h2) ==
    /\ h \in Open
    /\ LET l == fileOf[h] IN
       NewFile(h2, IF parent[l] # Nil THEN parent[l] ELSE l)
    /\ UNCHANGED <<parent, freed>>

\* openRoot: a new file on the root of f's layers.
OpenRoot(h, h2) ==
    /\ h \in Open
    /\ NewFile(h2, RootOf(fileOf[h]))
    /\ UNCHANGED <<parent, freed>>

\* Mutant: the new fileLayers value takes no reference on its parent.
OpenFileNoParentRef(h, h2, n) ==
    /\ h \in Open
    /\ h2 \in Handles \ made /\ n \in Nodes \ Created
    /\ made' = made \cup {h2}
    /\ fileOf' = fileOf @@ (h2 :> n)
    /\ parent' = parent @@ (n :> fileOf[h])
    /\ refs' = [refs EXCEPT ![n] = 1]
    /\ UNCHANGED freed

\* openFile succeeded: newFile(&fileLayers{parent: l, files: files}), then
\* ref(open.layers.parent).
OpenFile(h, h2, n) ==
    /\ h \in Open
    /\ h2 \in Handles \ made /\ n \in Nodes \ Created
    /\ made' = made \cup {h2}
    /\ fileOf' = fileOf @@ (h2 :> n)
    /\ parent' = parent @@ (n :> fileOf[h])
    /\ refs' = [refs EXCEPT ![n] = 1, ![fileOf[h]] = refs[fileOf[h]] + 1]
    /\ UNCHANGED freed

\* Close: f.layers = nil under the mutex, then unref of what it held.
Close(h) ==
    /\ h \in Open
    /\ LET r == Release(refs, freed, fileOf[h]) IN
       /\ refs' = r.refs
       /\ freed' = r.freed
    /\ fileOf' = [fileOf EXCEPT ![h] = Nil]
    /\ UNCHANGED <<made, parent>>

Next ==
    \/ \E h \in Handles, h2 \in Handles :
          OpenSelf(h, h2) \/ OpenParent(h, h2) \/ OpenRoot(h, h2)
    \/ \E h \in Handles, h2 \in Handles, n \in Nodes : OpenFile(h, h2, n)
    \/ \E h \in Handles : Close(h)

Spec == Init /\ [][Next]_vars

-----------------------------------------------------------------------------
\* The layers some open file can still reach: its own and their ancestors,
\* which openParent and openRoot may open later.
Reachable == UNION {Chain(fileOf[h]) : h \in Open}

\* The reference counting frees exactly what no open file can reach: a
\* file's layers and every ancestor stay open as long as the file is, and
\* once the last file on a branch is closed the branch is freed, whatever
\* order the files of parents and children were opened and closed in.
FreedIffUnreachable == freed = Created \ Reachable
=============================================================================
