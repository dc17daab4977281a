--------------------------- MODULE OverlayLookup ---------------------------
(***************************************************************************)
(* Name lookup in a directory of the OCI overlay file system,             *)
(* internal/sandbox/ocifs/file.go.  A directory is a stack of layer        *)
(* directories (l.files, upper first).  openFile, Stat and Readlink look   *)
(* a name up in each layer in turn; a layer that holds a whiteout for the  *)
(* name (".wh.<name>") or is opaque (".wh..wh..opq") hides the layers      *)
(* below it.  openFile merges a directory with the same directories of the *)
(* lower layers, and stops at a lower entry of another type.               *)
(*                                                                         *)
(* What each layer holds under the name is an input: nothing, a file, a    *)
(* directory, a symbolic link, or a layer whose calls fail with EIO.  The  *)
(* caller's open flags are O_DIRECTORY and O_NOFOLLOW or not.  At most    *)
(* one further call fails with EIO: the Stat of a file openFile opened in  *)
(* a layer, or hasWhiteout's Stat of the markers in a layer.  Each         *)
(* operation runs once on the chosen inputs and records its result, which  *)
(* is compared with OCI layer semantics stated declaratively.              *)
(***************************************************************************)
EXTENDS Integers, Sequences, SequencesExt, FiniteSets

CONSTANTS
    MaxLayers,  \* layers of the directory
    Faults      \* the calls that may fail: "stat", "marker"

Entries == {"none", "file", "dir", "symlink", "eio"}
Layer == [entry : Entries, whiteout : BOOLEAN, opaque : BOOLEAN]
OpenFlags == {"O_DIRECTORY", "O_NOFOLLOW"}
Pending == [err |-> "pending", files |-> <<>>, opened |-> {}, closed |-> {}]

VARIABLES
    layers,     \* l.files, upper layer first
    flags,      \* the open flags of the caller
    openRes,    \* openFile: [err, files (the new fileLayers), opened, closed]
    statRes,    \* Stat: [err, layer the FileInfo comes from]
    linkRes,    \* Readlink: [err, layer the link is read from]
    fault       \* the failing call: [kind, at] (the layer), or NoFault

vars == <<layers, flags, openRes, statRes, linkRes, fault>>

NoFault == [kind |-> "none", at |-> 0]

\* A Stat can fail only on a layer's file that opened (a file or a
\* directory), a marker's Stat only on a layer where hasWhiteout is called.
FaultEntries == [stat |-> {"file", "dir"}, marker |-> {"none", "dir"}]
FaultsOf(ls) ==
    { f \in [kind : Faults, at : DOMAIN ls] : ls[f.at].entry \in FaultEntries[f.kind] }

Init ==
    /\ layers \in UNION { [1..n -> Layer] : n \in 1..MaxLayers }
    /\ flags \in SUBSET OpenFlags
    /\ openRes = Pending
    /\ statRes = [err |-> "pending", layer |-> 0]
    /\ linkRes = [err |-> "pending", layer |-> 0]
    /\ fault \in {NoFault} \cup FaultsOf(layers)

\* file.Open(name, flags|O_NOFOLLOW, mode) on one layer directory.
LayerOpen(L) ==
    CASE L.entry = "none"    -> "ENOENT"
      [] L.entry = "eio"     -> "EIO"
      [] L.entry = "symlink" -> "ELOOP"
      [] L.entry = "file" /\ "O_DIRECTORY" \in flags -> "ENOTDIR"
      [] OTHER               -> "ok"

\* Mutant: the opaque marker of the layer directory is not checked.
HasWhiteoutNoOpaque(L) == L.whiteout

\* hasWhiteout(file, ".wh."+name): Stat of the whiteout, then of the opaque
\* marker; a layer reached here answered ENOENT or is a directory.
HasWhiteout(L) == L.whiteout \/ L.opaque

\* f.Stat("", AT_SYMLINK_NOFOLLOW) of the file opened in layer i fails;
\* hasWhiteout's Stat of a marker in layer i fails.
StatFails(i) == fault = [kind |-> "stat", at |-> i]
MarkerFails(i) == fault = [kind |-> "marker", at |-> i]

Result(err, files, opened, closed) ==
    [err |-> err, files |-> files, opened |-> opened, closed |-> closed]

\* The deferred closeFiles(files) runs on every return but the last one,
\* which sets files to nil; ENOENT is returned when no layer had the name.
Fail(err, files, opened, closed) == Result(err, <<>>, opened, closed \cup ToSet(files))
Done(files, opened, closed) ==
    IF files = <<>> THEN Fail("ENOENT", files, opened, closed)
    ELSE Result("ok", files, opened, closed)

\* A lower layer holds an entry that is not a directory: f.Close(); break.
MaskedEntry(i, files, opened, closed) == Done(files, opened \cup {i}, closed \cup {i})

\* Mutant: the file whose Stat failed is not closed.
StatFailNoClose(i, files, opened, closed) == Fail("EIO", files, opened \cup {i}, closed)

\* The Stat of the opened file failed: f.Close(); return nil, err.
StatFail(i, files, opened, closed) == Fail("EIO", files, opened \cup {i}, closed \cup {i})

\* The loop of openFile from layer i on, with the layers opened so far.
RECURSIVE OpenLoop(_, _, _, _)
OpenLoop(i, files, opened, closed) ==
    IF i > Len(layers) THEN Done(files, opened, closed)
    ELSE
    LET L == layers[i]
        e == LayerOpen(L)
        Continue(fs, op) == CASE MarkerFails(i) -> Fail("EIO", fs, op, closed)
                              [] HasWhiteout(L) -> Done(fs, op, closed)
                              [] OTHER          -> OpenLoop(i + 1, fs, op, closed)
    IN CASE e = "ELOOP" /\ files # <<>> -> Done(files, opened, closed)
         [] e = "ENOTDIR" /\ "O_NOFOLLOW" \in flags /\ files # <<>>
                                          -> Done(files, opened, closed)
         [] e \notin {"ok", "ENOENT"}     -> Fail(e, files, opened, closed)
         [] e = "ENOENT"                  -> Continue(files, opened)
         [] StatFails(i)                  -> StatFail(i, files, opened, closed)
         [] L.entry # "dir" /\ files # <<>> -> MaskedEntry(i, files, opened, closed)
         [] L.entry # "dir"               -> Done(Append(files, i), opened \cup {i}, closed)
         [] OTHER                         -> Continue(Append(files, i), opened \cup {i})

\* file.Stat(name, AT_SYMLINK_NOFOLLOW) and file.Readlink(name, buf) on one
\* layer directory.
LayerCall(op, L) ==
    CASE L.entry = "none" -> "ENOENT"
      [] L.entry = "eio"  -> "EIO"
      [] op = "Stat"      -> "ok"
      [] L.entry = "symlink" -> "ok"
      [] OTHER            -> "EINVAL"

\* The loop of Stat (and of Readlink, with the result of the layer's call).
RECURSIVE LookupLoop(_, _)
LookupLoop(i, op) ==
    IF i > Len(layers) THEN [err |-> "ENOENT", layer |-> 0]
    ELSE LET r == LayerCall(op, layers[i]) IN
         CASE r = "ok"       -> [err |-> "ok", layer |-> i]
           [] r # "ENOENT"   -> [err |-> r, layer |-> 0]
           [] MarkerFails(i) -> [err |-> "EIO", layer |-> 0]
           [] HasWhiteout(layers[i]) -> [err |-> "ENOENT", layer |-> 0]
           [] OTHER          -> LookupLoop(i + 1, op)

OpenFile ==
    /\ openRes = Pending
    /\ openRes' = OpenLoop(1, <<>>, {}, {})
    /\ UNCHANGED <<layers, flags, statRes, linkRes, fault>>

Stat ==
    /\ statRes.err = "pending"
    /\ statRes' = LookupLoop(1, "Stat")
    /\ UNCHANGED <<layers, flags, openRes, linkRes, fault>>

Readlink ==
    /\ linkRes.err = "pending"
    /\ linkRes' = LookupLoop(1, "Readlink")
    /\ UNCHANGED <<layers, flags, openRes, statRes, fault>>

Next == OpenFile \/ Stat \/ Readlink

Spec == Init /\ [][Next]_vars

-----------------------------------------------------------------------------
Errors == {"pending", "ok", "ENOENT", "EIO", "ELOOP", "ENOTDIR", "EINVAL"}

TypeOK ==
    /\ layers \in Seq(Layer) /\ Len(layers) \in 1..MaxLayers
    /\ flags \subseteq OpenFlags
    /\ openRes.err \in Errors /\ openRes.files \in Seq(1..MaxLayers)
    /\ openRes.opened \subseteq 1..MaxLayers /\ openRes.closed \subseteq 1..MaxLayers
    /\ statRes \in [err : Errors, layer : 0..MaxLayers]
    /\ linkRes \in [err : Errors, layer : 0..MaxLayers]
    /\ fault \in {NoFault} \cup [kind : Faults, at : 1..MaxLayers]

(***************************************************************************)
(* OCI layer semantics.  The layers consulted for the name are those down  *)
(* to the first one with a whiteout or an opaque marker.  The name is the  *)
(* entry of the first consulted layer that has one.  A directory is merged *)
(* with the directories below it, down to the first entry of another type, *)
(* which it masks.  An I/O error met on the way is reported, a failing    *)
(* marker Stat included.                                                   *)
(***************************************************************************)
Reach ==
    LET stops == { i \in 1..Len(layers) : layers[i].whiteout \/ layers[i].opaque }
    IN 1..(IF stops = {} THEN Len(layers) ELSE Min(stops))
Holding == { i \in Reach : layers[i].entry # "none" }
Top == Min(Holding)
\* The layers merged under a directory at Top, and the first other entry.
Below == { i \in Holding : i > Top /\ layers[i].entry # "dir" }
MergeEnd == IF Below = {} THEN Max(Reach) ELSE Min(Below) - 1
Merged == SetToSortSeq({ i \in Top..MergeEnd : layers[i].entry = "dir" }, <)

OverlayOpen ==
    IF Holding = {} THEN [err |-> "ENOENT", files |-> <<>>]
    ELSE LET t == layers[Top].entry IN
         CASE t = "eio"     -> [err |-> "EIO", files |-> <<>>]
           [] t = "symlink" -> [err |-> "ELOOP", files |-> <<>>]
           [] t = "file" /\ "O_DIRECTORY" \in flags -> [err |-> "ENOTDIR", files |-> <<>>]
           [] t = "file"    -> [err |-> "ok", files |-> <<Top>>]
           [] Below # {} /\ layers[Min(Below)].entry = "eio"
                            -> [err |-> "EIO", files |-> <<>>]
           [] OTHER         -> [err |-> "ok", files |-> Merged]

\* A marker Stat fails in a layer the lookup passes without finding the name.
MarkerFailsOnPath ==
    \E m \in Reach : /\ MarkerFails(m) /\ layers[m].entry = "none"
                    /\ (Holding = {} \/ m < Top)

OverlayStat ==
    IF MarkerFailsOnPath THEN [err |-> "EIO", layer |-> 0]
    ELSE IF Holding = {} THEN [err |-> "ENOENT", layer |-> 0]
    ELSE IF layers[Top].entry = "eio" THEN [err |-> "EIO", layer |-> 0]
    ELSE [err |-> "ok", layer |-> Top]

\* Stat and Readlink report the entry the OCI semantics makes visible: the
\* whiteout and opaque checks between the layer calls hide exactly the
\* layers below the first marker.
LookupMatchesOverlay ==
    /\ statRes.err # "pending" => statRes = OverlayStat
    /\ linkRes.err # "pending" =>
         linkRes = IF OverlayStat.err # "ok" THEN OverlayStat
                   ELSE IF layers[Top].entry = "symlink" THEN OverlayStat
                   ELSE [err |-> "EINVAL", layer |-> 0]

\* openFile owns every layer file it opened: each is either in the new
\* fileLayers or closed (by the close on a masked entry, by the close after
\* a failed Stat, or by the deferred closeFiles on an error, hasWhiteout's
\* included), never both.
OpenClosesUnreturned ==
    openRes.err # "pending" =>
        /\ openRes.opened = ToSet(openRes.files) \cup openRes.closed
        /\ ToSet(openRes.files) \cap openRes.closed = {}

\* openFile opens what the OCI semantics makes visible under the name: the
\* error, or the directory merged with the lower directories it does not
\* mask.
OpenMatchesOverlay ==
    openRes.err # "pending" =>
        [err |-> openRes.err, files |-> openRes.files] = OverlayOpen
=============================================================================
