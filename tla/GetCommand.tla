---------------------------- MODULE GetCommand ----------------------------
(***************************************************************************)
(* "timecraft get <resource type>" (internal/cmd/get.go): the resource     *)
(* type given on the command line is looked up in the resources table by  *)
(* name or alternate name (findResource); when none matches, the types     *)
(* sharing a prefix of more than one character with it are suggested       *)
(* (findMatchingResources, prefixLength).  A resource found is listed with *)
(* the writer of the output format: JSON, YAML, or the table writer of the *)
(* resource (its get function), the log resource having its own path.     *)
(*                                                                         *)
(* Names are sequences of characters, as prefixLength compares them byte   *)
(* by byte.  The registry listing and the writers are I/O and are named    *)
(* only.  One invocation is one action.                                    *)
(***************************************************************************)
EXTENDS Integers, Sequences, SequencesExt, FiniteSets

\* The resources table, in its order: typ, alt, and whether get is set.
Resources == <<
    [typ |-> <<"c","o","n","f","i","g">>,
     alt |-> {<<"c","o","n","f">>, <<"c","o","n","f","i","g","s">>}, get |-> TRUE],
    [typ |-> <<"l","o","g">>,
     alt |-> {<<"l","o","g","s">>}, get |-> FALSE],
    [typ |-> <<"m","o","d","u","l","e">>,
     alt |-> {<<"m","o">>, <<"m","o","d">>, <<"m","o","d","s">>,
              <<"m","o","d","u","l","e","s">>}, get |-> TRUE],
    [typ |-> <<"p","r","o","c","e","s","s">>,
     alt |-> {<<"p","s">>, <<"p","r","o","c">>, <<"p","r","o","c","s">>,
              <<"p","r","o","c","e","s","s","e","s">>}, get |-> TRUE],
    [typ |-> <<"p","r","o","f","i","l","e">>,
     alt |-> {<<"p","r","o","f">>, <<"p","r","o","f","s">>,
              <<"p","r","o","f","i","l","e","s">>}, get |-> TRUE],
    [typ |-> <<"r","u","n","t","i","m","e">>,
     alt |-> {<<"r","t">>, <<"r","u","n","t","i","m","e","s">>}, get |-> TRUE]
    >>

Names == UNION { {Resources[i].typ} \cup Resources[i].alt : i \in 1..Len(Resources) }

\* The words tried: every prefix of a name (the empty word included), and
\* every name followed by a character it does not have.
Words == UNION { Prefixes(n) : n \in Names } \cup { Append(n, "x") : n \in Names }

Outputs == {"text", "json", "yaml"}

VARIABLES
    argc,       \* len(args) after the flags
    word,       \* args[0]
    output,     \* -o
    regOK,      \* openRegistry succeeds
    res         \* what get did: [err, writer, suggest]

vars == <<argc, word, output, regOK, res>>

Pending == [err |-> "pending", writer |-> "none", suggest |-> <<>>]

Init ==
    /\ argc \in 0..2
    /\ word \in Words
    /\ output \in Outputs
    /\ regOK \in BOOLEAN
    /\ res = Pending

\* prefixLength(base, prefix): the loop from n on.
RECURSIVE PrefixLengthFrom(_, _, _)
PrefixLengthFrom(base, prefix, n) ==
    IF n < Len(base) /\ n < Len(prefix) /\ base[n + 1] = prefix[n + 1]
    THEN PrefixLengthFrom(base, prefix, n + 1)
    ELSE n

PrefixLength(base, prefix) == PrefixLengthFrom(base, prefix, 0)

\* findResource: the index of the first option whose typ or one of whose
\* alternate names is typ, or 0 (not ok).
FindResource(typ) ==
    LET hits == { i \in 1..Len(Resources) :
                    Resources[i].typ = typ \/ typ \in Resources[i].alt }
    IN IF hits = {} THEN 0 ELSE Min(hits)

\* Mutant: a single common character is enough.
FindMatchingOneChar(typ) ==
    SelectSeq(Resources, LAMBDA r : PrefixLength(r.typ, typ) > 0
                                    \/ PrefixLength(typ, r.typ) > 0)

\* findMatchingResources: the options, in order, sharing a prefix of more
\* than one character with typ.
FindMatchingResources(typ) ==
    SelectSeq(Resources, LAMBDA r : PrefixLength(r.typ, typ) > 1
                                    \/ PrefixLength(typ, r.typ) > 1)

Types(rs) == [i \in 1..Len(rs) |-> rs[i].typ]

\* Mutant: the log resource is listed like the others.
WriterNoLogCase(r) ==
    CASE output # "text" -> output
      [] r.get           -> "table"
      [] OTHER           -> "nil get"

\* The writer of a resource found: log has its own path (ListLogManifests);
\* the others list descriptors with JSON, YAML or resource.get.
Writer(r) ==
    CASE r.typ = <<"l","o","g">> /\ output = "text" -> "getLogs"
      [] output # "text" -> output
      [] r.get           -> "table"
      [] OTHER           -> "nil get"

\* get(ctx, args): the argument check, the lookup, the suggestions, the
\* registry, and the listing.
Get ==
    /\ res = Pending
    /\ res' =
        IF argc # 1 THEN [Pending EXCEPT !.err = "usage"]
        ELSE LET i == FindResource(word) IN
             IF i = 0 THEN
                LET m == FindMatchingResources(word) IN
                IF m = <<>> THEN [Pending EXCEPT !.err = "no match"]
                ELSE [Pending EXCEPT !.err = "did you mean", !.suggest = Types(m)]
             ELSE IF ~regOK THEN [Pending EXCEPT !.err = "registry"]
             ELSE [Pending EXCEPT !.err = "ok", !.writer = Writer(Resources[i])]
    /\ UNCHANGED <<argc, word, output, regOK>>

Next == Get

Spec == Init /\ [][Next]_vars

-----------------------------------------------------------------------------
\* When nothing is named, the suggestions are the types, in table order,
\* whose longest common prefix with the word has two characters or more.
SuggestsCommonPrefix ==
    argc = 1 /\ res.err \in {"no match", "did you mean"} =>
        res.suggest = SelectSeq(Types(Resources),
                          LAMBDA t : Len(LongestCommonPrefix({t, word})) >= 2)

\* The log resource has no get function: every listing that found a
\* resource has a writer, never the nil get.
NoNilWriter == res.writer # "nil get"
====
