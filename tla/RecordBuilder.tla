--------------------------- MODULE RecordBuilder ---------------------------
(***************************************************************************)
(* RecordBuilder of internal/timemachine/record.go.  The setters store the *)
(* fields of the next record; SetFunctionCall retains the caller's slice   *)
(* until Bytes serializes it.  Bytes builds the record once (build copies  *)
(* the slice into the flatbuffers builder) and marks the builder finished; *)
(* later calls return the same bytes until Reset.  A setter on a finished  *)
(* builder panics.  The caller's slice is one buffer whose content the     *)
(* caller may overwrite at any time (MutateBuffer).                        *)
(***************************************************************************)
EXTENDS Integers, Sequences

CONSTANTS
    Times,      \* timestamps (nanoseconds)
    FuncIds,    \* function ids
    Contents,   \* contents of the caller's function call buffer
    Empty,      \* the nil slice
    MaxBytes    \* calls of Bytes between two Resets

VARIABLES
    startTime, timestamp, functionID, functionCall, finished,
    finishedBytes,  \* the record b.builder.FinishedBytes() decodes to
    buf,            \* content of the caller's buffer
    returned,       \* the records Bytes returned since Reset
    panicked

vars == <<startTime, timestamp, functionID, functionCall, finished,
          finishedBytes, buf, returned, panicked>>

NoRecord == [timestamp |-> 0, functionID |-> 0, functionCall |-> Empty]

\* A RecordBuilder after Reset(t); the zero RecordBuilder has no builder,
\* which build allocates, and behaves the same.
Init ==
    /\ startTime \in Times
    /\ timestamp = 0 /\ functionID = 0 /\ functionCall = Empty
    /\ finished = FALSE
    /\ finishedBytes = NoRecord
    /\ buf \in Contents
    /\ returned = <<>>
    /\ panicked = FALSE

Reset(t) ==
    /\ startTime' = t
    /\ timestamp' = 0 /\ functionID' = 0 /\ functionCall' = Empty
    /\ finished' = FALSE
    /\ finishedBytes' = NoRecord
    /\ returned' = <<>>
    /\ UNCHANGED <<buf, panicked>>

\* "builder must be reset before ... can be set"
SetterPanics ==
    /\ finished
    /\ panicked' = TRUE
    /\ UNCHANGED <<startTime, timestamp, functionID, functionCall, finished,
                   finishedBytes, buf, returned>>

SetTimestamp(t) ==
    /\ ~finished
    /\ timestamp' = t - startTime       \* int64(t.Sub(b.startTime))
    /\ UNCHANGED <<startTime, functionID, functionCall, finished,
                   finishedBytes, buf, returned, panicked>>

SetFunctionID(id) ==
    /\ ~finished
    /\ functionID' = id   \* uint32(id): ids are function numbers below 2^32
    /\ UNCHANGED <<startTime, timestamp, functionCall, finished,
                   finishedBytes, buf, returned, panicked>>

\* The builder retains the caller's slice, not its content.
SetFunctionCall ==
    /\ ~finished
    /\ functionCall' = "callerBuffer"
    /\ UNCHANGED <<startTime, timestamp, functionID, finished,
                   finishedBytes, buf, returned, panicked>>

\* Mutant: build keeps the retained slice instead of copying its content.
BuildNoCopy ==
    [timestamp |-> timestamp, functionID |-> functionID, functionCall |-> functionCall]

\* build: CreateByteVector copies the content of the retained slice.
Build ==
    [timestamp |-> timestamp, functionID |-> functionID,
     functionCall |-> IF functionCall = Empty THEN Empty ELSE buf]

\* Mutant: Bytes does not mark the builder finished.
BytesNoFinish ==
    /\ Len(returned) < MaxBytes
    /\ finishedBytes' = Build
    /\ returned' = Append(returned, Build)
    /\ UNCHANGED <<startTime, timestamp, functionID, functionCall, finished,
                   buf, panicked>>

\* Bytes (and Write, which writes Bytes()).
Bytes ==
    /\ Len(returned) < MaxBytes
    /\ finishedBytes' = IF finished THEN finishedBytes ELSE Build
    /\ finished' = TRUE
    /\ returned' = Append(returned, finishedBytes')
    /\ UNCHANGED <<startTime, timestamp, functionID, functionCall, buf, panicked>>

MutateBuffer(c) ==
    /\ buf' = c
    /\ UNCHANGED <<startTime, timestamp, functionID, functionCall, finished,
                   finishedBytes, returned, panicked>>

Next ==
    /\ ~panicked
    /\ \/ \E t \in Times : Reset(t) \/ SetTimestamp(t)
       \/ \E id \in FuncIds : SetFunctionID(id)
       \/ SetFunctionCall \/ SetterPanics \/ Bytes
       \/ \E c \in Contents : MutateBuffer(c)

Spec == Init /\ [][Next]_vars

-----------------------------------------------------------------------------
Record == [timestamp : Int, functionID : FuncIds \cup {0}, functionCall : Contents \cup {Empty}]

TypeOK ==
    /\ startTime \in Times /\ timestamp \in Int
    /\ functionID \in FuncIds \cup {0}
    /\ functionCall \in {Empty, "callerBuffer"}
    /\ finished \in BOOLEAN /\ panicked \in BOOLEAN
    /\ finishedBytes \in Record /\ buf \in Contents
    /\ returned \in Seq(Record)

\* Bytes and Write return the same record every time until Reset, even when
\* the caller overwrote the function call slice it handed to
\* SetFunctionCall after the first call: encoding is deterministic and the
\* record written is the one the recorder built.
BytesStable ==
    \A i, j \in 1..Len(returned) : returned[i] = returned[j]
=============================================================================
