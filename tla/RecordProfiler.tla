--------------------------- MODULE RecordProfiler ---------------------------
(***************************************************************************)
(* The recordProfiler of profile.go: the stream of records the replay of   *)
(* "timecraft profile" reads.  Each Read hands one record to the replay    *)
(* and, before the replay runs the host call of that record, starts the    *)
(* CPU profiler at the first record at or after --start-time and stops it  *)
(* at the first record at or after start + --duration.  When the replay    *)
(* returns (end of log, or the guest exited), profile calls stop() once    *)
(* more and writes the profiles.                                           *)
(*                                                                         *)
(* Times are integers; the zero time.Time is ZeroTime, below every record. *)
(* The log is an input: a sequence of record times in time order.          *)
(***************************************************************************)
EXTENDS Integers, Sequences, SequencesExt, FiniteSets

CONSTANTS
    Times,       \* times of records
    StartTimes,  \* --start-time (the process start time by default)
    Durations,   \* --duration
    MaxRecords,  \* longest log
    ZeroTime     \* time.Time{}

ASSUME \A t \in Times : ZeroTime < t

\* Logs recorded in time order.
Logs ==
    { s \in UNION { [1..n -> Times] : n \in 0..MaxRecords } :
        \A i \in 1..Len(s) - 1 : s[i] <= s[i + 1] }

VARIABLES
    log,         \* the records of the replayed process
    startTime, endTime,
    pos,         \* records Read has returned
    started, stopped,
    firstTimestamp, lastTimestamp,
    duration,    \* DurationNanos of the profiles stop() made, or -1
    profiled,    \* records whose host call ran while the CPU profiler ran
    phase        \* "replay", "returned" (ReplayRecordsModule), "stopped"

vars == <<log, startTime, endTime, pos, started, stopped, firstTimestamp,
          lastTimestamp, duration, profiled, phase>>

Init ==
    /\ log \in Logs
    /\ startTime \in StartTimes
    /\ \E d \in Durations : endTime = startTime + d
    /\ pos = 0
    /\ started = FALSE /\ stopped = FALSE
    /\ firstTimestamp = ZeroTime /\ lastTimestamp = ZeroTime
    /\ duration = -1
    /\ profiled = {}
    /\ phase = "replay"

\* stop(): once; StopProfile/NewProfile and DurationNanos = last - first.
Stop(last, first) ==
    IF stopped THEN UNCHANGED <<stopped, duration>>
    ELSE /\ stopped' = TRUE
         /\ duration' = last - first

\* Mutant: the start check does not test r.started.
ReadRestarts ==
    /\ phase = "replay"
    /\ ~stopped
    /\ pos < Len(log)
    /\ LET t == log[pos + 1]
           st == t >= startTime
           first == IF st THEN t ELSE firstTimestamp
       IN /\ pos' = pos + 1
          /\ lastTimestamp' = t
          /\ firstTimestamp' = first
          /\ started' = (started \/ st)
          /\ IF t >= endTime THEN Stop(t, first) ELSE UNCHANGED <<stopped, duration>>
          /\ profiled' = IF started' /\ ~stopped' THEN profiled \cup {pos + 1} ELSE profiled
    /\ UNCHANGED <<log, startTime, endTime, phase>>

\* Mutant: the stop check is t after endTime instead of not before it.
ReadStopsLate ==
    /\ phase = "replay"
    /\ ~stopped
    /\ pos < Len(log)
    /\ LET t == log[pos + 1]
           st == ~started /\ t >= startTime
           first == IF st THEN t ELSE firstTimestamp
       IN /\ pos' = pos + 1
          /\ lastTimestamp' = t
          /\ firstTimestamp' = first
          /\ started' = (started \/ st)
          /\ IF t > endTime THEN Stop(t, first) ELSE UNCHANGED <<stopped, duration>>
          /\ profiled' = IF started' /\ ~stopped' THEN profiled \cup {pos + 1} ELSE profiled
    /\ UNCHANGED <<log, startTime, endTime, phase>>

\* r.Read(records[:1]) with a record left: lastTimestamp is its time; the
\* first one at or after startTime starts the profiler, and one at or
\* after endTime stops it.  The replay then runs the record's host call,
\* profiled while started and not stopped.  A Read with an empty buffer
\* returns 0, nil and changes nothing: a stuttering step.  A Read once
\* stopped (io.EOF) or past the last record (n = 0) also changes nothing,
\* and is followed by ReplayReturns.
Read ==
    /\ phase = "replay"
    /\ ~stopped
    /\ pos < Len(log)
    /\ LET t == log[pos + 1]
           st == ~started /\ t >= startTime
           first == IF st THEN t ELSE firstTimestamp
       IN /\ pos' = pos + 1
          /\ lastTimestamp' = t
          /\ firstTimestamp' = first
          /\ started' = (started \/ st)
          /\ IF t >= endTime THEN Stop(t, first) ELSE UNCHANGED <<stopped, duration>>
          /\ profiled' = IF started' /\ ~stopped' THEN profiled \cup {pos + 1} ELSE profiled
    /\ UNCHANGED <<log, startTime, endTime, phase>>

\* ReplayRecordsModule returns: Read gave io.EOF (stopped, or end of log),
\* or the guest exited first.
ReplayReturns ==
    /\ phase = "replay"
    /\ phase' = "returned"
    /\ UNCHANGED <<log, startTime, endTime, pos, started, stopped, firstTimestamp,
                   lastTimestamp, duration, profiled>>

\* records.stop() after the replay, before createProfiles.
FinalStop ==
    /\ phase = "returned"
    /\ Stop(lastTimestamp, firstTimestamp)
    /\ phase' = "stopped"
    /\ UNCHANGED <<log, startTime, endTime, pos, started, firstTimestamp,
                   lastTimestamp, profiled>>

Next == Read \/ ReplayReturns \/ FinalStop

Spec == Init /\ [][Next]_vars

-----------------------------------------------------------------------------
TypeOK ==
    /\ log \in Seq(Times) /\ Len(log) <= MaxRecords
    /\ pos \in 0..Len(log)
    /\ started \in BOOLEAN /\ stopped \in BOOLEAN
    /\ firstTimestamp \in Times \cup {ZeroTime}
    /\ lastTimestamp \in Times \cup {ZeroTime}
    /\ profiled \subseteq 1..Len(log)
    /\ phase \in {"replay", "returned", "stopped"}

\* The host calls the CPU profile covers are exactly those of the records
\* in [--start-time, start + --duration) that the replay reached: Read
\* starts the profiler before the call of the first record of the window
\* and stops it before the call of the first record past it.
ProfiledIsWindow ==
    profiled = { i \in 1..pos : startTime <= log[i] /\ log[i] < endTime }

\* A profile that started measures its duration from the first record of
\* the window to the last record read: the one that stopped it, or the
\* last one the replay reached.
DurationOfWindow ==
    phase = "stopped" /\ started =>
        LET w == Min({ i \in 1..pos : log[i] >= startTime }) IN
        duration = log[pos] - log[w]
====
