---------------------------- MODULE ProcessLcore ----------------------------
(***************************************************************************)
(* How the processing lcore of the benchmark server emulates job sizes     *)
(* (src/scheduler/benchmark/server/server.cpp, lcore_process): it holds    *)
(* each packet until a period has passed that begins where the last one    *)
(* ended.  Time is the TSC, in units of the model.                         *)
(***************************************************************************)
EXTENDS Integers, Sequences, FiniteSetsExt

CONSTANTS
    JobSizes,       \* ticks a job takes, jsize_ns in ticks
    RingSize,
    MaxTime         \* bound of the model

VARIABLES
    now,                \* TscClock::now()
    process_ring,       \* job sizes, oldest first
    job,                \* size of the job in hand, or 0
    period_start_tick,  \* 0: no job yet
    taken               \* auxiliary: when the job in hand was dequeued

vars == <<now, process_ring, job, period_start_tick, taken>>

Init ==
    /\ now = 1
    /\ process_ring = <<>>
    /\ job = 0
    /\ period_start_tick = 0
    /\ taken = 0

Clock ==
    /\ now < MaxTime
    /\ now' = now + 1
    /\ UNCHANGED <<process_ring, job, period_start_tick, taken>>

Arrive ==
    /\ Len(process_ring) < RingSize
    /\ \E size \in JobSizes : process_ring' = Append(process_ring, size)
    /\ UNCHANGED <<now, job, period_start_tick, taken>>

PeriodStart == IF period_start_tick = 0 THEN now ELSE period_start_tick

Take ==
    /\ job = 0
    /\ process_ring # <<>>
    /\ process_ring' = Tail(process_ring)
    /\ job' = Head(process_ring)
    /\ period_start_tick' = PeriodStart
    /\ taken' = now
    /\ UNCHANGED now

period_end_tick == period_start_tick + job

\* The loop ends at the first reading of the clock not before the end; that
\* reading is the start of the next period.
Finish ==
    /\ job # 0
    /\ now >= period_end_tick
    /\ period_start_tick' = now
    /\ job' = 0
    /\ UNCHANGED <<now, process_ring, taken>>

\* The end of the modelled time.
TimeUp == now = MaxTime /\ UNCHANGED vars

Next == Clock \/ Arrive \/ Take \/ Finish \/ TimeUp

Spec == Init /\ [][Next]_vars

-----------------------------------------------------------------------------
(* Properties.                                                             *)

\* Each job is stalled for the time it requires: "Stall for the required amount
\* of time, then handoff to profiling" (server.cpp:319).
StallsRequiredTime ==
    [][job # 0 /\ job' = 0 => now - taken >= job]_vars
=============================================================================
