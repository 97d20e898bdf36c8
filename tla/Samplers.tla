------------------------------ MODULE Samplers ------------------------------
(***************************************************************************)
(* The three self-decimating sample buffers of the state sampler:          *)
(* resourceSampler, networkSampler and latencySampler (resources.go,       *)
(* network.go, latency.go). StateSampler's emit (plaklet.go:188-201) calls *)
(* all three, once per tick and once more when the operation is over.      *)
(*                                                                         *)
(* A sample is its time (At), counted in calls of emit; the measured       *)
(* values are left out. What a buffer was offered is kept in the history   *)
(* variable admitted, so that what it kept can be compared with it.        *)
(***************************************************************************)
EXTENDS Naturals, Sequences

CONSTANTS
    MaxSamples,  \* MaxResourceSamples = MaxNetworkSamples = MaxLatencySamples
    Ops,         \* the operations a run may perform
    MaxEmits     \* bound on the calls of emit

ASSUME MaxSamplesAssumption ==
    MaxSamples \in Nat \ {0} /\ MaxSamples % 2 = 0
ASSUME MaxEmitsAssumption == MaxEmits \in Nat

Buffers == {"resources", "network", "latency"}

VARIABLES
    op,        \* the operation of the run
    running,   \* the sampler goroutine has not returned
    emits,     \* how many times emit was called
    observed,  \* the storage scope has latency observations (Count # 0)
    buf,       \* the three buffers
    admitted   \* per buffer, the times of the readings offered to it

vars == <<op, running, emits, observed, buf, admitted>>

-----------------------------------------------------------------------------
(* One buffer *)

NewBuffer == [samples |-> <<>>, stride |-> 1, tick |-> 0]

\* Keeping indices 1, 3, 5, ... of a Go slice instead of 0, 2, 4, ...
KeepOdd(s) == [i \in 1 .. Len(s) \div 2 |-> s[2 * i]]

\* Every other sample, the oldest first.
Kept(s) == [i \in 1 .. (Len(s) + 1) \div 2 |-> s[2 * i - 1]]

\* decimate without doubling the interval.
DecimateSameStride(b) ==
    [samples |-> Kept(b.samples), stride |-> b.stride, tick |-> b.tick]

\* decimate halving the interval along with the resolution.
DecimateHalvingStride(b) ==
    [samples |-> Kept(b.samples), stride |-> b.stride \div 2, tick |-> b.tick]

\* decimate: halve the resolution, double the interval.
Decimate(b) ==
    [samples |-> Kept(b.samples), stride |-> 2 * b.stride, tick |-> b.tick]

\* A buffer decimated when it is full, not when it overflows.
StoreDecimatingEarly(b, at) ==
    LET c == [samples |-> Append(b.samples, at), stride |-> b.stride, tick |-> 0]
    IN  IF Len(c.samples) >= MaxSamples THEN Decimate(c) ELSE c

Store(b, at) ==
    LET c == [samples |-> Append(b.samples, at), stride |-> b.stride, tick |-> 0]
    IN  IF Len(c.samples) > MaxSamples THEN Decimate(c) ELSE c

\* Only every stride-th reading is stored.
Record(b, at) ==
    IF b.tick + 1 < b.stride THEN [b EXCEPT !.tick = @ + 1] ELSE Store(b, at)

-----------------------------------------------------------------------------
(* Which buffers take a reading *)

ReadScope(o) == CASE o = "backup"  -> "source"
                  [] o = "restore" -> "storage"
                  [] o = "check"   -> "storage"
                  [] o = "sync"    -> "source-storage"
                  [] OTHER         -> ""

WriteScope(o) == CASE o = "backup"  -> "storage"
                   [] o = "restore" -> "destination"
                   [] o = "sync"    -> "storage"
                   [] OTHER         -> ""

LatencyScope(o) == IF o \in {"backup", "sync"} THEN "storage" ELSE ""

(***************************************************************************)
(* What sample() of each kind does before it counts the reading: resources *)
(* may fail to be read, an operation may have no scopes, and latency is    *)
(* not sampled before the first observation.                               *)
(***************************************************************************)
Admits(k, cpuRead) ==
    CASE k = "resources" -> cpuRead
      [] k = "network"   -> ReadScope(op) # "" \/ WriteScope(op) # ""
      [] k = "latency"   -> LatencyScope(op) # "" /\ observed

Init ==
    /\ op \in Ops
    /\ running = TRUE
    /\ emits = 0
    /\ observed = FALSE
    /\ buf = [k \in Buffers |-> NewBuffer]
    /\ admitted = [k \in Buffers |-> <<>>]

\* emit: the reading offered to every buffer at this instant.
Sample(cpuRead) ==
    /\ emits' = emits + 1
    /\ buf' = [k \in Buffers |->
                  IF Admits(k, cpuRead) THEN Record(buf[k], emits + 1)
                                        ELSE buf[k]]
    /\ admitted' = [k \in Buffers |->
                       IF Admits(k, cpuRead)
                       THEN Append(admitted[k], emits + 1)
                       ELSE admitted[k]]

\* case <-ticker.C
Tick ==
    /\ running
    /\ emits < MaxEmits
    /\ \E cpuRead \in BOOLEAN : Sample(cpuRead)
    /\ UNCHANGED <<op, running, observed>>

\* case <-stateStop: the final sample.
Stop ==
    /\ running
    /\ \E cpuRead \in BOOLEAN : Sample(cpuRead)
    /\ running' = FALSE
    /\ UNCHANGED <<op, observed>>

\* An iostats event with the first latency observation reached the listener.
Observe ==
    /\ running
    /\ ~observed
    /\ observed' = TRUE
    /\ UNCHANGED <<op, running, emits, buf, admitted>>

Stopped == ~running /\ UNCHANGED vars

Next == Tick \/ Stop \/ Observe \/ Stopped

Spec == Init /\ [][Next]_vars

-----------------------------------------------------------------------------
(* Properties *)

\* Every variable keeps its type.
TypeOK ==
    /\ op \in Ops
    /\ running \in BOOLEAN
    /\ emits \in Nat
    /\ observed \in BOOLEAN
    /\ buf \in [Buffers ->
                   [samples : Seq(Nat), stride : Nat \ {0}, tick : Nat]]
    /\ admitted \in [Buffers -> Seq(Nat)]

(***************************************************************************)
(* However often a buffer was decimated, it holds every stride-th reading  *)
(* it was offered, from the very first one on: older history is kept at    *)
(* the same resolution as the rest (resources.go:61-73). The comments have *)
(* it otherwise: "Samples are NOT uniformly spaced (the sampler decimates  *)
(* older history on long runs)" (state.go:129-132, also 139-142, 158-160   *)
(* and resources.go:16-17). In wall time the gaps still differ where a     *)
(* reading failed and at the final sample.                                 *)
(***************************************************************************)
EvenlySpaced ==
    \A k \in Buffers : \A i \in DOMAIN buf[k].samples :
        /\ 1 + (i - 1) * buf[k].stride \in DOMAIN admitted[k]
        /\ buf[k].samples[i] = admitted[k][1 + (i - 1) * buf[k].stride]

(***************************************************************************)
(* "this many points always span the whole run" at a bounded size          *)
(* (state.go:113-118): at most MaxSamples samples, more than half of that  *)
(* once decimation began, and fewer than stride readings not yet drawn     *)
(* after the last sample.                                                  *)
(***************************************************************************)
SpansRun ==
    \A k \in Buffers :
        LET n == Len(buf[k].samples)
        IN  /\ n <= MaxSamples
            /\ buf[k].stride > 1 => 2 * n > MaxSamples
            /\ admitted[k] # <<>> =>
                   /\ n > 0
                   /\ Len(admitted[k]) <= n * buf[k].stride
=============================================================================
