--------------------------------- MODULE Rm ---------------------------------
(***************************************************************************)
(* The rm operation (rm.go): one feeder (the goroutine that called rm), a  *)
(* pool of MaxConcurrency workers that take snapshot ids from the buffered *)
(* channel rmq, and a reporter that collects the ids the workers removed   *)
(* from the unbuffered channel removed.                                    *)
(*                                                                         *)
(* The ids reach the reporter as slices of the worker's loop variable      *)
(* (snapshotID[:], rm.go:85), so the variable a slice points into is part  *)
(* of the state: heap holds one cell per loop iteration, cur[w] is the     *)
(* cell of the iteration worker w is in, and the report is a sequence of   *)
(* cells that is read only when the report is assembled.                   *)
(***************************************************************************)
EXTENDS Naturals, Sequences, FiniteSets, SequencesExt

CONSTANTS
    MaxConcurrency,  \* ctx.MaxConcurrency: the workers and the room in rmq
    IDs,             \* the well-formed snapshot ids
    Malformed,       \* an id parseSnapshotIDs rejects
    MaxIDs           \* bound on the length of snapshot_ids

ASSUME MaxConcurrencyAssumption == MaxConcurrency \in Nat \ {0}
ASSUME MaxIDsAssumption == MaxIDs \in Nat
ASSUME MalformedAssumption == Malformed \notin IDs

Workers == 1..MaxConcurrency
NoCell == 0

VARIABLES
    source,       \* input.Source is set
    snapshotIDs,  \* the ids of the task config, in order
    initial,      \* the snapshots in the store when rm starts
    pc,           \* where the goroutine that runs rm is
    store,        \* the store connection: "none", "open" or "closed"
    snapshots,    \* the snapshots in the store
    fed,          \* how many ids were sent on rmq
    rmq, rmqClosed,
    removedClosed,
    heap,         \* the loop variables of the workers' iterations
    wpc, cur,     \* per worker: where it is, and its loop variable
    rpc, got,     \* the reporter: where it is, and the slice it received
    report,       \* rp.SnapshotIDs
    errors,       \* the atomic error counter
    result        \* what rm returns

input  == <<source, snapshotIDs, initial>>
worker == <<rmq, heap, wpc, cur, snapshots, errors>>
vars   == <<input, pc, store, fed, rmqClosed, removedClosed, worker,
            rpc, got, report, result>>

NoResult     == [kind |-> "none", ids |-> <<>>, errors |-> 0]
ErrorResult  == [kind |-> "error", ids |-> <<>>, errors |-> 0]
RmReport(ids, n) == [kind |-> "report", ids |-> ids, errors |-> n]

(***************************************************************************)
(* parseSnapshotIDs fails on the first malformed id and removes nothing.   *)
(***************************************************************************)
ParsesOK(ids) == \A i \in DOMAIN ids : ids[i] # Malformed

Init ==
    /\ source \in BOOLEAN
    /\ snapshotIDs \in BoundedSeq(IDs \cup {Malformed}, MaxIDs)
    /\ initial \in SUBSET IDs
    /\ pc = "rm"
    /\ store = "none"
    /\ snapshots = initial
    /\ fed = 0
    /\ rmq = <<>> /\ rmqClosed = FALSE
    /\ removedClosed = FALSE
    /\ heap = <<>>
    /\ wpc = [w \in Workers |-> "none"]
    /\ cur = [w \in Workers |-> NoCell]
    /\ rpc = "none" /\ got = NoCell
    /\ report = <<>>
    /\ errors = 0
    /\ result = NoResult

-----------------------------------------------------------------------------
(* The goroutine that runs rm *)

(***************************************************************************)
(* The checks before the store is opened: no source and a malformed id are *)
(* errors, an empty list is an empty report.                               *)
(***************************************************************************)
Validate ==
    /\ pc = "rm"
    /\ \/ /\ ~source \/ ~ParsesOK(snapshotIDs)
          /\ result' = ErrorResult
          /\ pc' = "done"
       \/ /\ source /\ snapshotIDs = <<>>
          /\ result' = RmReport(<<>>, 0)
          /\ pc' = "done"
       \/ /\ source /\ ParsesOK(snapshotIDs) /\ snapshotIDs # <<>>
          /\ pc' = "mkstorage"
          /\ UNCHANGED result
    /\ UNCHANGED <<input, store, fed, rmqClosed, removedClosed, worker,
                   rpc, got, report>>

\* mkstorage fails, or returns the open store whose close is deferred.
MkStorage ==
    /\ pc = "mkstorage"
    /\ \/ /\ pc' = "done" /\ result' = ErrorResult
          /\ UNCHANGED store
       \/ /\ pc' = "openrepo" /\ store' = "open"
          /\ UNCHANGED result
    /\ UNCHANGED <<input, fed, rmqClosed, removedClosed, worker,
                   rpc, got, report>>

\* openrepo fails, or the reporter and the workers are started.
OpenRepo ==
    /\ pc = "openrepo"
    /\ \/ /\ pc' = "close" /\ result' = ErrorResult
          /\ UNCHANGED <<rpc, wpc>>
       \/ /\ pc' = "feed"
          /\ rpc' = "recv"
          /\ wpc' = [w \in Workers |-> "recv"]
          /\ UNCHANGED result
    /\ UNCHANGED <<input, store, fed, rmqClosed, removedClosed, rmq, heap,
                   cur, snapshots, errors, got, report>>

\* A send that does not wait for room in the buffer.
FeedUnbounded ==
    /\ pc = "feed"
    /\ fed < Len(snapshotIDs)
    /\ rmq' = Append(rmq, snapshotIDs[fed + 1])
    /\ fed' = fed + 1
    /\ UNCHANGED <<input, pc, store, rmqClosed, removedClosed, heap, wpc, cur,
                   snapshots, errors, rpc, got, report, result>>

\* rmq <- snapshotID blocks while the buffer is full.
Feed ==
    /\ pc = "feed"
    /\ fed < Len(snapshotIDs)
    /\ Len(rmq) < MaxConcurrency
    /\ rmq' = Append(rmq, snapshotIDs[fed + 1])
    /\ fed' = fed + 1
    /\ UNCHANGED <<input, pc, store, rmqClosed, removedClosed, heap, wpc, cur,
                   snapshots, errors, rpc, got, report, result>>

\* A feeder that returns without closing rmq.
CloseRmqForgotten ==
    /\ pc = "feed"
    /\ fed = Len(snapshotIDs)
    /\ pc' = "wait"
    /\ UNCHANGED <<input, store, fed, rmqClosed, removedClosed, worker,
                   rpc, got, report, result>>

CloseRmq ==
    /\ pc = "feed"
    /\ fed = Len(snapshotIDs)
    /\ rmqClosed' = TRUE
    /\ pc' = "wait"
    /\ UNCHANGED <<input, store, fed, removedClosed, worker,
                   rpc, got, report, result>>

\* close(removed) as soon as the queue is empty, whoever still works.
WaitEmptyQueue ==
    /\ pc = "wait"
    /\ rmq = <<>>
    /\ removedClosed' = TRUE
    /\ pc' = "drain"
    /\ UNCHANGED <<input, store, fed, rmqClosed, worker,
                   rpc, got, report, result>>

\* wg.Wait(), close(removed).
WaitWorkers ==
    /\ pc = "wait"
    /\ \A w \in Workers : wpc[w] = "exit"
    /\ removedClosed' = TRUE
    /\ pc' = "drain"
    /\ UNCHANGED <<input, store, fed, rmqClosed, worker,
                   rpc, got, report, result>>

\* The report assembled without reportWG.Wait().
AssembleEarly ==
    /\ pc = "drain"
    /\ result' = RmReport([i \in DOMAIN report |-> heap[report[i]]], errors)
    /\ pc' = "close"
    /\ UNCHANGED <<input, store, fed, rmqClosed, removedClosed, worker,
                   rpc, got, report>>

\* reportWG.Wait(), rp.Errors = errors.Load(), and the report is returned.
Assemble ==
    /\ pc = "drain"
    /\ rpc = "exit"
    /\ result' = RmReport([i \in DOMAIN report |-> heap[report[i]]], errors)
    /\ pc' = "close"
    /\ UNCHANGED <<input, store, fed, rmqClosed, removedClosed, worker,
                   rpc, got, report>>

\* The deferred ensureClose(ctx, store); a failure is only logged.
CloseStore ==
    /\ pc = "close"
    /\ store' = "closed"
    /\ pc' = "done"
    /\ UNCHANGED <<input, fed, rmqClosed, removedClosed, worker,
                   rpc, got, report, result>>

-----------------------------------------------------------------------------
(* The workers *)

\* One loop variable per worker, as Go had before 1.22.
ReceiveIntoSharedVariable(w) ==
    /\ wpc[w] = "recv"
    /\ rmq # <<>>
    /\ IF cur[w] = NoCell
       THEN /\ heap' = Append(heap, Head(rmq))
            /\ cur' = [cur EXCEPT ![w] = Len(heap) + 1]
       ELSE /\ heap' = [heap EXCEPT ![cur[w]] = Head(rmq)]
            /\ UNCHANGED cur
    /\ rmq' = Tail(rmq)
    /\ wpc' = [wpc EXCEPT ![w] = "delete"]
    /\ UNCHANGED <<input, pc, store, fed, rmqClosed, removedClosed,
                   snapshots, errors, rpc, got, report, result>>

\* for snapshotID := range rmq: every iteration has its own variable.
Receive(w) ==
    /\ wpc[w] = "recv"
    /\ rmq # <<>>
    /\ heap' = Append(heap, Head(rmq))
    /\ cur' = [cur EXCEPT ![w] = Len(heap) + 1]
    /\ rmq' = Tail(rmq)
    /\ wpc' = [wpc EXCEPT ![w] = "delete"]
    /\ UNCHANGED <<input, pc, store, fed, rmqClosed, removedClosed,
                   snapshots, errors, rpc, got, report, result>>

\* The range ends once rmq is closed and empty.
Exit(w) ==
    /\ wpc[w] = "recv"
    /\ rmq = <<>> /\ rmqClosed
    /\ wpc' = [wpc EXCEPT ![w] = "exit"]
    /\ UNCHANGED <<input, pc, store, fed, rmqClosed, removedClosed, rmq, heap,
                   cur, snapshots, errors, rpc, got, report, result>>

(***************************************************************************)
(* repo.DeleteSnapshot (kloset, external): it succeeds and the snapshot is *)
(* gone, or it fails, which may be after the snapshot was deleted. Either  *)
(* may be the answer for an id that names no snapshot, or that another     *)
(* worker just removed.                                                    *)
(***************************************************************************)
DeleteOK(w) ==
    /\ wpc[w] = "delete"
    /\ snapshots' = snapshots \ {heap[cur[w]]}
    /\ wpc' = [wpc EXCEPT ![w] = "send"]
    /\ UNCHANGED <<input, pc, store, fed, rmqClosed, removedClosed, rmq, heap,
                   cur, errors, rpc, got, report, result>>

DeleteFails(w) ==
    /\ wpc[w] = "delete"
    /\ errors' = errors + 1
    /\ snapshots' \in {snapshots, snapshots \ {heap[cur[w]]}}
    /\ wpc' = [wpc EXCEPT ![w] = "recv"]
    /\ UNCHANGED <<input, pc, store, fed, rmqClosed, removedClosed, rmq, heap,
                   cur, rpc, got, report, result>>

\* removed <- snapshotID[:] meets the reporter's receive: no buffer.
SendRemoved(w) ==
    /\ wpc[w] = "send"
    /\ rpc = "recv"
    /\ got' = cur[w]
    /\ rpc' = "append"
    /\ wpc' = [wpc EXCEPT ![w] = "recv"]
    /\ UNCHANGED <<input, pc, store, fed, rmqClosed, removedClosed, rmq, heap,
                   cur, snapshots, errors, report, result>>

-----------------------------------------------------------------------------
(* The reporter *)

AppendReport ==
    /\ rpc = "append"
    /\ report' = Append(report, got)
    /\ got' = NoCell
    /\ rpc' = "recv"
    /\ UNCHANGED <<input, pc, store, fed, rmqClosed, removedClosed, worker,
                   result>>

ReporterExit ==
    /\ rpc = "recv"
    /\ removedClosed
    /\ rpc' = "exit"
    /\ UNCHANGED <<input, pc, store, fed, rmqClosed, removedClosed, worker,
                   got, report, result>>

-----------------------------------------------------------------------------
Caller == \/ Validate \/ MkStorage \/ OpenRepo \/ Feed \/ CloseRmq
          \/ WaitWorkers \/ Assemble \/ CloseStore
Worker(w) == \/ Receive(w) \/ Exit(w) \/ DeleteOK(w) \/ DeleteFails(w)
             \/ SendRemoved(w)
Reporter == AppendReport \/ ReporterExit

\* rm has returned.
Terminated == pc = "done" /\ UNCHANGED vars

Next == Caller \/ (\E w \in Workers : Worker(w)) \/ Reporter \/ Terminated

(***************************************************************************)
(* Each goroutine is scheduled while it can run, and DeleteSnapshot        *)
(* returns.                                                                *)
(***************************************************************************)
Fairness ==
    /\ WF_vars(Caller)
    /\ \A w \in Workers : WF_vars(Worker(w))
    /\ WF_vars(Reporter)

Spec == Init /\ [][Next]_vars
FairSpec == Spec /\ Fairness

-----------------------------------------------------------------------------
(* Properties *)

Results == [kind : {"none", "error", "report"}, ids : Seq(IDs), errors : Nat]

\* Every variable keeps its type; the cells a slice may point into exist.
TypeOK ==
    /\ source \in BOOLEAN
    /\ snapshotIDs \in Seq(IDs \cup {Malformed})
    /\ initial \in SUBSET IDs
    /\ pc \in {"rm", "mkstorage", "openrepo", "feed", "wait", "drain",
               "close", "done"}
    /\ store \in {"none", "open", "closed"}
    /\ snapshots \in SUBSET IDs
    /\ fed \in 0..Len(snapshotIDs)
    /\ rmq \in Seq(IDs) /\ Len(rmq) <= MaxConcurrency
    /\ rmqClosed \in BOOLEAN
    /\ removedClosed \in BOOLEAN
    /\ heap \in Seq(IDs)
    /\ wpc \in [Workers -> {"none", "recv", "delete", "send", "exit"}]
    /\ cur \in [Workers -> 0..Len(heap)]
    /\ rpc \in {"none", "recv", "append", "exit"}
    /\ got \in 0..Len(heap)
    /\ report \in Seq(Nat)
    /\ \A i \in DOMAIN report : report[i] \in 1..Len(heap)
    /\ errors \in Nat
    /\ result \in Results

(***************************************************************************)
(* When rm returns its report, what it lists as removed and what it counts *)
(* as errors add up to the ids of the task, whatever the interleaving of   *)
(* the pool (rm.go:96-102). Which id went where is RefinesRemoveEach's.    *)
(***************************************************************************)
Accounted ==
    (pc = "done" /\ result.kind = "report")
        => Len(result.ids) + result.errors = Len(snapshotIDs)

(***************************************************************************)
(* The report tells the truth about the store: it lists no snapshot that   *)
(* is still there, and every snapshot that went missing, except those of   *)
(* deletes that failed once they had deleted, which it counts as errors.   *)
(* The ids are read through slices of the workers' loop variables          *)
(* (rm.go:85), so this also says that no later iteration overwrote a       *)
(* reported id.                                                            *)
(***************************************************************************)
ReportMatchesStore ==
    (pc = "done" /\ result.kind = "report") =>
        /\ Range(result.ids) \cap snapshots = {}
        /\ Cardinality((initial \ snapshots) \ Range(result.ids)) <= result.errors

(***************************************************************************)
(* removed is closed only after the last worker left (rm.go:96-97): a send *)
(* on a closed channel would panic and take the whole executor down.       *)
(***************************************************************************)
NoSendOnClosedChannel ==
    removedClosed => \A w \in Workers : wpc[w] \notin {"delete", "send"}

(***************************************************************************)
(* The deferred close (rm.go:57) comes after the last use of the store,    *)
(* and rm leaves no goroutine of the pool behind.                          *)
(***************************************************************************)
StoreOutlivesPool ==
    store = "closed" => /\ \A w \in Workers : wpc[w] \in {"none", "exit"}
                        /\ rpc \in {"none", "exit"}

\* The pool never wedges: rm always returns (rm.go:91-98).
Termination == <>(pc = "done")
-----------------------------------------------------------------------------
(***************************************************************************)
(* The mapping under which Rm implements RemoveEach: an id is pending      *)
(* until a worker's delete has decided on it, and removed from then on,    *)
(* wherever on its way to the report it is.                                *)
(***************************************************************************)
Times(seq, id) == Cardinality({i \in DOMAIN seq : seq[i] = id})

\* The workers that hold id between two points of their loop.
Holding(point, id) ==
    Cardinality({w \in Workers : wpc[w] = point /\ heap[cur[w]] = id})

Pending(id) == Times(SubSeq(snapshotIDs, fed + 1, Len(snapshotIDs)), id)
                   + Times(rmq, id) + Holding("delete", id)

Removed(id) == Times([i \in DOMAIN report |-> heap[report[i]]], id)
                   + (IF rpc = "append" /\ heap[got] = id THEN 1 ELSE 0)
                   + Holding("send", id)

Answered ==
    IF result.kind = "report"
    THEN [kind |-> "report", ids |-> [id \in IDs |-> Times(result.ids, id)],
          errors |-> result.errors]
    ELSE [kind |-> result.kind]

Abstract == INSTANCE RemoveEach WITH
    pending <- [id \in IDs |-> Pending(id)],
    removed <- [id \in IDs |-> Removed(id)],
    answer <- Answered

(***************************************************************************)
(* The pool implements the sequential rm: under every interleaving of the  *)
(* feeder, the workers and the reporter, the store and the answer change   *)
(* as if the ids were taken one at a time (rm.go:60-104).                  *)
(***************************************************************************)
RefinesRemoveEach == Abstract!Spec
=============================================================================
