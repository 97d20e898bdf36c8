------------------------------ MODULE RmProofs ------------------------------
(***************************************************************************)
(* Proofs about the rm operation, for any number of workers, any ids and   *)
(* any length of the task's list.                                          *)
(*                                                                         *)
(* Accounted is not inductive: it speaks of the returned report only. The  *)
(* inductive invariant follows every id on its way: fed ids are in rmq or  *)
(* in a cell of the heap (Queued), every cell is reported, counted as an   *)
(* error, on its way to the reporter or held by a busy worker (Counted),   *)
(* and the phases of the caller fix which goroutines exist (Control).      *)
(***************************************************************************)
EXTENDS Rm, FiniteSetTheorems, SequenceTheorems, TLAPS

Busy == {w \in Workers : wpc[w] \in {"delete", "send"}}
InHand == IF rpc = "append" THEN 1 ELSE 0

Unstarted ==
    /\ \A w \in Workers : wpc[w] = "none"
    /\ rpc = "none"
    /\ heap = <<>> /\ rmq = <<>> /\ report = <<>>
    /\ fed = 0 /\ errors = 0
    /\ ~rmqClosed /\ ~removedClosed
    /\ snapshots = initial

Started ==
    /\ \A w \in Workers : wpc[w] # "none"
    /\ rpc # "none"

Ended ==
    /\ \A w \in Workers : wpc[w] = "exit"
    /\ rpc = "exit"

Before == {"rm", "mkstorage", "openrepo"}
During == {"feed", "wait", "drain"}
After  == {"close", "done"}

Control ==
    /\ pc \in Before => Unstarted
    /\ pc \in During => Started
    /\ pc \in After => Unstarted \/ Ended
    /\ pc \in {"mkstorage", "openrepo", "feed"} => ParsesOK(snapshotIDs)
    /\ rmqClosed => fed = Len(snapshotIDs)
    /\ pc = "feed" => ~rmqClosed
    /\ pc = "wait" => rmqClosed
    /\ pc = "drain" => removedClosed
    /\ \A w \in Workers : wpc[w] = "exit" => rmqClosed /\ rmq = <<>>
    /\ removedClosed => \A w \in Workers : wpc[w] = "exit"
    /\ rpc = "exit" => removedClosed
    /\ store = "closed" => pc = "done"

Queued == Len(heap) + Len(rmq) = fed

Counted ==
    Len(report) + errors + Cardinality(Busy) + InHand = Len(heap)

InFlight ==
    /\ \A w \in Busy : cur[w] # NoCell
    /\ rpc = "append" => got # NoCell

Settled ==
    pc \in After /\ result.kind = "report" =>
        Len(result.ids) + result.errors = Len(snapshotIDs)

Inv == TypeOK /\ Control /\ Queued /\ Counted /\ InFlight /\ Settled

-----------------------------------------------------------------------------
\* There are finitely many workers, so the busy ones can be counted.
LEMMA BusyFinite ==
    ASSUME NEW S, S \subseteq Workers
    PROVE  IsFiniteSet(S) /\ Cardinality(S) \in Nat
<1>1. IsFiniteSet(Workers)
  BY FS_Interval, MaxConcurrencyAssumption DEF Workers
<1>2. QED
  BY <1>1, FS_Subset, FS_CardinalityType

\* Nobody is busy when every worker is at rest.
LEMMA NobodyBusy ==
    ASSUME \A w \in Workers : wpc[w] \notin {"delete", "send"}
    PROVE  Cardinality(Busy) = 0
<1>1. Busy = {}
  BY DEF Busy
<1>2. QED
  BY <1>1, FS_EmptySet

\* A worker that becomes busy adds one to the busy ones.
LEMMA BecomesBusy ==
    ASSUME NEW w \in Workers, NEW x \in {"delete", "send"}, TypeOK,
           wpc[w] \notin {"delete", "send"},
           wpc' = [wpc EXCEPT ![w] = x]
    PROVE  Cardinality(Busy') = Cardinality(Busy) + 1
<1>1. Busy' = Busy \cup {w} /\ w \notin Busy
  BY DEF Busy, TypeOK
<1>2. IsFiniteSet(Busy)
  BY BusyFinite DEF Busy
<1>3. QED
  BY <1>1, <1>2, FS_AddElement

\* A worker that is no longer busy takes one from them.
LEMMA BecomesIdle ==
    ASSUME NEW w \in Workers, NEW x, x \notin {"delete", "send"}, TypeOK,
           wpc[w] \in {"delete", "send"},
           wpc' = [wpc EXCEPT ![w] = x]
    PROVE  /\ Cardinality(Busy') = Cardinality(Busy) - 1
           /\ Cardinality(Busy) \in Nat \ {0}
<1>1. Busy' = Busy \ {w} /\ w \in Busy
  BY DEF Busy, TypeOK
<1>2. IsFiniteSet(Busy) /\ Cardinality(Busy) \in Nat
  BY BusyFinite DEF Busy
<1>3. Cardinality(Busy) # 0
  BY <1>1, <1>2, FS_EmptySet
<1>4. QED
  BY <1>1, <1>2, <1>3, FS_RemoveElement

\* What rm returns is a result, and its fields are what they were given.
LEMMA ResultFields ==
    /\ ErrorResult \in Results /\ ErrorResult.kind = "error"
    /\ \A ids \in Seq(IDs), n \in Nat :
          /\ RmReport(ids, n) \in Results
          /\ RmReport(ids, n).ids = ids
          /\ RmReport(ids, n).errors = n
  BY DEF Results, ErrorResult, RmReport

\* The initial states satisfy the invariant.
LEMMA InitInv == Init => Inv
<1> SUFFICES ASSUME Init PROVE Inv
  OBVIOUS
<1>1. TypeOK
  <2>1. snapshotIDs \in Seq(IDs \cup {Malformed})
    BY MaxIDsAssumption, SeqDef DEF Init, BoundedSeq, SeqOf
  <2>2. /\ heap = <<>> /\ heap \in Seq(IDs) /\ Len(heap) = 0
        /\ rmq \in Seq(IDs) /\ Len(rmq) = 0
        /\ report \in Seq(Nat) /\ DOMAIN report = {}
    BY DEF Init
  <2>3. result \in Results
    BY DEF Init, Results, NoResult
  <2>4. /\ cur \in [Workers -> 0..Len(heap)]
        /\ wpc \in [Workers -> {"none", "recv", "delete", "send", "exit"}]
        /\ got \in 0..Len(heap)
    BY <2>2 DEF Init, NoCell
  <2>5. fed \in 0..Len(snapshotIDs)
    BY <2>1 DEF Init
  <2>6. /\ source \in BOOLEAN /\ rmqClosed \in BOOLEAN
        /\ removedClosed \in BOOLEAN
    BY DEF Init
  <2>7. Len(rmq) <= MaxConcurrency
    BY <2>2, MaxConcurrencyAssumption
  <2>8. errors \in Nat
    BY DEF Init
  <2>9. \A i \in DOMAIN report : report[i] \in 1..Len(heap)
    BY <2>2
  <2>10. QED
    BY <2>1, <2>2, <2>3, <2>4, <2>5, <2>6, <2>7, <2>8, <2>9 DEF Init, TypeOK
<1>2. Control
  BY DEF Init, Control, Unstarted, Before, During, After
<1>3. Counted
  BY NobodyBusy DEF Init, Counted, InHand
<1>4. QED
  BY <1>1, <1>2, <1>3
  DEF Init, Inv, Queued, InFlight, Settled, Busy, NoResult, NoCell, After

\* Every step preserves the invariant.
LEMMA NextInv == Inv /\ [Next]_vars => Inv'
<1> SUFFICES ASSUME Inv, [Next]_vars PROVE Inv'
  OBVIOUS
<1> USE DEF Inv, input, worker
<1> DEFINE Ids == [i \in DOMAIN report |-> heap[report[i]]]
<1>e. <<>> \in Seq(IDs) /\ 0 \in Nat
  OBVIOUS
<1>0. Ids \in Seq(IDs) /\ Len(Ids) = Len(report)
  <2>1. DOMAIN report = 1..Len(report) /\ Len(report) \in Nat
    BY DEF TypeOK
  <2>2. ASSUME NEW i \in 1..Len(report) PROVE heap[report[i]] \in IDs
    <3>1. report[i] \in 1..Len(heap)
      BY <2>1 DEF TypeOK
    <3>2. QED
      BY <3>1, ElementOfSeq DEF TypeOK
  <2>3. QED
    BY <2>1, <2>2, IsASeq
<1> HIDE DEF Ids
<1>1. CASE Validate
  <2>1. TypeOK'
    <3>1. RmReport(<<>>, 0) \in Results
      BY <1>e, ResultFields
    <3>2. QED
      BY <1>1, <3>1, ResultFields DEF Validate, TypeOK
  <2>2. Control'
    BY <1>1 DEF Validate, TypeOK, Control, Before, During, After, Unstarted, Started, Ended
  <2>3. Queued'
    BY <1>1 DEF Validate, TypeOK, Queued
  <2>4. Counted'
    BY <1>1 DEF Validate, TypeOK, Counted, InHand, Busy
  <2>5. InFlight'
    BY <1>1 DEF Validate, TypeOK, InFlight, Busy, NoCell
  <2>6. Settled'
    <3>1. RmReport(<<>>, 0).ids = <<>> /\ RmReport(<<>>, 0).errors = 0
      BY <1>e, ResultFields
    <3>2. QED
      BY <1>1, <3>1, ResultFields DEF Validate, TypeOK, Settled, After
  <2>7. QED
    BY <2>1, <2>2, <2>3, <2>4, <2>5, <2>6
<1>2. CASE MkStorage
  <2>1. TypeOK'
    BY <1>2, ResultFields DEF MkStorage, TypeOK
  <2>2. Control'
    BY <1>2 DEF MkStorage, TypeOK, Control, Before, During, After, Unstarted, Started, Ended
  <2>3. Queued'
    BY <1>2 DEF MkStorage, TypeOK, Queued
  <2>4. Counted'
    BY <1>2 DEF MkStorage, TypeOK, Counted, InHand, Busy
  <2>5. InFlight'
    BY <1>2 DEF MkStorage, TypeOK, InFlight, Busy, NoCell
  <2>6. Settled'
    BY <1>2, ResultFields DEF MkStorage, TypeOK, Settled, After
  <2>7. QED
    BY <2>1, <2>2, <2>3, <2>4, <2>5, <2>6
<1>3. CASE OpenRepo
  <2>1. TypeOK'
    BY <1>3, ResultFields DEF OpenRepo, TypeOK
  <2>2. Control'
    BY <1>3 DEF OpenRepo, TypeOK, Control, Before, During, After, Unstarted, Started, Ended
  <2>3. Queued'
    BY <1>3 DEF OpenRepo, TypeOK, Queued
  <2>4. Counted'
    <3>1. Busy = {} /\ Busy' = {}
      BY <1>3 DEF OpenRepo, Busy, Control, Before, Unstarted
    <3>2. InHand = 0 /\ InHand' = 0
      BY <1>3 DEF OpenRepo, InHand, Control, Before, Unstarted
    <3>3. QED
      BY <1>3, <3>1, <3>2 DEF OpenRepo, Counted
  <2>5. InFlight'
    BY <1>3 DEF OpenRepo, TypeOK, InFlight, Busy, NoCell
  <2>6. Settled'
    BY <1>3, ResultFields DEF OpenRepo, TypeOK, Settled, After
  <2>7. QED
    BY <2>1, <2>2, <2>3, <2>4, <2>5, <2>6
<1>4. CASE Feed
  <2>1. TypeOK'
    <3>1. snapshotIDs[fed + 1] \in IDs
      BY <1>4 DEF Feed, TypeOK, Control, ParsesOK
    <3>2. rmq' \in Seq(IDs) /\ Len(rmq') = Len(rmq) + 1
      BY <1>4, <3>1 DEF Feed, TypeOK
    <3>3. fed' \in 0..Len(snapshotIDs') /\ Len(rmq') <= MaxConcurrency
      BY <1>4, <3>2, MaxConcurrencyAssumption DEF Feed, TypeOK
    <3>4. QED
      BY <1>4, <3>2, <3>3 DEF Feed, TypeOK
  <2>2. Control'
    BY <1>4 DEF Feed, TypeOK, Control, Before, During, After, Unstarted, Started, Ended
  <2>3. Queued'
    BY <1>4 DEF Feed, TypeOK, Queued
  <2>4. Counted'
    BY <1>4 DEF Feed, TypeOK, Counted, InHand, Busy
  <2>5. InFlight'
    BY <1>4 DEF Feed, TypeOK, InFlight, Busy, NoCell
  <2>6. Settled'
    BY <1>4 DEF Feed, TypeOK, Settled, After
  <2>7. QED
    BY <2>1, <2>2, <2>3, <2>4, <2>5, <2>6
<1>5. CASE CloseRmq
  <2>1. TypeOK'
    BY <1>5 DEF CloseRmq, TypeOK, Control, Before, During, After
  <2>2. Control'
    BY <1>5 DEF CloseRmq, TypeOK, Control, Before, During, After, Unstarted, Started, Ended
  <2>3. Queued'
    BY <1>5 DEF CloseRmq, TypeOK, Queued
  <2>4. Counted'
    BY <1>5 DEF CloseRmq, TypeOK, Counted, InHand, Busy
  <2>5. InFlight'
    BY <1>5 DEF CloseRmq, TypeOK, InFlight, Busy, NoCell
  <2>6. Settled'
    BY <1>5 DEF CloseRmq, TypeOK, Settled, After
  <2>7. QED
    BY <2>1, <2>2, <2>3, <2>4, <2>5, <2>6
<1>6. CASE WaitWorkers
  <2>1. TypeOK'
    BY <1>6 DEF WaitWorkers, TypeOK, Control, Before, During, After
  <2>2. Control'
    BY <1>6 DEF WaitWorkers, TypeOK, Control, Before, During, After, Unstarted, Started, Ended
  <2>3. Queued'
    BY <1>6 DEF WaitWorkers, TypeOK, Queued
  <2>4. Counted'
    BY <1>6 DEF WaitWorkers, TypeOK, Counted, InHand, Busy
  <2>5. InFlight'
    BY <1>6 DEF WaitWorkers, TypeOK, InFlight, Busy, NoCell
  <2>6. Settled'
    BY <1>6 DEF WaitWorkers, TypeOK, Settled, After
  <2>7. QED
    BY <2>1, <2>2, <2>3, <2>4, <2>5, <2>6
<1>7. CASE Assemble
  <2>1. TypeOK'
    BY <1>7, <1>0, ResultFields DEF Assemble, TypeOK, Ids
  <2>2. Control'
    BY <1>7 DEF Assemble, TypeOK, Control, Before, During, After, Unstarted, Started, Ended
  <2>3. Queued'
    BY <1>7 DEF Assemble, TypeOK, Queued
  <2>4. Counted'
    BY <1>7 DEF Assemble, TypeOK, Counted, InHand, Busy
  <2>5. InFlight'
    BY <1>7 DEF Assemble, TypeOK, InFlight, Busy, NoCell
  <2>6. Settled'
    <3>1. \A w \in Workers : wpc[w] = "exit"
      BY <1>7 DEF Assemble, Control
    <3>2. Cardinality(Busy) = 0 /\ InHand = 0
      BY <1>7, <3>1, NobodyBusy DEF Assemble, InHand
    <3>3. rmq = <<>> /\ fed = Len(snapshotIDs)
      BY <3>1, MaxConcurrencyAssumption DEF Control, Workers
    <3>4. Len(report) + errors = Len(snapshotIDs)
      BY <3>2, <3>3 DEF Counted, Queued, TypeOK
    <3>5. QED
      BY <1>7, <3>4, <1>0, ResultFields DEF Assemble, TypeOK, Settled, Ids
  <2>7. QED
    BY <2>1, <2>2, <2>3, <2>4, <2>5, <2>6
<1>8. CASE CloseStore
  <2>1. TypeOK'
    BY <1>8 DEF CloseStore, TypeOK, Control, Before, During, After
  <2>2. Control'
    BY <1>8 DEF CloseStore, TypeOK, Control, Before, During, After, Unstarted, Started, Ended
  <2>3. Queued'
    BY <1>8 DEF CloseStore, TypeOK, Queued
  <2>4. Counted'
    BY <1>8 DEF CloseStore, TypeOK, Counted, InHand, Busy
  <2>5. InFlight'
    BY <1>8 DEF CloseStore, TypeOK, InFlight, Busy, NoCell
  <2>6. Settled'
    BY <1>8 DEF CloseStore, TypeOK, Settled, After
  <2>7. QED
    BY <2>1, <2>2, <2>3, <2>4, <2>5, <2>6
<1>9. ASSUME NEW w \in Workers, Receive(w) PROVE Inv'
  <2>1. TypeOK'
    <3>1. Head(rmq) \in IDs /\ Tail(rmq) \in Seq(IDs) /\ Len(Tail(rmq)) = Len(rmq) - 1
      BY <1>9 DEF Receive, TypeOK
    <3>2. heap' \in Seq(IDs) /\ Len(heap') = Len(heap) + 1
      BY <1>9, <3>1 DEF Receive, TypeOK
    <3>3. \A i \in DOMAIN report : report[i] \in 1..Len(heap')
      BY <3>2 DEF TypeOK
    <3>4. cur' \in [Workers -> 0..Len(heap')] /\ got \in 0..Len(heap')
      BY <1>9, <3>2 DEF Receive, TypeOK
    <3>5. rmq' \in Seq(IDs) /\ Len(rmq') <= MaxConcurrency
      BY <1>9, <3>1, MaxConcurrencyAssumption DEF Receive, TypeOK
    <3>6. QED
      BY <1>9, <3>2, <3>3, <3>4, <3>5 DEF Receive, TypeOK
  <2>2. Control'
    BY <1>9 DEF Receive, TypeOK, Control, Before, During, After, Unstarted, Started, Ended
  <2>3. Queued'
    <3>1. Len(rmq') = Len(rmq) - 1 /\ Len(rmq) \in Nat
      BY <1>9 DEF Receive, TypeOK
    <3>2. Len(heap') = Len(heap) + 1 /\ Len(heap) \in Nat
      BY <1>9 DEF Receive, TypeOK
    <3>3. fed' = fed
      BY <1>9 DEF Receive
    <3>4. QED
      BY <3>1, <3>2, <3>3 DEF Queued
  <2>4. Counted'
    <3>1. Cardinality(Busy') = Cardinality(Busy) + 1
      BY <1>9, BecomesBusy DEF Receive
    <3>2. Len(heap') = Len(heap) + 1
      BY <1>9 DEF Receive, TypeOK
    <3>3. Cardinality(Busy) \in Nat
      BY BusyFinite DEF Busy
    <3>4. UNCHANGED <<report, errors, InHand>>
      BY <1>9 DEF Receive, InHand
    <3>5. Len(report) \in Nat /\ errors \in Nat /\ Len(heap) \in Nat /\ InHand \in Nat
      BY DEF TypeOK, InHand
    <3>6. QED
      BY <3>1, <3>2, <3>3, <3>4, <3>5 DEF Counted
  <2>5. InFlight'
    BY <1>9 DEF Receive, TypeOK, InFlight, Busy, NoCell
  <2>6. Settled'
    BY <1>9 DEF Receive, TypeOK, Settled, After
  <2>7. QED
    BY <2>1, <2>2, <2>3, <2>4, <2>5, <2>6
<1>10. ASSUME NEW w \in Workers, Exit(w) PROVE Inv'
  <2>1. TypeOK'
    BY <1>10 DEF Exit, TypeOK, Control, Before, During, After
  <2>2. Control'
    BY <1>10 DEF Exit, TypeOK, Control, Before, During, After, Unstarted, Started, Ended
  <2>3. Queued'
    BY <1>10 DEF Exit, TypeOK, Queued
  <2>4. Counted'
    BY <1>10 DEF Exit, TypeOK, Counted, InHand, Busy
  <2>5. InFlight'
    BY <1>10 DEF Exit, TypeOK, InFlight, Busy, NoCell
  <2>6. Settled'
    BY <1>10 DEF Exit, TypeOK, Settled, After
  <2>7. QED
    BY <2>1, <2>2, <2>3, <2>4, <2>5, <2>6
<1>11. ASSUME NEW w \in Workers, DeleteOK(w) PROVE Inv'
  <2>1. TypeOK'
    BY <1>11 DEF DeleteOK, TypeOK, Control, Before, During, After
  <2>2. Control'
    BY <1>11 DEF DeleteOK, TypeOK, Control, Before, During, After, Unstarted, Started, Ended
  <2>3. Queued'
    BY <1>11 DEF DeleteOK, TypeOK, Queued
  <2>4. Counted'
    BY <1>11 DEF DeleteOK, TypeOK, Counted, InHand, Busy
  <2>5. InFlight'
    BY <1>11 DEF DeleteOK, TypeOK, InFlight, Busy, NoCell
  <2>6. Settled'
    BY <1>11 DEF DeleteOK, TypeOK, Settled, After
  <2>7. QED
    BY <2>1, <2>2, <2>3, <2>4, <2>5, <2>6
<1>12. ASSUME NEW w \in Workers, DeleteFails(w) PROVE Inv'
  <2>1. TypeOK'
    BY <1>12 DEF DeleteFails, TypeOK, Control, Before, During, After
  <2>2. Control'
    BY <1>12 DEF DeleteFails, TypeOK, Control, Before, During, After, Unstarted, Started, Ended
  <2>3. Queued'
    BY <1>12 DEF DeleteFails, TypeOK, Queued
  <2>4. Counted'
    <3>1. /\ Cardinality(Busy') = Cardinality(Busy) - 1
          /\ Cardinality(Busy) \in Nat \ {0}
      BY <1>12, BecomesIdle DEF DeleteFails
    <3>2. QED
      BY <1>12, <3>1 DEF DeleteFails, TypeOK, Counted, InHand
  <2>5. InFlight'
    BY <1>12 DEF DeleteFails, TypeOK, InFlight, Busy, NoCell
  <2>6. Settled'
    BY <1>12 DEF DeleteFails, TypeOK, Settled, After
  <2>7. QED
    BY <2>1, <2>2, <2>3, <2>4, <2>5, <2>6
<1>13. ASSUME NEW w \in Workers, SendRemoved(w) PROVE Inv'
  <2>1. TypeOK'
    BY <1>13 DEF SendRemoved, TypeOK, Control, Before, During, After
  <2>2. Control'
    BY <1>13 DEF SendRemoved, TypeOK, Control, Before, During, After, Unstarted, Started, Ended
  <2>3. Queued'
    BY <1>13 DEF SendRemoved, TypeOK, Queued
  <2>4. Counted'
    <3>1. /\ Cardinality(Busy') = Cardinality(Busy) - 1
          /\ Cardinality(Busy) \in Nat \ {0}
      BY <1>13, BecomesIdle DEF SendRemoved
    <3>2. QED
      BY <1>13, <3>1 DEF SendRemoved, TypeOK, Counted, InHand
  <2>5. InFlight'
    BY <1>13 DEF SendRemoved, TypeOK, InFlight, Busy, NoCell
  <2>6. Settled'
    BY <1>13 DEF SendRemoved, TypeOK, Settled, After
  <2>7. QED
    BY <2>1, <2>2, <2>3, <2>4, <2>5, <2>6
<1>14. CASE AppendReport
  <2>1. TypeOK'
    <3>1. got \in 1..Len(heap)
      BY <1>14 DEF AppendReport, TypeOK, InFlight, NoCell
    <3>2. report' \in Seq(Nat) /\ \A i \in DOMAIN report' : report'[i] \in 1..Len(heap)
      BY <1>14, <3>1 DEF AppendReport, TypeOK
    <3>3. got' \in 0..Len(heap')
      BY <1>14 DEF AppendReport, NoCell, TypeOK
    <3>4. QED
      BY <1>14, <3>2, <3>3 DEF AppendReport, TypeOK
  <2>2. Control'
    BY <1>14 DEF AppendReport, TypeOK, Control, Before, During, After, Unstarted, Started, Ended
  <2>3. Queued'
    BY <1>14 DEF AppendReport, TypeOK, Queued
  <2>4. Counted'
    <3>1. Busy' = Busy /\ Cardinality(Busy) \in Nat
      BY <1>14, BusyFinite DEF AppendReport, Busy
    <3>2. Len(report') = Len(report) + 1
      BY <1>14 DEF AppendReport, TypeOK
    <3>3. QED
      BY <1>14, <3>1, <3>2 DEF AppendReport, TypeOK, Counted, InHand
  <2>5. InFlight'
    BY <1>14 DEF AppendReport, TypeOK, InFlight, Busy, NoCell
  <2>6. Settled'
    BY <1>14 DEF AppendReport, TypeOK, Settled, After
  <2>7. QED
    BY <2>1, <2>2, <2>3, <2>4, <2>5, <2>6
<1>15. CASE ReporterExit
  <2>1. TypeOK'
    BY <1>15 DEF ReporterExit, TypeOK, Control, Before, During, After
  <2>2. Control'
    BY <1>15 DEF ReporterExit, TypeOK, Control, Before, During, After, Unstarted, Started, Ended
  <2>3. Queued'
    BY <1>15 DEF ReporterExit, TypeOK, Queued
  <2>4. Counted'
    BY <1>15 DEF ReporterExit, TypeOK, Counted, InHand, Busy
  <2>5. InFlight'
    BY <1>15 DEF ReporterExit, TypeOK, InFlight, Busy, NoCell
  <2>6. Settled'
    BY <1>15 DEF ReporterExit, TypeOK, Settled, After
  <2>7. QED
    BY <2>1, <2>2, <2>3, <2>4, <2>5, <2>6
<1>16. CASE Terminated \/ UNCHANGED vars
  <2> USE <1>16 DEF Terminated, vars
  <2>1. TypeOK'
    BY DEF TypeOK
  <2>2. Control'
    BY DEF Control, Unstarted, Started, Ended, ParsesOK
  <2>3. Busy' = Busy /\ InHand' = InHand
    BY DEF Busy, InHand
  <2>4. Queued' /\ Counted' /\ InFlight' /\ Settled'
    BY <2>3 DEF Queued, Counted, InFlight, Settled
  <2>5. QED
    BY <2>1, <2>2, <2>4
<1>17. QED
  BY <1>1, <1>2, <1>3, <1>4, <1>5, <1>6, <1>7, <1>8, <1>9, <1>10, <1>11, <1>12, <1>13, <1>14, <1>15, <1>16 DEF Next, Caller, Worker, Reporter

-----------------------------------------------------------------------------
\* The invariant holds in every reachable state.
LEMMA Invariance == Spec => []Inv
  BY InitInv, NextInv, PTL DEF Spec

(***************************************************************************)
(* rm.go keeps its types for every input: in particular the feeder never   *)
(* queues more than there is room for, and every slice points into a cell. *)
(***************************************************************************)
THEOREM TypeCorrect == Spec => []TypeOK
<1>1. Inv => TypeOK
  BY DEF Inv
<1>2. QED
  BY <1>1, Invariance, PTL

(***************************************************************************)
(* Every id given to rm ends up exactly once in the report, as removed or  *)
(* as an error, for any number of workers and any interleaving.            *)
(***************************************************************************)
THEOREM AccountedFor == Spec => []Accounted
<1>1. Inv => Accounted
  BY DEF Inv, Settled, Accounted, After
<1>2. QED
  BY <1>1, Invariance, PTL

\* close(removed) never races with a worker that still has to send.
THEOREM ChannelSafe == Spec => []NoSendOnClosedChannel
<1>1. Inv => NoSendOnClosedChannel
  BY DEF Inv, Control, NoSendOnClosedChannel
<1>2. QED
  BY <1>1, Invariance, PTL

\* The store is closed only after the last goroutine that used it left.
THEOREM StoreClosedLast == Spec => []StoreOutlivesPool
<1>1. Inv => StoreOutlivesPool
  BY DEF Inv, Control, Unstarted, Ended, After, StoreOutlivesPool
<1>2. QED
  BY <1>1, Invariance, PTL

-----------------------------------------------------------------------------
(***************************************************************************)
(* For the truth of the report, the cells whose snapshot was removed are   *)
(* followed from the worker through the reporter's hands into the report.  *)
(* Cells are never overwritten, which is what Go's loop variables give.    *)
(***************************************************************************)
IsRemoved(c) ==
    \/ \E i \in DOMAIN report : report[i] = c
    \/ rpc = "append" /\ got = c
    \/ \E w \in Workers : wpc[w] = "send" /\ cur[w] = c

RemovedAreGone == \A c \in 1..Len(heap) : IsRemoved(c) => heap[c] \notin snapshots

Listed(id) == \E c \in 1..Len(heap) : IsRemoved(c) /\ heap[c] = id

\* The snapshots that are gone although their delete failed.
GoneUnlisted == {id \in initial \ snapshots : ~Listed(id)}

GoneAreRemoved == /\ IsFiniteSet(GoneUnlisted)
                  /\ Cardinality(GoneUnlisted) <= errors

Truthful ==
    pc \in After /\ result.kind = "report" =>
        /\ Range(result.ids) \cap snapshots = {}
        /\ Cardinality((initial \ snapshots) \ Range(result.ids)) <= result.errors

Truth == RemovedAreGone /\ GoneAreRemoved /\ Truthful

\* A bound on a set bounds its subsets.
LEMMA FewerCounted ==
    ASSUME NEW S, IsFiniteSet(S), NEW n \in Nat, Cardinality(S) <= n,
           NEW T \in SUBSET S
    PROVE  IsFiniteSet(T) /\ Cardinality(T) <= n
<1>1. /\ IsFiniteSet(T) /\ Cardinality(T) <= Cardinality(S)
      /\ Cardinality(T) \in Nat /\ Cardinality(S) \in Nat
  BY FS_Subset, FS_CardinalityType
<1>2. QED
  BY <1>1

\* One element more is counted by one more.
LEMMA OneMoreCounted ==
    ASSUME NEW S, IsFiniteSet(S), NEW n \in Nat, Cardinality(S) <= n, NEW x,
           NEW T \in SUBSET (S \cup {x})
    PROVE  IsFiniteSet(T) /\ Cardinality(T) <= n + 1
<1> DEFINE U == S \cup {x}
<1>1. /\ IsFiniteSet(U)
      /\ Cardinality(U) = Cardinality(S) \/ Cardinality(U) = Cardinality(S) + 1
  BY FS_AddElement
<1>2. Cardinality(S) \in Nat
  BY FS_CardinalityType
<1>3. Cardinality(U) <= n + 1 /\ n + 1 \in Nat
  BY <1>1, <1>2
<1>4. T \in SUBSET U
  OBVIOUS
<1> HIDE DEF U
<1>5. QED
  BY <1>1, <1>3, <1>4, FewerCounted

\* Nothing is removed, and nothing is claimed, at the start.
LEMMA InitTruth == Init => Truth
<1> SUFFICES ASSUME Init PROVE Truth
  OBVIOUS
<1>1. RemovedAreGone
  BY DEF Init, RemovedAreGone
<1>2. GoneUnlisted = {} /\ errors = 0
  BY DEF Init, GoneUnlisted
<1>3. GoneAreRemoved
  BY <1>2, FS_EmptySet DEF GoneAreRemoved
<1>4. Truthful
  BY DEF Init, Truthful, NoResult, After
<1>5. QED
  BY <1>1, <1>3, <1>4 DEF Truth

\* Every step keeps the removed cells and the store in agreement.
LEMMA NextTruth == Inv /\ Inv' /\ Truth /\ [Next]_vars => Truth'
<1> SUFFICES ASSUME Inv, Inv', Truth, [Next]_vars PROVE Truth'
  OBVIOUS
<1> USE DEF Inv, Truth, input, worker
<1>e. errors \in Nat
  BY DEF TypeOK
<1>s. ASSUME GoneUnlisted' \subseteq GoneUnlisted, errors' = errors
      PROVE  GoneAreRemoved'
  <2>1. /\ IsFiniteSet(GoneUnlisted) /\ Cardinality(GoneUnlisted) <= errors
        /\ GoneUnlisted' \in SUBSET GoneUnlisted
    BY <1>s DEF GoneAreRemoved
  <2>2. IsFiniteSet(GoneUnlisted') /\ Cardinality(GoneUnlisted') <= errors
    BY <1>e, <2>1, FewerCounted
  <2>3. QED
    BY <1>s, <2>2 DEF GoneAreRemoved
<1> DEFINE Quiet == UNCHANGED <<initial, heap, report, rpc, got, wpc, cur,
                                snapshots, errors>>
<1>q. ASSUME Quiet PROVE RemovedAreGone' /\ GoneAreRemoved'
  <2>1. GoneUnlisted' \subseteq GoneUnlisted
    BY <1>q DEF GoneUnlisted, Listed, IsRemoved
  <2>2. RemovedAreGone'
    BY <1>q DEF RemovedAreGone, IsRemoved
  <2>3. QED
    BY <1>q, <1>s, <2>1, <2>2
<1>1. CASE Validate
  <2>1. snapshots = initial
    BY <1>1 DEF Validate, Control, Before, Unstarted
  <2>2. <<>> \in Seq(IDs) /\ 0 \in Nat /\ DOMAIN <<>> = {}
    OBVIOUS
  <2>3. /\ RmReport(<<>>, 0).ids = <<>> /\ RmReport(<<>>, 0).errors = 0
        /\ RmReport(<<>>, 0).kind = "report"
    BY DEF RmReport
  <2>4. Quiet /\ UNCHANGED <<initial, snapshots>>
    BY <1>1 DEF Validate
  <2>5. CASE result' = RmReport(<<>>, 0)
    <3>1. Range(<<>>) = {}
      BY <2>2 DEF Range
    <3>2. /\ Range(result'.ids) \cap snapshots' = {}
          /\ (initial' \ snapshots') \ Range(result'.ids) = {}
      BY <2>1, <2>3, <2>4, <2>5, <3>1
    <3>3. Cardinality({}) = 0 /\ result'.errors = 0
      BY <2>3, <2>5, FS_EmptySet
    <3>4. Truthful'
      BY <3>2, <3>3 DEF Truthful
    <3>5. QED
      BY <2>4, <3>4, <1>q
  <2>6. CASE result' # RmReport(<<>>, 0)
    <3>1. Truthful'
      BY <1>1, <2>6, ResultFields DEF Validate, Truthful, After
    <3>2. QED
      BY <2>4, <3>1, <1>q
  <2>7. QED
    BY <2>5, <2>6
<1>2. CASE MkStorage
  BY <1>2, <1>q, ResultFields DEF MkStorage, Truthful, After
<1>3. CASE OpenRepo
  <2>1. Unstarted
    BY <1>3 DEF OpenRepo, Control, Before
  <2>5. RemovedAreGone'
    BY <1>3, <2>1 DEF OpenRepo, Unstarted, RemovedAreGone
  <2>6. GoneUnlisted' \subseteq GoneUnlisted
    BY <1>3, <2>1 DEF OpenRepo, Unstarted, GoneUnlisted
  <2>2. RemovedAreGone' /\ GoneAreRemoved'
    BY <1>3, <1>s, <2>5, <2>6 DEF OpenRepo
  <2>3. Truthful'
    BY <1>3, ResultFields DEF OpenRepo, Truthful, After
  <2>4. QED
    BY <2>2, <2>3
<1>4. CASE Feed
  BY <1>4, <1>q DEF Feed, Truthful, After
<1>5. CASE CloseRmq
  BY <1>5, <1>q DEF CloseRmq, Truthful, After
<1>6. CASE WaitWorkers
  BY <1>6, <1>q DEF WaitWorkers, Truthful, After
<1>7. CASE Assemble
  <2> DEFINE Ids == [i \in DOMAIN report |-> heap[report[i]]]
  <2>1. \A i \in DOMAIN report : report[i] \in 1..Len(heap)
    BY DEF TypeOK
  <2>2. \A i \in DOMAIN Ids : Ids[i] \notin snapshots
    BY <2>1 DEF RemovedAreGone, IsRemoved
  <2>3. \A c : IsRemoved(c) => \E i \in DOMAIN report : report[i] = c
    BY <1>7 DEF Assemble, Control, IsRemoved
  <2>4. Range(Ids) \cap snapshots = {} /\ (initial \ snapshots) \ Range(Ids)
            \in SUBSET GoneUnlisted
    BY <2>2, <2>3 DEF GoneUnlisted, Listed, Range
  <2>5. result'.ids = Ids /\ result'.errors = errors
    BY <1>7 DEF Assemble, RmReport
  <2> HIDE DEF Ids
  <2>8. Cardinality((initial \ snapshots) \ Range(Ids)) <= errors
    BY <1>e, <2>4, FewerCounted DEF GoneAreRemoved
  <2>6. Truthful'
    BY <1>7, <2>4, <2>5, <2>8 DEF Assemble, Truthful
  <2>7. QED
    BY <1>7, <2>6, <1>q DEF Assemble
<1>8. CASE CloseStore
  BY <1>8, <1>q DEF CloseStore, Truthful, After
<1>w. ASSUME NEW w \in Workers, wpc[w] \in {"recv", "delete", "send"}, pc' = pc
      PROVE  Truthful'
  BY <1>w DEF Truthful, Control, Unstarted, Ended
<1>9. ASSUME NEW w \in Workers, Receive(w) PROVE Truth'
  <2>1. \A c : IsRemoved(c)' => IsRemoved(c)
    BY <1>9 DEF Receive, IsRemoved, TypeOK
  <2>2. \A c : IsRemoved(c) => IsRemoved(c)'
    BY <1>9 DEF Receive, IsRemoved, TypeOK
  <2>3. \A c : IsRemoved(c) => c \in 1..Len(heap) \/ c = NoCell
    <3>1. /\ \A i \in DOMAIN report : report[i] \in 1..Len(heap)
          /\ got \in 0..Len(heap) /\ cur \in [Workers -> 0..Len(heap)]
          /\ Len(heap) \in Nat
      BY DEF TypeOK
    <3>2. 0..Len(heap) \subseteq 1..Len(heap) \cup {NoCell}
      BY <3>1 DEF NoCell
    <3>3. QED
      BY <3>1, <3>2 DEF IsRemoved
  <2>4. \A c \in 1..Len(heap) : c \in 1..Len(heap') /\ heap'[c] = heap[c]
    BY <1>9 DEF Receive, TypeOK
  <2>5. RemovedAreGone'
    <3> SUFFICES ASSUME NEW c \in 1..Len(heap'), IsRemoved(c)'
                 PROVE  heap'[c] \notin snapshots'
      BY DEF RemovedAreGone
    <3>1. c \in 1..Len(heap)
      BY <2>1, <2>3 DEF NoCell, TypeOK
    <3>2. QED
      BY <1>9, <3>1, <2>1, <2>4 DEF Receive, RemovedAreGone
  <2>8. \A id : Listed(id) => Listed(id)'
    BY <2>2, <2>4 DEF Listed
  <2>9. GoneUnlisted' \subseteq GoneUnlisted
    BY <1>9, <2>8 DEF Receive, GoneUnlisted
  <2>6. GoneAreRemoved'
    BY <1>9, <1>s, <2>9 DEF Receive
  <2>7. QED
    BY <1>9, <1>w, <2>5, <2>6 DEF Receive
<1>10. ASSUME NEW w \in Workers, Exit(w) PROVE Truth'
  <2>1. GoneUnlisted' \subseteq GoneUnlisted
    BY <1>10 DEF Exit, GoneUnlisted, Listed, IsRemoved
  <2>2. QED
    BY <1>10, <1>s, <1>w, <2>1 DEF Exit, RemovedAreGone, IsRemoved
<1>11. ASSUME NEW w \in Workers, DeleteOK(w) PROVE Truth'
  <2>1. \A c : IsRemoved(c)' <=> IsRemoved(c) \/ c = cur[w]
    BY <1>11 DEF DeleteOK, IsRemoved, TypeOK
  <2>2. cur[w] \in 1..Len(heap)
    BY <1>11 DEF DeleteOK, InFlight, Busy, TypeOK, NoCell
  <2>3. RemovedAreGone'
    BY <1>11, <2>1 DEF DeleteOK, RemovedAreGone
  <2>6. \A id : Listed(id) \/ id = heap[cur[w]] => Listed(id)'
    BY <1>11, <2>1, <2>2 DEF DeleteOK, Listed
  <2>7. GoneUnlisted' \subseteq GoneUnlisted
    BY <1>11, <2>6 DEF DeleteOK, GoneUnlisted
  <2>4. GoneAreRemoved'
    BY <1>11, <1>s, <2>7 DEF DeleteOK
  <2>5. QED
    BY <1>11, <1>w, <2>3, <2>4 DEF DeleteOK
<1>12. ASSUME NEW w \in Workers, DeleteFails(w) PROVE Truth'
  <2>1. \A c : IsRemoved(c)' <=> IsRemoved(c)
    BY <1>12 DEF DeleteFails, IsRemoved, TypeOK
  <2>2. RemovedAreGone'
    BY <1>12, <2>1 DEF DeleteFails, RemovedAreGone
  <2>3. \A id : Listed(id) => Listed(id)'
    BY <1>12, <2>1 DEF DeleteFails, Listed
  <2>4. GoneUnlisted' \in SUBSET (GoneUnlisted \cup {heap[cur[w]]})
    BY <1>12, <2>3 DEF DeleteFails, GoneUnlisted
  <2>5. IsFiniteSet(GoneUnlisted') /\ Cardinality(GoneUnlisted') <= errors + 1
    BY <1>e, <2>4, OneMoreCounted DEF GoneAreRemoved
  <2>6. GoneAreRemoved'
    BY <1>12, <2>5 DEF DeleteFails, GoneAreRemoved
  <2>7. QED
    BY <1>12, <1>w, <2>2, <2>6 DEF DeleteFails
<1>13. ASSUME NEW w \in Workers, SendRemoved(w) PROVE Truth'
  <2>1. \A c : IsRemoved(c)' <=> IsRemoved(c)
    BY <1>13 DEF SendRemoved, IsRemoved, TypeOK
  <2>2. GoneUnlisted' \subseteq GoneUnlisted
    BY <1>13, <2>1 DEF SendRemoved, GoneUnlisted, Listed
  <2>3. QED
    BY <1>13, <1>s, <1>w, <2>1, <2>2 DEF SendRemoved, RemovedAreGone
<1>14. CASE AppendReport
  <2>1. \A c : IsRemoved(c)' <=> IsRemoved(c)
    <3>1. /\ report \in Seq(Nat) /\ got \in Nat /\ rpc = "append"
          /\ report' = Append(report, got) /\ rpc' = "recv"
          /\ UNCHANGED <<wpc, cur>>
      BY <1>14 DEF AppendReport, TypeOK
    <3>2. /\ DOMAIN report = 1..Len(report) /\ Len(report) \in Nat
          /\ DOMAIN report' = 1..Len(report) + 1 /\ report'[Len(report) + 1] = got
          /\ \A i \in DOMAIN report : report'[i] = report[i]
      BY <3>1
    <3>3. \A i : i \in DOMAIN report' <=> i \in DOMAIN report \/ i = Len(report) + 1
      BY <3>2
    <3>4. \A c : (\E i \in DOMAIN report' : report'[i] = c)
                  <=> (\E i \in DOMAIN report : report[i] = c) \/ got = c
      BY <3>2, <3>3
    <3>5. QED
      BY <3>1, <3>4 DEF IsRemoved
  <2>2. GoneUnlisted' \subseteq GoneUnlisted
    BY <1>14, <2>1 DEF AppendReport, GoneUnlisted, Listed
  <2>3. QED
    BY <1>14, <1>s, <2>1, <2>2 DEF AppendReport, RemovedAreGone, Truthful
<1>15. CASE ReporterExit
  <2>1. \A c : IsRemoved(c)' <=> IsRemoved(c)
    BY <1>15 DEF ReporterExit, IsRemoved
  <2>2. GoneUnlisted' \subseteq GoneUnlisted
    BY <1>15, <2>1 DEF ReporterExit, GoneUnlisted, Listed
  <2>3. QED
    BY <1>15, <1>s, <2>1, <2>2 DEF ReporterExit, RemovedAreGone, Truthful
<1>16. CASE Terminated \/ UNCHANGED vars
  BY <1>16, <1>q DEF Terminated, vars, Truthful
<1>17. QED
  BY <1>1, <1>2, <1>3, <1>4, <1>5, <1>6, <1>7, <1>8, <1>9, <1>10, <1>11,
     <1>12, <1>13, <1>14, <1>15, <1>16 DEF Next, Caller, Worker, Reporter

(***************************************************************************)
(* The report rm returns agrees with the store: what it lists is gone, and *)
(* what is gone is listed, but for no more than the errors it counts.      *)
(***************************************************************************)
THEOREM ReportTruthful == Spec => []ReportMatchesStore
<1>1. Truth => ReportMatchesStore
  BY DEF Truth, Truthful, ReportMatchesStore, After
<1>2. QED
  BY <1>1, InitTruth, NextTruth, Invariance, PTL DEF Spec

-----------------------------------------------------------------------------
(***************************************************************************)
(* The refinement. The mapping counts occurrences, so each step of the     *)
(* pool moves one occurrence of an id from one count to the next: these    *)
(* are the counts of a sequence and of the workers at a point.             *)
(***************************************************************************)
Hit(x, id) == IF x = id THEN 1 ELSE 0

\* An id occurs no more often than the sequence is long.
LEMMA TimesType ==
    ASSUME NEW S, NEW s \in Seq(S), NEW id
    PROVE  /\ Times(s, id) \in 0..Len(s)
           /\ IsFiniteSet({i \in DOMAIN s : s[i] = id})
<1>1. DOMAIN s = 1..Len(s) /\ Len(s) \in Nat
  OBVIOUS
<1>2. /\ IsFiniteSet(1..Len(s)) /\ Cardinality(1..Len(s)) = Len(s)
  BY <1>1, FS_Interval
<1>3. {i \in DOMAIN s : s[i] = id} \subseteq 1..Len(s)
  BY <1>1
<1>4. QED
  BY <1>1, <1>2, <1>3, FS_Subset, FS_CardinalityType DEF Times

\* Nothing occurs in an empty sequence.
LEMMA TimesEmpty == \A id : Times(<<>>, id) = 0
<1>1. \A id : {i \in DOMAIN <<>> : <<>>[i] = id} = {}
  OBVIOUS
<1>2. QED
  BY <1>1, FS_EmptySet DEF Times

\* Sets that correspond one to one have as many elements.
LEMMA SameSize ==
    ASSUME NEW S, NEW T, IsFiniteSet(S), NEW f \in [S -> T],
           \A a, b \in S : f[a] = f[b] => a = b,
           \A t \in T : \E a \in S : f[a] = t
    PROVE  Cardinality(T) = Cardinality(S)
<1>1. f \in Injection(S, T) /\ f \in Surjection(S, T)
  BY DEF Injection, Surjection, IsInjective
<1>2. ExistsBijection(S, T)
  BY <1>1 DEF ExistsBijection, Bijection
<1>3. QED
  BY <1>2, FS_Bijection

\* An element that is appended occurs once more.
LEMMA TimesAppend ==
    ASSUME NEW S, NEW s \in Seq(S), NEW x \in S, NEW id
    PROVE  Times(Append(s, x), id) = Times(s, id) + Hit(x, id)
<1> DEFINE Old == {i \in DOMAIN s : s[i] = id}
           New == {i \in DOMAIN Append(s, x) : Append(s, x)[i] = id}
<1>0. Times(s, id) = Cardinality(Old) /\ Times(Append(s, x), id) = Cardinality(New)
  BY DEF Times
<1>1. IsFiniteSet(Old) /\ Cardinality(Old) \in Nat
  BY TimesType, FS_CardinalityType
<1>2. /\ DOMAIN s = 1..Len(s) /\ DOMAIN Append(s, x) = 1..(Len(s) + 1)
      /\ Len(s) \in Nat
      /\ Append(s, x)[Len(s) + 1] = x
      /\ \A i \in 1..Len(s) : Append(s, x)[i] = s[i]
  BY AppendProperties
<1>3. CASE x = id
  <2>1. New = Old \cup {Len(s) + 1} /\ Len(s) + 1 \notin Old
    BY <1>2, <1>3
  <2>2. QED
    <3> HIDE DEF Old, New
    <3>1. QED
      BY <1>0, <2>1, <1>1, <1>3, FS_AddElement DEF Hit
<1>4. CASE x # id
  <2>1. New = Old
    BY <1>2, <1>4
  <2>2. QED
    <3> HIDE DEF Old, New
    <3>1. QED
      BY <1>0, <2>1, <1>1, <1>4 DEF Hit
<1>5. QED
  BY <1>3, <1>4

\* A sequence without its head has one occurrence of the head less.
LEMMA TimesTail ==
    ASSUME NEW S, NEW s \in Seq(S), s # <<>>, NEW id
    PROVE  Times(s, id) = Times(Tail(s), id) + Hit(Head(s), id)
<1> DEFINE Old  == {i \in DOMAIN s : s[i] = id}
           Rest == {i \in DOMAIN s : s[i] = id /\ i # 1}
           New  == {i \in DOMAIN Tail(s) : Tail(s)[i] = id}
           f    == [i \in New |-> i + 1]
<1>0. Times(s, id) = Cardinality(Old) /\ Times(Tail(s), id) = Cardinality(New)
  BY DEF Times
<1>1. /\ IsFiniteSet(Old) /\ IsFiniteSet(New)
      /\ Tail(s) \in Seq(S)
  <2>1. Tail(s) \in Seq(S)
    BY HeadTailProperties
  <2>2. IsFiniteSet(Old)
    BY TimesType
  <2>3. IsFiniteSet(New)
    BY <2>1, TimesType
  <2>4. QED
    BY <2>1, <2>2, <2>3
<1>2. /\ DOMAIN s = 1..Len(s) /\ DOMAIN Tail(s) = 1..(Len(s) - 1)
      /\ Len(s) \in Nat \ {0}
      /\ Head(s) = s[1]
      /\ \A i \in 1..(Len(s) - 1) : Tail(s)[i] = s[i + 1]
  BY HeadTailProperties
<1>3. Cardinality(Rest) = Cardinality(New)
  <2>1. f \in [New -> Rest]
    BY <1>2
  <2>2. \A a, b \in New : f[a] = f[b] => a = b
    BY <1>2
  <2>3. \A t \in Rest : \E a \in New : f[a] = t
    <3>1. SUFFICES ASSUME NEW t \in Rest PROVE t - 1 \in New /\ f[t - 1] = t
      OBVIOUS
    <3>2. t \in 2..Len(s) /\ s[t] = id
      BY <1>2
    <3>3. t - 1 \in 1..(Len(s) - 1) /\ (t - 1) + 1 = t
      BY <3>2, <1>2
    <3>4. Tail(s)[t - 1] = s[t]
      BY <3>3, <1>2
    <3>5. QED
      BY <3>2, <3>3, <3>4, <1>2
  <2>4. QED
    <3> HIDE DEF f, New, Rest
    <3>1. QED
      BY <2>1, <2>2, <2>3, <1>1, SameSize
<1>4. Rest \subseteq Old /\ IsFiniteSet(Rest) /\ Cardinality(Rest) \in Nat
  BY <1>1, FS_Subset, FS_CardinalityType
<1>5. CASE s[1] = id
  <2>1. Old = Rest \cup {1} /\ 1 \notin Rest
    BY <1>2, <1>5
  <2>2. QED
    <3> HIDE DEF Old, New, Rest
    <3>1. Cardinality(Old) = Cardinality(Rest) + 1
      BY <2>1, <1>4, FS_AddElement
    <3>2. Hit(Head(s), id) = 1
      BY <1>2, <1>5 DEF Hit
    <3>3. QED
      BY <1>0, <1>3, <1>4, <3>1, <3>2
<1>6. CASE s[1] # id
  <2>1. Old = Rest
    BY <1>2, <1>6
  <2>2. QED
    <3> HIDE DEF Old, New, Rest
    <3>1. QED
      BY <1>0, <2>1, <1>2, <1>3, <1>4, <1>6 DEF Hit
<1>7. QED
  BY <1>5, <1>6

-----------------------------------------------------------------------------
\* The parts of the mapping: what is not fed yet, and the ids of the report.
Unfed == SubSeq(snapshotIDs, fed + 1, Len(snapshotIDs))
Reported == [i \in DOMAIN report |-> heap[report[i]]]
Received(id) == IF rpc = "append" /\ heap[got] = id THEN 1 ELSE 0

\* Until rm answers it has no result.
Waiting == pc \in Before \cup During => result = NoResult

\* How often an id occurs is a number.
LEMMA TimesNat ==
    ASSUME NEW S, NEW s \in Seq(S), NEW id
    PROVE  Times(s, id) \in Nat
<1>1. Times(s, id) \in 0..Len(s)
  BY TimesType
<1>2. \A n \in Nat : \A k \in 0..n : k \in Nat
  OBVIOUS
<1>3. QED
  BY <1>1, <1>2

\* There are as many workers at a point as some set of workers has members.
LEMMA HoldingType == \A p, id : Holding(p, id) \in Nat
  BY BusyFinite DEF Holding

\* A step that leaves who holds an id at a point as it was.
LEMMA HoldsSame ==
    ASSUME NEW p, NEW id,
           \A v \in Workers : (wpc[v] = p /\ heap[cur[v]] = id)'
                                  <=> (wpc[v] = p /\ heap[cur[v]] = id)
    PROVE  Holding(p, id)' = Holding(p, id)
<1>1. {v \in Workers : wpc[v] = p /\ heap[cur[v]] = id}'
          = {v \in Workers : wpc[v] = p /\ heap[cur[v]] = id}
  BY DEF Workers
<1>2. QED
  BY <1>1 DEF Holding, Workers

\* A worker that comes to a point with an id is one more that holds it there.
LEMMA HoldsMore ==
    ASSUME NEW p, NEW id, NEW w \in Workers, wpc[w] # p, wpc'[w] = p,
           \A v \in Workers \ {w} : (wpc[v] = p /\ heap[cur[v]] = id)'
                                        <=> (wpc[v] = p /\ heap[cur[v]] = id)
    PROVE  Holding(p, id)' = Holding(p, id) + Hit(heap[cur[w]], id)'
<1> DEFINE Old == {v \in Workers : wpc[v] = p /\ heap[cur[v]] = id}
           New == {v \in Workers : wpc'[v] = p /\ heap'[cur'[v]] = id}
<1>1. Holding(p, id) = Cardinality(Old) /\ Holding(p, id)' = Cardinality(New)
  BY DEF Holding, Workers
<1>2. IsFiniteSet(Old) /\ Cardinality(Old) \in Nat
  BY BusyFinite
<1>3. CASE heap'[cur'[w]] = id
  <2>1. New = Old \cup {w} /\ w \notin Old
    BY <1>3
  <2>2. QED
    <3> HIDE DEF Old, New
    <3>1. Cardinality(New) = Cardinality(Old) + 1
      BY <1>2, <2>1, FS_AddElement
    <3>2. QED
      BY <1>1, <1>3, <3>1 DEF Hit
<1>4. CASE heap'[cur'[w]] # id
  <2>1. New = Old
    BY <1>4
  <2>2. QED
    <3> HIDE DEF Old, New
    <3>1. QED
      BY <1>1, <1>2, <1>4, <2>1 DEF Hit
<1>5. QED
  BY <1>3, <1>4

\* A worker that leaves a point with an id is one less that holds it there.
LEMMA HoldsLess ==
    ASSUME NEW p, NEW id, NEW w \in Workers, wpc[w] = p, wpc'[w] # p,
           \A v \in Workers \ {w} : (wpc[v] = p /\ heap[cur[v]] = id)'
                                        <=> (wpc[v] = p /\ heap[cur[v]] = id)
    PROVE  Holding(p, id) = Holding(p, id)' + Hit(heap[cur[w]], id)
<1> DEFINE Old == {v \in Workers : wpc[v] = p /\ heap[cur[v]] = id}
           New == {v \in Workers : wpc'[v] = p /\ heap'[cur'[v]] = id}
<1>1. Holding(p, id) = Cardinality(Old) /\ Holding(p, id)' = Cardinality(New)
  BY DEF Holding, Workers
<1>2. IsFiniteSet(New) /\ Cardinality(New) \in Nat
  BY BusyFinite
<1>3. CASE heap[cur[w]] = id
  <2>1. Old = New \cup {w} /\ w \notin New
    BY <1>3
  <2>2. QED
    <3> HIDE DEF Old, New
    <3>1. Cardinality(Old) = Cardinality(New) + 1
      BY <1>2, <2>1, FS_AddElement
    <3>2. QED
      BY <1>1, <1>3, <3>1 DEF Hit
<1>4. CASE heap[cur[w]] # id
  <2>1. Old = New
    BY <1>4
  <2>2. QED
    <3> HIDE DEF Old, New
    <3>1. QED
      BY <1>1, <1>2, <1>4, <2>1 DEF Hit
<1>5. QED
  BY <1>3, <1>4

\* Nobody holds an id at a point where nobody is.
LEMMA NobodyHolds ==
    ASSUME NEW p, NEW id, \A w \in Workers : wpc[w] # p
    PROVE  Holding(p, id) = 0
<1>1. {w \in Workers : wpc[w] = p /\ heap[cur[w]] = id} = {}
  OBVIOUS
<1>2. QED
  BY <1>1, FS_EmptySet DEF Holding

\* The mapping is made of these counts.
LEMMA Mapping ==
    ASSUME NEW id
    PROVE  /\ Pending(id) = Times(Unfed, id) + Times(rmq, id) + Holding("delete", id)
           /\ Removed(id) = Times(Reported, id) + Received(id) + Holding("send", id)
  BY DEF Pending, Removed, Unfed, Reported, Received

\* The sequences that are counted, and the counts, have their types.
LEMMA MappingType ==
    ASSUME Inv
    PROVE  /\ Unfed \in Seq(IDs \cup {Malformed})
           /\ Reported \in Seq(IDs) /\ rmq \in Seq(IDs)
           /\ \A id : /\ Times(Unfed, id) \in Nat /\ Times(rmq, id) \in Nat
                      /\ Times(Reported, id) \in Nat
                      /\ Received(id) \in Nat
                      /\ Holding("delete", id) \in Nat
                      /\ Holding("send", id) \in Nat
                      /\ Pending(id) \in Nat /\ Removed(id) \in Nat
<1>1. /\ snapshotIDs \in Seq(IDs \cup {Malformed}) /\ fed \in Nat
      /\ rmq \in Seq(IDs) /\ heap \in Seq(IDs) /\ report \in Seq(Nat)
      /\ \A i \in DOMAIN report : report[i] \in 1..Len(heap)
  BY DEF Inv, TypeOK
<1>2. Unfed \in Seq(IDs \cup {Malformed})
  BY <1>1, SubSeqProperties DEF Unfed
<1>3. Reported \in Seq(IDs)
  <2>1. DOMAIN report = 1..Len(report) /\ Len(report) \in Nat
    BY <1>1
  <2>2. \A i \in 1..Len(report) : heap[report[i]] \in IDs
    <3>1. \A c \in 1..Len(heap) : heap[c] \in IDs
      BY <1>1
    <3>2. QED
      BY <1>1, <2>1, <3>1
  <2>3. Reported = [i \in 1..Len(report) |-> heap[report[i]]]
    BY <2>1 DEF Reported
  <2>4. QED
    BY <2>1, <2>2, <2>3
<1>4. \A id : /\ Times(Unfed, id) \in Nat /\ Times(rmq, id) \in Nat
              /\ Times(Reported, id) \in Nat
  BY <1>1, <1>2, <1>3, TimesNat
<1>5. \A id : Received(id) \in Nat
  BY DEF Received
<1>6. \A id : Holding("delete", id) \in Nat /\ Holding("send", id) \in Nat
  BY HoldingType
<1>7. \A id : Pending(id) \in Nat /\ Removed(id) \in Nat
  BY <1>4, <1>5, <1>6, Mapping
<1>8. QED
  BY <1>1, <1>2, <1>3, <1>4, <1>5, <1>6, <1>7

\* A step that changes no count and no answer stutters.
LEMMA Stutters ==
    ASSUME \A id \in IDs : Pending(id)' = Pending(id) /\ Removed(id)' = Removed(id),
           UNCHANGED <<errors, snapshots, result>>
    PROVE  UNCHANGED Abstract!vars
<1>1. UNCHANGED <<[id \in IDs |-> Pending(id)], [id \in IDs |-> Removed(id)]>>
  OBVIOUS
<1>2. UNCHANGED Answered
  BY DEF Answered, Times
<1>3. QED
  BY <1>1, <1>2 DEF Abstract!vars

\* What has not started has removed nothing.
LEMMA NothingRemoved ==
    ASSUME Inv, Unstarted
    PROVE  \A id : Removed(id) = 0 /\ Holding("delete", id) = 0
<1>1. SUFFICES ASSUME NEW id PROVE Removed(id) = 0 /\ Holding("delete", id) = 0
  OBVIOUS
<1>2. Holding("send", id) = 0 /\ Holding("delete", id) = 0
  BY NobodyHolds DEF Unstarted
<1>3. Received(id) = 0
  BY DEF Received, Unstarted
<1>4. Reported = <<>>
  BY DEF Reported, Unstarted
<1>5. QED
  BY <1>2, <1>3, <1>4, TimesEmpty, Mapping

\* With everything fed, nothing queued and nobody busy, nothing is pending.
LEMMA NothingPending ==
    ASSUME Inv, fed = Len(snapshotIDs), rmq = <<>>,
           \A w \in Workers : wpc[w] # "delete"
    PROVE  \A id : Pending(id) = 0
<1>1. SUFFICES ASSUME NEW id PROVE Pending(id) = 0
  OBVIOUS
<1>2. Holding("delete", id) = 0
  BY NobodyHolds
<1>3. Unfed = <<>>
  <2>1. Len(snapshotIDs) \in Nat
    BY DEF Inv, TypeOK
  <2>2. QED
    BY <2>1, SubSeqEmpty DEF Unfed
<1>4. QED
  BY <1>2, <1>3, TimesEmpty, Mapping

\* Before it answers, rm has no answer in the abstract either.
LEMMA NotAnswered ==
    ASSUME Waiting, pc \in Before \cup During
    PROVE  Answered = Abstract!NoAnswer
  BY DEF Waiting, Answered, NoResult, Abstract!NoAnswer

\* A step that fails before anything was started is a refusal.
LEMMA Refuses ==
    ASSUME Inv, Waiting, pc \in Before, result' = ErrorResult,
           UNCHANGED <<input, fed, worker, rpc, got, report>>
    PROVE  Abstract!Refuse
<1>1. Unstarted
  BY DEF Inv, Control
<1>2. [id \in IDs |-> Removed(id)] = Abstract!None /\ errors = 0
  BY <1>1, NothingRemoved DEF Abstract!None, Unstarted
<1>3. Answered = Abstract!NoAnswer
  BY NotAnswered
<1>4. Answered' = Abstract!Refusal
  BY DEF Answered, ErrorResult, Abstract!Refusal
<1>5. UNCHANGED <<[id \in IDs |-> Pending(id)], [id \in IDs |-> Removed(id)],
                  errors, snapshots>>
  BY DEF input, worker, Pending, Removed, Holding, Times, Workers
<1>6. QED
  BY <1>2, <1>3, <1>4, <1>5 DEF Abstract!Refuse

\* The step that returns the report is the answer.
LEMMA Answers ==
    ASSUME Inv, Waiting, pc \in Before \cup During,
           fed = Len(snapshotIDs), rmq = <<>>, rpc # "append",
           \A w \in Workers : wpc[w] \notin {"delete", "send"},
           result' = RmReport(Reported, errors),
           UNCHANGED <<input, fed, worker, rpc, got, report>>
    PROVE  Abstract!Answer
<1>1. [id \in IDs |-> Pending(id)] = Abstract!None
  BY NothingPending DEF Abstract!None
<1>2. Answered = Abstract!NoAnswer
  BY NotAnswered
<1>3. \A id \in IDs : Removed(id) = Times(Reported, id)
  <2>1. SUFFICES ASSUME NEW id \in IDs PROVE Removed(id) = Times(Reported, id)
    OBVIOUS
  <2>2. Holding("send", id) = 0
    BY NobodyHolds
  <2>3. Received(id) = 0
    BY DEF Received
  <2>4. QED
    BY <2>2, <2>3, Mapping, MappingType
<1>4. Answered' = [kind |-> "report", ids |-> [id \in IDs |-> Removed(id)],
                   errors |-> errors]
  <2>1. Answered' = [kind |-> "report",
                     ids |-> [id \in IDs |-> Times(Reported, id)],
                     errors |-> errors]
    BY DEF Answered, RmReport, Times
  <2>2. [id \in IDs |-> Times(Reported, id)] = [id \in IDs |-> Removed(id)]
    BY <1>3
  <2>3. QED
    BY <2>1, <2>2
<1>5. UNCHANGED <<[id \in IDs |-> Pending(id)], [id \in IDs |-> Removed(id)],
                  errors, snapshots>>
  BY DEF input, worker, Pending, Removed, Holding, Times, Workers
<1>6. QED
  BY <1>1, <1>2, <1>4, <1>5 DEF Abstract!Answer

\* A step that touches none of the counted variables leaves the counts.
LEMMA CountsKept ==
    ASSUME UNCHANGED <<snapshotIDs, fed, rmq, heap, wpc, cur, rpc, got, report>>
    PROVE  \A id \in IDs : Pending(id)' = Pending(id) /\ Removed(id)' = Removed(id)
  BY DEF Pending, Removed, Holding, Times, Workers

\* The initial states of rm map to initial states of RemoveEach.
LEMMA InitRefines == Init => Abstract!Init
<1> SUFFICES ASSUME Init PROVE Abstract!Init
  OBVIOUS
<1>1. Inv
  BY InitInv
<1>2. Unstarted
  BY <1>1 DEF Init, Inv, Control, Before
<1>3. Len(snapshotIDs) \in 0..MaxIDs /\ snapshotIDs \in Seq(IDs \cup {Malformed})
  <2>1. PICK m \in 0..MaxIDs : snapshotIDs \in [1..m -> IDs \cup {Malformed}]
    BY DEF Init, BoundedSeq, SeqOf
  <2>2. m \in Nat
    BY MaxIDsAssumption
  <2>3. QED
    BY <2>1, <2>2
<1>4. \A id \in IDs : Pending(id) \in 0..MaxIDs
  <2>1. SUFFICES ASSUME NEW id \in IDs PROVE Pending(id) \in 0..MaxIDs
    OBVIOUS
  <2>2. Len(Unfed) = Len(snapshotIDs) /\ Unfed \in Seq(IDs \cup {Malformed})
    <3>1. /\ Len(snapshotIDs) \in Nat
          /\ \A i \in 1..Len(snapshotIDs) : snapshotIDs[i] \in IDs \cup {Malformed}
      BY <1>3
    <3>2. Unfed = SubSeq(snapshotIDs, 1, Len(snapshotIDs))
      BY DEF Unfed, Init
    <3>3. QED
      BY <3>1, <3>2, SubSeqProperties
  <2>3. Times(Unfed, id) \in 0..Len(snapshotIDs)
    BY <2>2, TimesType
  <2>4. Pending(id) = Times(Unfed, id)
    <3>1. Holding("delete", id) = 0
      BY <1>1, <1>2, NothingRemoved
    <3>2. Times(rmq, id) = 0
      BY TimesEmpty DEF Init
    <3>3. Times(Unfed, id) \in Nat
      BY <1>1, MappingType
    <3>4. QED
      BY <3>1, <3>2, <3>3, Mapping
  <2>5. \A n \in 0..MaxIDs : \A k \in 0..n : k \in 0..MaxIDs
    BY MaxIDsAssumption
  <2>6. QED
    BY <1>3, <2>3, <2>4, <2>5
<1>5. [id \in IDs |-> Removed(id)] = Abstract!None
  BY <1>1, <1>2, NothingRemoved DEF Abstract!None
<1>6. Answered = Abstract!NoAnswer
  BY DEF Init, Answered, NoResult, Abstract!NoAnswer
<1>7. QED
  BY <1>4, <1>5, <1>6 DEF Init, Abstract!Init

\* The result stays away until rm answers.
LEMMA NextWaiting == Waiting /\ [Next]_vars => Waiting'
  BY DEF Waiting, Next, Caller, Worker, Reporter, Validate, MkStorage, OpenRepo,
         Feed, CloseRmq, WaitWorkers, Assemble, CloseStore, Receive, Exit,
         DeleteOK, DeleteFails, SendRemoved, AppendReport, ReporterExit,
         Terminated, vars, Before, During

\* The goroutine that runs rm: its feeding stutters, its results answer.
LEMMA CallerRefines ==
    ASSUME Inv, Inv', Waiting, Caller
    PROVE  [Abstract!Next]_Abstract!vars
<1>1. CASE Validate
  <2>1. pc \in Before /\ UNCHANGED <<input, fed, worker, rpc, got, report>>
    BY <1>1 DEF Validate, Before
  <2>2. CASE result' = ErrorResult
    BY <2>1, <2>2, Refuses DEF Abstract!Next
  <2>3. CASE snapshotIDs = <<>> /\ result' = RmReport(<<>>, 0)
    <3>1. Unstarted
      BY <2>1 DEF Inv, Control
    <3>2. /\ fed = Len(snapshotIDs) /\ rmq = <<>> /\ rpc # "append"
          /\ \A w \in Workers : wpc[w] \notin {"delete", "send"}
      BY <3>1, <2>3 DEF Unstarted
    <3>3. Reported = <<>> /\ errors = 0
      BY <3>1 DEF Unstarted, Reported
    <3>4. QED
      BY <2>1, <2>3, <3>2, <3>3, Answers DEF Abstract!Next
  <2>4. CASE UNCHANGED result
    BY <2>1, <2>4, CountsKept, Stutters DEF input, worker
  <2>5. QED
    BY <1>1, <2>2, <2>3, <2>4 DEF Validate
<1>2. CASE MkStorage
  <2>1. pc \in Before /\ UNCHANGED <<input, fed, worker, rpc, got, report>>
    BY <1>2 DEF MkStorage, Before
  <2>2. CASE result' = ErrorResult
    BY <2>1, <2>2, Refuses DEF Abstract!Next
  <2>3. CASE UNCHANGED result
    BY <2>1, <2>3, CountsKept, Stutters DEF input, worker
  <2>4. QED
    BY <1>2, <2>2, <2>3 DEF MkStorage
<1>3. CASE OpenRepo
  <2>1. /\ pc \in Before
        /\ UNCHANGED <<input, fed, rmq, heap, cur, snapshots, errors, got, report>>
    BY <1>3 DEF OpenRepo, Before
  <2>2. CASE result' = ErrorResult /\ UNCHANGED <<rpc, wpc>>
    BY <2>1, <2>2, Refuses DEF Abstract!Next, worker
  <2>3. CASE /\ rpc' = "recv" /\ wpc' = [w \in Workers |-> "recv"]
             /\ UNCHANGED result
    <3>1. Unstarted
      BY <2>1 DEF Inv, Control
    <3>2. SUFFICES ASSUME NEW id \in IDs
                   PROVE  Pending(id)' = Pending(id) /\ Removed(id)' = Removed(id)
      BY <2>1, <2>3, Stutters
    <3>3. \A w \in Workers : /\ wpc[w] \notin {"delete", "send"}
                             /\ wpc'[w] \notin {"delete", "send"}
      BY <2>3, <3>1 DEF Unstarted
    <3>4. /\ Holding("delete", id)' = Holding("delete", id)
          /\ Holding("send", id)' = Holding("send", id)
      BY <3>3, HoldsSame
    <3>5. Received(id)' = Received(id)
      BY <2>3, <3>1 DEF Received, Unstarted
    <3>6. QED
      BY <2>1, <3>4, <3>5 DEF Pending, Removed, Received, Times, input
  <2>4. QED
    BY <1>3, <2>2, <2>3 DEF OpenRepo
<1>4. CASE Feed
  <2>1. /\ fed < Len(snapshotIDs) /\ fed' = fed + 1
        /\ rmq' = Append(rmq, snapshotIDs[fed + 1])
        /\ UNCHANGED <<snapshotIDs, heap, wpc, cur, rpc, got, report>>
        /\ UNCHANGED <<errors, snapshots, result>>
    BY <1>4 DEF Feed, input
  <2>2. /\ snapshotIDs \in Seq(IDs \cup {Malformed}) /\ Len(snapshotIDs) \in Nat
        /\ fed \in Nat /\ ParsesOK(snapshotIDs)
    BY <1>4 DEF Inv, TypeOK, Control, Feed
  <2>3. snapshotIDs[fed + 1] \in IDs
    BY <2>1, <2>2 DEF ParsesOK
  <2>4. /\ Unfed # <<>> /\ Head(Unfed) = snapshotIDs[fed + 1]
        /\ Unfed' = Tail(Unfed)
    <3> DEFINE n == Len(snapshotIDs)
    <3>1. /\ Unfed \in Seq(IDs \cup {Malformed}) /\ Len(Unfed) = n - fed
          /\ \A i \in 1..(n - fed) : Unfed[i] = snapshotIDs[fed + i]
      <4>1. \A i \in (fed + 1)..n : snapshotIDs[i] \in IDs \cup {Malformed}
        BY <2>2
      <4>2. QED
        BY <2>1, <2>2, <4>1, SubSeqProperties DEF Unfed
    <3>2. /\ Unfed' \in Seq(IDs \cup {Malformed}) /\ Len(Unfed') = n - fed - 1
          /\ \A i \in 1..(n - fed - 1) : Unfed'[i] = snapshotIDs[fed + 1 + i]
      <4>1. \A i \in (fed + 2)..n : snapshotIDs[i] \in IDs \cup {Malformed}
        BY <2>2
      <4>2. Unfed' = SubSeq(snapshotIDs, fed + 2, n)
        BY <2>1, <2>2 DEF Unfed
      <4>3. QED
        BY <2>1, <2>2, <4>1, <4>2, SubSeqProperties
    <3>3. Unfed # <<>> /\ Head(Unfed) = snapshotIDs[fed + 1]
      BY <2>1, <2>2, <3>1
    <3>4. Len(Tail(Unfed)) = n - fed - 1 /\ Tail(Unfed) \in Seq(IDs \cup {Malformed})
      BY <3>1, <3>3, HeadTailProperties
    <3>5. \A i \in 1..(n - fed - 1) : Tail(Unfed)[i] = Unfed'[i]
      BY <2>1, <2>2, <3>1, <3>2, <3>3, <3>4, HeadTailProperties
    <3>6. QED
      BY <3>2, <3>3, <3>4, <3>5, SeqEqual
  <2>5. SUFFICES ASSUME NEW id \in IDs
                 PROVE  Pending(id)' = Pending(id) /\ Removed(id)' = Removed(id)
    BY <2>1, Stutters
  <2>6. Times(Unfed, id) = Times(Unfed', id) + Hit(snapshotIDs[fed + 1], id)
    BY <2>4, MappingType, TimesTail
  <2>7. Times(rmq', id) = Times(rmq, id) + Hit(snapshotIDs[fed + 1], id)
    BY <2>1, <2>3, MappingType, TimesAppend
  <2>8. /\ Pending(id)' = Times(Unfed', id) + Times(rmq', id) + Holding("delete", id)
        /\ Removed(id)' = Removed(id)
    BY <2>1 DEF Pending, Unfed, Removed, Holding, Times, Workers
  <2>9. /\ Times(Unfed, id) \in Nat /\ Times(rmq, id) \in Nat
        /\ Holding("delete", id) \in Nat
    BY MappingType
  <2>10. Hit(snapshotIDs[fed + 1], id) \in Nat /\ Times(Unfed', id) \in Nat
    BY <2>4, MappingType, HeadTailProperties, TimesNat DEF Hit
  <2>11. QED
    BY <2>6, <2>7, <2>8, <2>9, <2>10, Mapping
<1>5. CASE CloseRmq \/ WaitWorkers \/ CloseStore
  BY <1>5, CountsKept, Stutters DEF CloseRmq, WaitWorkers, CloseStore, input, worker
<1>6. CASE Assemble
  <2>1. /\ pc \in Before \cup During /\ pc = "drain" /\ rpc = "exit"
        /\ result' = RmReport(Reported, errors)
        /\ UNCHANGED <<input, fed, worker, rpc, got, report>>
    BY <1>6 DEF Assemble, During, Reported
  <2>2. \A w \in Workers : wpc[w] = "exit" /\ rmqClosed /\ rmq = <<>>
    BY <2>1 DEF Inv, Control
  <2>3. 1 \in Workers
    BY MaxConcurrencyAssumption DEF Workers
  <2>4. fed = Len(snapshotIDs) /\ rmq = <<>>
    BY <2>2, <2>3 DEF Inv, Control
  <2>5. QED
    BY <2>1, <2>2, <2>4, Answers DEF Abstract!Next
<1>7. QED
  BY <1>1, <1>2, <1>3, <1>4, <1>5, <1>6 DEF Caller

\* The reporter only passes on what is removed already.
LEMMA ReporterRefines ==
    ASSUME Inv, Inv', Reporter
    PROVE  UNCHANGED Abstract!vars
<1>1. SUFFICES ASSUME NEW id \in IDs
               PROVE  Pending(id)' = Pending(id) /\ Removed(id)' = Removed(id)
  BY Stutters DEF Reporter, AppendReport, ReporterExit, worker
<1>2. /\ UNCHANGED <<snapshotIDs, fed, rmq, heap, wpc, cur>>
      /\ Pending(id)' = Pending(id)
      /\ Holding("send", id)' = Holding("send", id)
  BY DEF Reporter, AppendReport, ReporterExit, input, worker, Pending, Holding,
         Times, Workers
<1>3. CASE AppendReport
  <2>1. /\ rpc = "append" /\ rpc' = "recv" /\ report' = Append(report, got)
        /\ got \in 1..Len(heap)
    BY <1>3 DEF AppendReport, Inv, InFlight, TypeOK, NoCell
  <2>2. report \in Seq(Nat) /\ heap \in Seq(IDs) /\ heap[got] \in IDs /\ got \in Nat
    BY <2>1 DEF Inv, TypeOK
  <2>3. Reported' = Append(Reported, heap[got])
    <3> DEFINE n == Len(report)
    <3>1. /\ n \in Nat /\ DOMAIN report = 1..n
          /\ DOMAIN report' = 1..(n + 1) /\ report'[n + 1] = got
          /\ \A i \in 1..n : report'[i] = report[i]
      BY <2>1, <2>2, AppendProperties
    <3>2. Reported' = [i \in 1..(n + 1) |-> heap[report'[i]]]
      BY <1>2, <3>1 DEF Reported
    <3>3. Reported \in Seq(IDs) /\ Len(Reported) = n /\ Reported = [i \in 1..n |-> heap[report[i]]]
      BY <3>1, MappingType DEF Reported
    <3>4. /\ Append(Reported, heap[got]) \in Seq(IDs)
          /\ Len(Append(Reported, heap[got])) = n + 1
          /\ \A i \in 1..n : Append(Reported, heap[got])[i] = Reported[i]
          /\ Append(Reported, heap[got])[n + 1] = heap[got]
      BY <2>2, <3>1, <3>3, AppendProperties
    <3>5. Reported' \in Seq(IDs)
      <4>1. \A i \in 1..n : heap[report[i]] \in IDs
        BY <3>1, <3>3
      <4>2. \A i \in 1..(n + 1) : heap[report'[i]] \in IDs
        BY <2>2, <3>1, <4>1
      <4>3. QED
        BY <3>1, <3>2, <4>2
    <3>6. \A i \in 1..(n + 1) : Reported'[i] = Append(Reported, heap[got])[i]
      BY <3>1, <3>2, <3>3, <3>4
    <3>7. Len(Reported') = n + 1
      BY <3>1, <3>2
    <3>8. QED
      BY <3>4, <3>5, <3>6, <3>7, SeqEqual
  <2>4. Times(Reported', id) = Times(Reported, id) + Hit(heap[got], id)
    BY <2>2, <2>3, MappingType, TimesAppend
  <2>5. Received(id) = Hit(heap[got], id) /\ Received(id)' = 0
    BY <2>1 DEF Received, Hit
  <2>6. Removed(id)' = Times(Reported', id) + Received(id)' + Holding("send", id)
    BY <1>2 DEF Removed, Reported, Received, Times
  <2>7. /\ Times(Reported, id) \in Nat /\ Received(id) \in Nat
        /\ Holding("send", id) \in Nat
    BY MappingType
  <2>8. QED
    BY <1>2, <2>4, <2>5, <2>6, <2>7, Mapping
<1>4. CASE ReporterExit
  BY <1>2, <1>4 DEF ReporterExit, Removed, Times
<1>5. QED
  BY <1>3, <1>4 DEF Reporter

\* The workers: a delete decides on one pending id, all else stutters.
LEMMA WorkerRefines ==
    ASSUME Inv, Inv', Waiting, NEW w \in Workers, Worker(w)
    PROVE  [Abstract!Next]_Abstract!vars
<1>1. /\ wpc \in [Workers -> {"none", "recv", "delete", "send", "exit"}]
      /\ cur \in [Workers -> 0..Len(heap)]
      /\ heap \in Seq(IDs) /\ Len(heap) \in Nat
      /\ \A v \in Workers : wpc[v] \in {"delete", "send"} => cur[v] \in 1..Len(heap)
  BY DEF Inv, TypeOK, InFlight, Busy, NoCell
<1>2. CASE Receive(w)
  <2>1. /\ wpc[w] = "recv" /\ rmq # <<>> /\ heap' = Append(heap, Head(rmq))
        /\ cur' = [cur EXCEPT ![w] = Len(heap) + 1] /\ rmq' = Tail(rmq)
        /\ wpc' = [wpc EXCEPT ![w] = "delete"]
        /\ UNCHANGED <<snapshotIDs, fed, rpc, got, report>>
        /\ UNCHANGED <<errors, snapshots, result>>
    BY <1>2 DEF Receive, input
  <2>2. rmq \in Seq(IDs) /\ Head(rmq) \in IDs
    BY <2>1, HeadTailProperties DEF Inv, TypeOK
  <2>3. /\ \A c \in 1..Len(heap) : heap'[c] = heap[c]
        /\ heap'[Len(heap) + 1] = Head(rmq)
    BY <1>1, <2>1, <2>2, AppendProperties
  <2>4. SUFFICES ASSUME NEW id \in IDs
                 PROVE  Pending(id)' = Pending(id) /\ Removed(id)' = Removed(id)
    BY <2>1, Stutters
  <2>5. Times(rmq, id) = Times(rmq', id) + Hit(Head(rmq), id)
    BY <2>1, <2>2, TimesTail
  <2>6. Holding("delete", id)' = Holding("delete", id) + Hit(Head(rmq), id)
    <3>1. /\ wpc[w] # "delete" /\ wpc'[w] = "delete"
          /\ heap'[cur'[w]] = Head(rmq)
      BY <1>1, <2>1, <2>3
    <3>2. \A v \in Workers \ {w} : (wpc[v] = "delete" /\ heap[cur[v]] = id)'
                                       <=> (wpc[v] = "delete" /\ heap[cur[v]] = id)
      BY <1>1, <2>1, <2>3
    <3>3. Holding("delete", id)' = Holding("delete", id) + Hit(heap[cur[w]], id)'
      BY <3>1, <3>2, HoldsMore
    <3>4. QED
      BY <3>1, <3>3 DEF Hit
  <2>7. Holding("send", id)' = Holding("send", id)
    <3>1. \A v \in Workers : (wpc[v] = "send" /\ heap[cur[v]] = id)'
                                 <=> (wpc[v] = "send" /\ heap[cur[v]] = id)
      BY <1>1, <2>1, <2>3
    <3>2. QED
      BY <3>1, HoldsSame
  <2>8. Reported' = Reported
    <3>1. \A i \in DOMAIN report : heap'[report[i]] = heap[report[i]]
      BY <2>3 DEF Inv, TypeOK
    <3>2. QED
      BY <2>1, <3>1 DEF Reported
  <2>9. Received(id)' = Received(id)
    <3>1. rpc = "append" => got \in 1..Len(heap)
      BY DEF Inv, InFlight, TypeOK, NoCell
    <3>2. QED
      BY <2>1, <2>3, <3>1 DEF Received
  <2>10. Removed(id)' = Removed(id)
    BY <2>7, <2>8, <2>9 DEF Removed, Reported, Received, Times
  <2>11. Pending(id)' = Times(Unfed, id) + Times(rmq', id) + Holding("delete", id)'
    BY <2>1 DEF Pending, Unfed, Times
  <2>12. /\ Times(Unfed, id) \in Nat /\ Times(rmq, id) \in Nat
         /\ Holding("delete", id) \in Nat
    BY MappingType
  <2>13. Hit(Head(rmq), id) \in Nat /\ Times(rmq', id) \in Nat
    BY <2>1, <2>2, HeadTailProperties, TimesNat DEF Hit
  <2>14. QED
    BY <2>5, <2>6, <2>10, <2>11, <2>12, <2>13, Mapping
<1>3. CASE Exit(w)
  <2>1. /\ wpc[w] = "recv" /\ wpc' = [wpc EXCEPT ![w] = "exit"]
        /\ UNCHANGED <<snapshotIDs, fed, rmq, heap, cur, rpc, got, report>>
        /\ UNCHANGED <<errors, snapshots, result>>
    BY <1>3 DEF Exit, input
  <2>2. SUFFICES ASSUME NEW id \in IDs
                 PROVE  Pending(id)' = Pending(id) /\ Removed(id)' = Removed(id)
    BY <2>1, Stutters
  <2>3. \A p \in {"delete", "send"} : \A v \in Workers :
            (wpc[v] = p /\ heap[cur[v]] = id)' <=> (wpc[v] = p /\ heap[cur[v]] = id)
    BY <1>1, <2>1
  <2>4. /\ Holding("delete", id)' = Holding("delete", id)
        /\ Holding("send", id)' = Holding("send", id)
    BY <2>3, HoldsSame
  <2>5. QED
    BY <2>1, <2>4 DEF Pending, Removed, Times
<1>4. CASE DeleteOK(w) \/ DeleteFails(w)
  <2> DEFINE x == heap[cur[w]]
  <2>1. /\ wpc[w] = "delete"
        /\ wpc' = [wpc EXCEPT ![w] = wpc'[w]] /\ wpc'[w] \in {"send", "recv"}
        /\ UNCHANGED <<snapshotIDs, fed, rmq, heap, cur, rpc, got, report>>
        /\ UNCHANGED <<pc, result>>
    BY <1>1, <1>4 DEF DeleteOK, DeleteFails, input
  <2>2. x \in IDs
    BY <1>1, <2>1
  <2>3. Answered = Abstract!NoAnswer /\ Answered' = Abstract!NoAnswer
    <3>1. pc \in Before \cup During
      BY <2>1 DEF Inv, Control, TypeOK, Unstarted, Ended, Before, During, After
    <3>2. Answered' = Answered
      BY <2>1 DEF Answered, Times
    <3>3. QED
      BY <3>1, <3>2, NotAnswered
  <2>4. \A id \in IDs : /\ Pending(id) = Pending(id)' + Hit(x, id)
                        /\ Pending(id)' \in Nat
    <3>1. SUFFICES ASSUME NEW id \in IDs
                   PROVE  /\ Pending(id) = Pending(id)' + Hit(x, id)
                          /\ Pending(id)' \in Nat
      OBVIOUS
    <3>2. \A v \in Workers \ {w} : (wpc[v] = "delete" /\ heap[cur[v]] = id)'
                                       <=> (wpc[v] = "delete" /\ heap[cur[v]] = id)
      BY <1>1, <2>1
    <3>3. Holding("delete", id) = Holding("delete", id)' + Hit(x, id)
      BY <2>1, <3>2, HoldsLess
    <3>4. Pending(id)' = Times(Unfed, id) + Times(rmq, id) + Holding("delete", id)'
      BY <2>1 DEF Pending, Unfed, Times
    <3>5. /\ Times(Unfed, id) \in Nat /\ Times(rmq, id) \in Nat
          /\ Hit(x, id) \in Nat
      BY MappingType DEF Hit
    <3>6. Holding("delete", id)' \in Nat
      BY BusyFinite DEF Holding, Workers
    <3>7. QED
      BY <3>3, <3>4, <3>5, <3>6, Mapping
  <2>5. /\ [id \in IDs |-> Pending(id)][x] > 0
        /\ [id \in IDs |-> Pending(id)]'
               = [[id \in IDs |-> Pending(id)] EXCEPT ![x] = @ - 1]
    BY <2>2, <2>4 DEF Hit
  <2>6. Abstract!Take(x)
    BY <2>3, <2>5 DEF Abstract!Take
  <2>7. \A id \in IDs : /\ Times(Reported, id) \in Nat /\ Received(id) \in Nat
                        /\ Holding("send", id) \in Nat
                        /\ Removed(id)' = Times(Reported, id) + Received(id)
                                              + Holding("send", id)'
    BY <2>1, MappingType DEF Removed, Reported, Received, Times
  <2>8. CASE DeleteOK(w)
    <3>1. /\ wpc'[w] = "send" /\ errors' = errors /\ snapshots' = snapshots \ {x}
      BY <1>1, <2>8 DEF DeleteOK
    <3>2. \A id \in IDs : Removed(id)' = Removed(id) + Hit(x, id)
      <4>1. SUFFICES ASSUME NEW id \in IDs PROVE Removed(id)' = Removed(id) + Hit(x, id)
        OBVIOUS
      <4>2. \A v \in Workers \ {w} : (wpc[v] = "send" /\ heap[cur[v]] = id)'
                                         <=> (wpc[v] = "send" /\ heap[cur[v]] = id)
        BY <1>1, <2>1
      <4>3. Holding("send", id)' = Holding("send", id) + Hit(heap[cur[w]], id)'
        BY <2>1, <3>1, <4>2, HoldsMore
      <4>4. Hit(heap[cur[w]], id)' = Hit(x, id) /\ Hit(x, id) \in Nat
        BY <2>1 DEF Hit
      <4>5. QED
        BY <2>7, <4>3, <4>4, Mapping
    <3>3. [id \in IDs |-> Removed(id)]'
              = [[id \in IDs |-> Removed(id)] EXCEPT ![x] = @ + 1]
      <4>1. \A id \in IDs : Removed(id) \in Nat
        BY MappingType
      <4>2. QED
        BY <2>2, <3>2, <4>1 DEF Hit
    <3>4. Abstract!Remove(x)
      BY <2>3, <2>6, <3>1, <3>3 DEF Abstract!Remove
    <3>5. QED
      BY <2>2, <3>4 DEF Abstract!Next
  <2>9. CASE DeleteFails(w)
    <3>1. /\ wpc'[w] = "recv" /\ errors' = errors + 1
          /\ snapshots' \in {snapshots, snapshots \ {heap[cur[w]]}}
      BY <1>1, <2>9 DEF DeleteFails
    <3>2. \A id \in IDs : Removed(id)' = Removed(id)
      <4>1. SUFFICES ASSUME NEW id \in IDs PROVE Removed(id)' = Removed(id)
        OBVIOUS
      <4>2. \A v \in Workers : (wpc[v] = "send" /\ heap[cur[v]] = id)'
                                   <=> (wpc[v] = "send" /\ heap[cur[v]] = id)
        BY <1>1, <2>1, <3>1
      <4>3. Holding("send", id)' = Holding("send", id)
        BY <4>2, HoldsSame
      <4>4. QED
        BY <2>7, <4>3, Mapping
    <3>3. UNCHANGED [id \in IDs |-> Removed(id)]
      BY <3>2
    <3>4. Abstract!Fail(x)
      BY <2>3, <2>6, <3>1, <3>3 DEF Abstract!Fail
    <3>5. QED
      BY <2>2, <3>4 DEF Abstract!Next
  <2>10. QED
    BY <1>4, <2>8, <2>9
<1>5. CASE SendRemoved(w)
  <2>1. /\ wpc[w] = "send" /\ rpc = "recv" /\ got' = cur[w] /\ rpc' = "append"
        /\ wpc' = [wpc EXCEPT ![w] = "recv"]
        /\ UNCHANGED <<snapshotIDs, fed, rmq, heap, cur, report>>
        /\ UNCHANGED <<errors, snapshots, result>>
    BY <1>5 DEF SendRemoved, input
  <2>2. SUFFICES ASSUME NEW id \in IDs
                 PROVE  Pending(id)' = Pending(id) /\ Removed(id)' = Removed(id)
    BY <2>1, Stutters
  <2>3. Holding("delete", id)' = Holding("delete", id)
    <3>1. \A v \in Workers : (wpc[v] = "delete" /\ heap[cur[v]] = id)'
                                 <=> (wpc[v] = "delete" /\ heap[cur[v]] = id)
      BY <1>1, <2>1
    <3>2. QED
      BY <3>1, HoldsSame
  <2>4. Holding("send", id) = Holding("send", id)' + Hit(heap[cur[w]], id)
    <3>1. \A v \in Workers \ {w} : (wpc[v] = "send" /\ heap[cur[v]] = id)'
                                       <=> (wpc[v] = "send" /\ heap[cur[v]] = id)
      BY <1>1, <2>1
    <3>2. wpc[w] = "send" /\ wpc'[w] # "send"
      BY <1>1, <2>1
    <3>3. QED
      BY <3>1, <3>2, HoldsLess
  <2>5. Received(id) = 0 /\ Received(id)' = Hit(heap[cur[w]], id)
    BY <2>1 DEF Received, Hit
  <2>6. Pending(id)' = Pending(id)
    BY <2>1, <2>3 DEF Pending, Times
  <2>7. Removed(id)' = Times(Reported, id) + Received(id)' + Holding("send", id)'
    BY <2>1 DEF Removed, Reported, Received, Times
  <2>8. Times(Reported, id) \in Nat /\ Hit(heap[cur[w]], id) \in Nat
    BY MappingType DEF Hit
  <2>9. Holding("send", id)' \in Nat
    BY BusyFinite DEF Holding, Workers
  <2>10. QED
    BY <2>4, <2>5, <2>6, <2>7, <2>8, <2>9, Mapping
<1>6. QED
  BY <1>2, <1>3, <1>4, <1>5 DEF Worker

(***************************************************************************)
(* The worker pool implements the sequential rm, for any number of workers *)
(* and ids: under every interleaving the store and the answer change as if *)
(* the ids were taken one at a time (rm.go:60-104). A delete is the step   *)
(* that takes an id, the returned report the step that answers, and every  *)
(* other step of the pool stutters.                                        *)
(***************************************************************************)
THEOREM Refinement == Spec => RefinesRemoveEach
<1>1. Init => Abstract!Init /\ Waiting
  BY InitRefines DEF Init, Waiting
<1>2. Inv /\ Inv' /\ Waiting /\ [Next]_vars => [Abstract!Next]_Abstract!vars
  <2>1. SUFFICES ASSUME Inv, Inv', Waiting, [Next]_vars
                 PROVE  [Abstract!Next]_Abstract!vars
    OBVIOUS
  <2>2. CASE UNCHANGED vars
    BY <2>2, CountsKept, Stutters DEF vars, input, worker
  <2>3. CASE Terminated
    BY <2>3, CountsKept, Stutters DEF Terminated, vars, input, worker
  <2>4. QED
    BY <2>1, <2>2, <2>3, CallerRefines, WorkerRefines, ReporterRefines DEF Next
<1>3. QED
  BY <1>1, <1>2, Invariance, NextWaiting, PTL
  DEF Spec, RefinesRemoveEach, Abstract!Spec
=============================================================================
