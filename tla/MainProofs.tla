----------------------------- MODULE MainProofs -----------------------------
(***************************************************************************)
(* Proofs about the executor, for any operations, events and bounds: its   *)
(* types, and that its stdout implements ReplyStream. The refinement needs *)
(* to know which goroutines can still write when the terminal reply is     *)
(* sent. Joined says that the sampler and CancelOnSignal are gone once     *)
(* wg.Wait returned, and Unanswered that no report or terminal reply was   *)
(* written before the step of Main that writes it.                         *)
(***************************************************************************)
EXTENDS Main, SequenceTheorems, TLAPS

Unspawned == {"setup", "decode", "listen", "spawn"}
Alone == {"closebus", "drain", "verdict", "fail", "report", "succeed"}
Open == Unspawned \cup {"dispatch", "stop", "join", "closebus", "drain",
                        "verdict", "fail", "report"}

Joined ==
    /\ pc \in Unspawned => spc = "none" /\ cpc = "none"
    /\ pc \in Alone => spc = "done" /\ cpc = "done"

Unanswered ==
    /\ pc \in Open => RS!LastReply \notin RS!TerminalReplies \cup {"report"}
    /\ pc = "succeed" => RS!LastReply \notin RS!TerminalReplies

Inv == TypeOK /\ Joined /\ Unanswered

Step == MainStep \/ Operation \/ Listener \/ Sampler \/ Signal \/ CancelOnSignal

\* Sending appends one reply, which is then the last one.
LEMMA SendIsLast ==
    ASSUME TypeOK, NEW t \in RS!ReplyTypes, send(t)
    PROVE  replies' \in Seq(RS!ReplyTypes) /\ RS!LastReply' = t
<1>1. /\ replies' \in Seq(RS!ReplyTypes) /\ Len(replies') = Len(replies) + 1
      /\ replies'[Len(replies) + 1] = t /\ Len(replies) \in Nat
  BY DEF TypeOK, send
<1>2. replies' # <<>>
  BY <1>1
<1>3. QED
  BY <1>1, <1>2 DEF RS!LastReply

\* Steps that send nothing leave the last reply alone.
LEMMA QuietIsLast ==
    ASSUME replies' = replies
    PROVE  RS!LastReply' = RS!LastReply
  BY DEF RS!LastReply

\* The initial states satisfy the invariant.
LEMMA InitInv == Init => Inv
<1> SUFFICES ASSUME Init PROVE Inv
  OBVIOUS
<1>1. TypeOK
  <2>1. bus \in Seq(Events) /\ Len(bus) = 0 /\ emitted \in Seq(Events)
        /\ replies \in Seq(RS!ReplyTypes)
    BY DEF Init
  <2>2. /\ stateStop \in BOOLEAN /\ notified \in BOOLEAN
        /\ cancelled \in BOOLEAN /\ opErr \in BOOLEAN
    BY DEF Init
  <2>3. ticks \in 0..MaxTicks /\ sigChan \in 0..1 /\ signals \in 0..MaxSignals
        /\ messages \in 0..MaxMessages /\ Len(bus) <= BusCap /\ exitCode \in 0..2
    BY <2>1, BoundsAssumption DEF Init
  <2>4. QED
    BY <2>1, <2>2, <2>3 DEF Init, TypeOK
<1>2. Joined
  BY DEF Init, Joined, Unspawned, Alone
<1>3. Unanswered
  BY DEF Init, Unanswered, RS!LastReply, RS!TerminalReplies
<1>4. QED
  BY <1>1, <1>2, <1>3 DEF Inv

\* Every step keeps the types.
LEMMA NextTypeOK == ASSUME TypeOK, Step PROVE TypeOK'
<1> USE DEF listener, sampler, signaller, operation, Goto, Exit, Idle, Running
<1>1. CASE Setup
  BY <1>1, BoundsAssumption DEF Setup, TypeOK
<1>2. CASE Decode
  BY <1>2, BoundsAssumption DEF Decode, TypeOK
<1>3. CASE Run
  BY <1>3, BoundsAssumption DEF Run, TypeOK
<1>4. CASE Spawn
  BY <1>4, BoundsAssumption DEF Spawn, TypeOK
<1>5. CASE CloseStateStop
  BY <1>5, BoundsAssumption DEF CloseStateStop, TypeOK
<1>6. CASE Join
  BY <1>6, BoundsAssumption DEF Join, TypeOK
<1>7. CASE CloseBus
  BY <1>7, BoundsAssumption DEF CloseBus, TypeOK
<1>8. CASE Wait
  BY <1>8, BoundsAssumption DEF Wait, TypeOK
<1>9. CASE Verdict
  BY <1>9, BoundsAssumption DEF Verdict, TypeOK
<1>10. CASE SendFailure
  <2>1. replies' \in Seq(RS!ReplyTypes)
    BY <1>10, SendIsLast
    DEF SendFailure, TypeOK, RS!ReplyTypes, RS!LiveReplies, RS!TerminalReplies
  <2>2. QED
    BY <1>10, <2>1, BoundsAssumption DEF SendFailure, TypeOK
<1>11. CASE SendReport
  <2>1. replies' \in Seq(RS!ReplyTypes)
    BY <1>11, SendIsLast
    DEF SendReport, TypeOK, RS!ReplyTypes, RS!LiveReplies, RS!TerminalReplies
  <2>2. QED
    BY <1>11, <2>1, BoundsAssumption DEF SendReport, TypeOK
<1>12. CASE SendSuccess
  <2>1. replies' \in Seq(RS!ReplyTypes)
    BY <1>12, SendIsLast
    DEF SendSuccess, TypeOK, RS!ReplyTypes, RS!LiveReplies, RS!TerminalReplies
  <2>2. QED
    BY <1>12, <2>1, BoundsAssumption DEF SendSuccess, TypeOK
<1>13. CASE Emit
  BY <1>13, BoundsAssumption DEF Emit, TypeOK
<1>14. CASE Push
  BY <1>14, BoundsAssumption DEF Push, TypeOK
<1>15. CASE SendMessage
  <2>1. replies' \in Seq(RS!ReplyTypes)
    BY <1>15, SendIsLast
    DEF SendMessage, TypeOK, RS!ReplyTypes, RS!LiveReplies, RS!TerminalReplies
  <2>2. QED
    BY <1>15, <2>1, BoundsAssumption DEF SendMessage, TypeOK
<1>16. CASE dispatch
  <2>1. \A r \in Results(op) :
           r[1] \in BOOLEAN /\ r[2] \in Reports({0, 1}) \cup {NoReport}
    <3>1. Reports({0}) \subseteq Reports({0, 1})
      BY DEF Reports
    <3>2. \A r \in Results(op) :
             \/ r = <<TRUE, NoReport>> \/ r = <<FALSE, NoReport>>
             \/ r \in BOOLEAN \X Reports({0, 1})
      BY <3>1 DEF Results
    <3>3. ASSUME NEW r \in Results(op)
          PROVE  r[1] \in BOOLEAN /\ r[2] \in Reports({0, 1}) \cup {NoReport}
      <4>1. CASE r = <<TRUE, NoReport>>
        BY <4>1
      <4>2. CASE r = <<FALSE, NoReport>>
        BY <4>2
      <4>3. CASE r \in BOOLEAN \X Reports({0, 1})
        BY <4>3
      <4>4. QED
        BY <3>2, <4>1, <4>2, <4>3
    <3>4. QED
      BY <3>3
  <2>2. opErr' \in BOOLEAN /\ report' \in Reports({0, 1}) \cup {NoReport}
    BY <1>16, <2>1 DEF dispatch
  <2>3. QED
    BY <1>16, <2>2, BoundsAssumption DEF dispatch, TypeOK
<1>17. CASE HandleEvent
  BY <1>17, BoundsAssumption DEF HandleEvent, TypeOK
<1>18. CASE ListenerDone
  BY <1>18, BoundsAssumption DEF ListenerDone, TypeOK
<1>19. CASE SamplerTick
  BY <1>19, BoundsAssumption DEF SamplerTick, TypeOK
<1>20. CASE SamplerStop
  BY <1>20, BoundsAssumption DEF SamplerStop, TypeOK
<1>21. CASE SamplerEmit
  <2>1. replies' \in Seq(RS!ReplyTypes)
    BY <1>21, SendIsLast
    DEF SamplerEmit, TypeOK, RS!ReplyTypes, RS!LiveReplies, RS!TerminalReplies
  <2>2. QED
    BY <1>21, <2>1, BoundsAssumption DEF SamplerEmit, TypeOK
<1>22. CASE Signal
  BY <1>22, BoundsAssumption DEF Signal, TypeOK
<1>23. CASE Notify
  BY <1>23, BoundsAssumption DEF Notify, TypeOK
<1>24. CASE CancelOnSignalStop
  BY <1>24, BoundsAssumption DEF CancelOnSignalStop, TypeOK
<1>25. CASE AnnounceSignal
  <2>1. replies' \in Seq(RS!ReplyTypes)
    BY <1>25, SendIsLast
    DEF AnnounceSignal, TypeOK, RS!ReplyTypes, RS!LiveReplies, RS!TerminalReplies
  <2>2. QED
    BY <1>25, <2>1, BoundsAssumption DEF AnnounceSignal, TypeOK
<1>26. CASE Cancel
  BY <1>26, BoundsAssumption DEF Cancel, TypeOK
<1>27. QED
  BY <1>1, <1>2, <1>3, <1>4, <1>5, <1>6, <1>7, <1>8, <1>9, <1>10, <1>11, <1>12,
     <1>13, <1>14, <1>15, <1>16, <1>17, <1>18, <1>19, <1>20, <1>21, <1>22, <1>23,
     <1>24, <1>25, <1>26
  DEF Step, MainStep, Operation, Listener, Sampler, CancelOnSignal

\* Every step keeps who can still write, and what was not yet written.
LEMMA NextControl ==
    ASSUME TypeOK, Joined, Unanswered, Step
    PROVE  Joined' /\ Unanswered'
<1> USE DEF listener, sampler, signaller, operation, Goto, Exit, Idle, Running
<1>1. CASE Setup
  BY <1>1, QuietIsLast DEF Setup, Joined, Unanswered, Unspawned, Alone, Open, TypeOK
<1>2. CASE Decode
  BY <1>2, QuietIsLast DEF Decode, Joined, Unanswered, Unspawned, Alone, Open, TypeOK
<1>3. CASE Run
  BY <1>3, QuietIsLast DEF Run, Joined, Unanswered, Unspawned, Alone, Open, TypeOK
<1>4. CASE Spawn
  BY <1>4, QuietIsLast DEF Spawn, Joined, Unanswered, Unspawned, Alone, Open, TypeOK
<1>5. CASE CloseStateStop
  BY <1>5, QuietIsLast
  DEF CloseStateStop, Joined, Unanswered, Unspawned, Alone, Open, TypeOK
<1>6. CASE Join
  BY <1>6, QuietIsLast DEF Join, Joined, Unanswered, Unspawned, Alone, Open, TypeOK
<1>7. CASE CloseBus
  BY <1>7, QuietIsLast
  DEF CloseBus, Joined, Unanswered, Unspawned, Alone, Open, TypeOK
<1>8. CASE Wait
  BY <1>8, QuietIsLast DEF Wait, Joined, Unanswered, Unspawned, Alone, Open, TypeOK
<1>9. CASE Verdict
  BY <1>9, QuietIsLast DEF Verdict, Joined, Unanswered, Unspawned, Alone, Open, TypeOK
<1>10. CASE SendFailure
  BY <1>10, SendIsLast
  DEF SendFailure, Joined, Unanswered, Unspawned, Alone, Open, TypeOK,
      RS!TerminalReplies, RS!LiveReplies, RS!ReplyTypes
<1>11. CASE SendReport
  BY <1>11, SendIsLast, QuietIsLast
  DEF SendReport, Joined, Unanswered, Unspawned, Alone, Open, TypeOK,
      RS!TerminalReplies, RS!LiveReplies, RS!ReplyTypes
<1>12. CASE SendSuccess
  BY <1>12, SendIsLast
  DEF SendSuccess, Joined, Unanswered, Unspawned, Alone, Open, TypeOK,
      RS!TerminalReplies, RS!LiveReplies, RS!ReplyTypes
<1>13. CASE Emit
  BY <1>13, QuietIsLast DEF Emit, Joined, Unanswered, Unspawned, Alone, Open, TypeOK
<1>14. CASE Push
  BY <1>14, QuietIsLast DEF Push, Joined, Unanswered, Unspawned, Alone, Open, TypeOK
<1>15. CASE SendMessage
  BY <1>15, SendIsLast
  DEF SendMessage, Joined, Unanswered, Unspawned, Alone, Open, TypeOK,
      RS!TerminalReplies, RS!LiveReplies, RS!ReplyTypes
<1>16. CASE dispatch
  BY <1>16, QuietIsLast
  DEF dispatch, Joined, Unanswered, Unspawned, Alone, Open, TypeOK
<1>17. CASE HandleEvent
  BY <1>17, QuietIsLast
  DEF HandleEvent, Joined, Unanswered, Unspawned, Alone, Open, TypeOK
<1>18. CASE ListenerDone
  BY <1>18, QuietIsLast
  DEF ListenerDone, Joined, Unanswered, Unspawned, Alone, Open, TypeOK
<1>19. CASE SamplerTick
  BY <1>19, QuietIsLast
  DEF SamplerTick, Joined, Unanswered, Unspawned, Alone, Open, TypeOK
<1>20. CASE SamplerStop
  BY <1>20, QuietIsLast
  DEF SamplerStop, Joined, Unanswered, Unspawned, Alone, Open, TypeOK
<1>21. CASE SamplerEmit
  BY <1>21, SendIsLast, QuietIsLast
  DEF SamplerEmit, Joined, Unanswered, Unspawned, Alone, Open, TypeOK,
      RS!TerminalReplies, RS!LiveReplies, RS!ReplyTypes
<1>22. CASE Signal
  BY <1>22, QuietIsLast DEF Signal, Joined, Unanswered, Unspawned, Alone, Open, TypeOK
<1>23. CASE Notify
  BY <1>23, QuietIsLast DEF Notify, Joined, Unanswered, Unspawned, Alone, Open, TypeOK
<1>24. CASE CancelOnSignalStop
  BY <1>24, QuietIsLast
  DEF CancelOnSignalStop, Joined, Unanswered, Unspawned, Alone, Open, TypeOK
<1>25. CASE AnnounceSignal
  BY <1>25, SendIsLast
  DEF AnnounceSignal, Joined, Unanswered, Unspawned, Alone, Open, TypeOK,
      RS!TerminalReplies, RS!LiveReplies, RS!ReplyTypes
<1>26. CASE Cancel
  BY <1>26, QuietIsLast DEF Cancel, Joined, Unanswered, Unspawned, Alone, Open, TypeOK
<1>27. QED
  BY <1>1, <1>2, <1>3, <1>4, <1>5, <1>6, <1>7, <1>8, <1>9, <1>10, <1>11, <1>12,
     <1>13, <1>14, <1>15, <1>16, <1>17, <1>18, <1>19, <1>20, <1>21, <1>22, <1>23,
     <1>24, <1>25, <1>26
  DEF Step, MainStep, Operation, Listener, Sampler, CancelOnSignal

\* The invariant is inductive.
LEMMA NextInv == Inv /\ [Next]_vars => Inv'
<1> SUFFICES ASSUME Inv, [Next]_vars PROVE Inv'
  OBVIOUS
<1>1. CASE Step
  BY <1>1, NextTypeOK, NextControl DEF Inv
<1>2. CASE UNCHANGED vars
  <2> USE <1>2 DEF vars, listener, sampler, signaller, operation
  <2>1. TypeOK'
    BY DEF Inv, TypeOK
  <2>2. Joined' /\ Unanswered'
    BY QuietIsLast DEF Inv, Joined, Unanswered
  <2>3. QED
    BY <2>1, <2>2 DEF Inv
<1>3. QED
  BY <1>1, <1>2 DEF Next, Step, Terminated

\* The invariant holds in every reachable state.
LEMMA Invariance == Spec => []Inv
  BY InitInv, NextInv, PTL DEF Spec

\* Main and its goroutines keep their types, for any bounds.
THEOREM TypeCorrect == Spec => []TypeOK
<1>1. Inv => TypeOK
  BY DEF Inv
<1>2. QED
  BY <1>1, Invariance, PTL

\* Every step of the executor is a step of the protocol, or writes nothing.
LEMMA StepRefines == Inv /\ [Next]_vars => [RS!Next]_replies
<1> SUFFICES ASSUME Inv, Next, replies' # replies PROVE RS!Next
  BY DEF vars
<1> USE DEF Inv, listener, sampler, signaller, operation, Goto, Exit, Idle, Running
<1>1. CASE SendFailure
  BY <1>1 DEF SendFailure, send, Joined, Unanswered, Unspawned, Alone, Open, TypeOK,
     RS!Next, RS!Failure, RS!LiveReplies
<1>2. CASE SendReport
  BY <1>2 DEF SendReport, send, Joined, Unanswered, Unspawned, Alone, Open, TypeOK,
     RS!Next, RS!Report, RS!LiveReplies
<1>3. CASE SendSuccess
  BY <1>3 DEF SendSuccess, send, Joined, Unanswered, Unspawned, Alone, Open, TypeOK,
     RS!Next, RS!Success, RS!LiveReplies
<1>4. CASE SendMessage
  BY <1>4 DEF SendMessage, send, Joined, Unanswered, Unspawned, Alone, Open, TypeOK,
     RS!Next, RS!Live, RS!LiveReplies
<1>5. CASE SamplerEmit
  BY <1>5 DEF SamplerEmit, send, Joined, Unanswered, Unspawned, Alone, Open, TypeOK,
     RS!Next, RS!Live, RS!LiveReplies
<1>6. CASE AnnounceSignal
  BY <1>6
  DEF AnnounceSignal, send, Joined, Unanswered, Unspawned, Alone, Open, TypeOK, 
     RS!Next, RS!Live, RS!LiveReplies
<1>7. ASSUME \/ Setup \/ Decode \/ Run \/ Spawn \/ CloseStateStop \/ Join \/ CloseBus \/ Wait
             \/ Verdict \/ Emit \/ Push \/ dispatch \/ HandleEvent \/ ListenerDone
             \/ SamplerTick \/ SamplerStop \/ Signal \/ Notify \/ CancelOnSignalStop \/ Cancel \/ Terminated
      PROVE  FALSE
  BY <1>7
  DEF Setup, Decode, Run, Spawn, CloseStateStop, Join, CloseBus, Wait, Verdict,
      Emit, Push, dispatch, HandleEvent, ListenerDone, SamplerTick, SamplerStop,
      Signal, Notify, CancelOnSignalStop, Cancel, Terminated, vars
<1>8. QED
  BY <1>1, <1>2, <1>3, <1>4, <1>5, <1>6, <1>7
  DEF Next, MainStep, Operation, Listener, Sampler, CancelOnSignal

(***************************************************************************)
(* The stdout of every run is a reply stream: live replies, then a report  *)
(* that is followed by success, or a terminal reply alone, and nothing     *)
(* after it, for any operation, any number of ticks, events and signals.   *)
(***************************************************************************)
THEOREM Refinement == Spec => RefinesReplyStream
<1>1. Init => RS!Init
  BY DEF Init, RS!Init
<1>2. QED
  BY <1>1, StepRefines, Invariance, PTL DEF Spec, RefinesReplyStream, RS!Spec

-----------------------------------------------------------------------------
(***************************************************************************)
(* The verdict. A lost entry is counted in the State, in the bus or being  *)
(* pushed (Followed), the listener has emptied the bus by the time of the  *)
(* verdict (Drained), and the verdict stands until it is sent (Judged).    *)
(***************************************************************************)
Fields   == {"total", "ok", "error", "cached", "size", "cachedSize"}
Parts    == {"snapshotID", "phase", "summary", "count", "result", "io",
             "recentPaths"}
Judging  == {"verdict", "fail", "report", "succeed"}
Returned == {"stop", "join", "closebus", "drain"} \cup Judging

Counter(c) == c = [f \in Fields |-> c[f]] /\ c["error"] \in Nat

\* A State, as far as its error counts go.
Countable(s) ==
    /\ s = [f \in Parts |-> s[f]]
    /\ s.count = [k \in Kinds |-> s.count[k]]
    /\ \A k \in Kinds : Counter(s.count[k])

Loses(seq) == \E i \in DOMAIN seq : LostEntry(seq[i])

Followed ==
    /\ Countable(state)
    /\ Loses(emitted) => \/ EntryErrors(state) > 0
                         \/ Loses(bus) \/ LostEntry(emitting)

Drained ==
    /\ pc \in {"setup", "decode", "listen"} => lpc = "none"
    /\ pc \in {"spawn", "dispatch"} \cup Returned => lpc # "none"
    /\ pc \in {"spawn", "dispatch"} => busState = "open"
    /\ emitting # NoEvent => pc \in {"dispatch", "killed"}
    /\ lpc = "done" => bus = <<>> /\ busState = "closed"
    /\ busState = "closed" => pc \in {"drain", "exit", "killed"} \cup Judging
    /\ pc \in Judging => lpc = "done"

Judged ==
    /\ pc \in Returned /\ op = "restore" /\ ~opErr => report # NoReport
    /\ pc \in {"report", "succeed"} => ~opErr /\ ~terminalError
    /\ pc = "killed" => RS!LastReply \notin RS!TerminalReplies
    /\ pc = "exit" => /\ (RS!LastReply \in RS!TerminalReplies) = (lpc # "none")
                      /\ lpc # "none" => lpc = "done" /\ exitCode = 0
    /\ RS!LastReply = "success" =>
          /\ pc = "exit" /\ ~opErr /\ ~terminalError
          /\ op = "restore" => report # NoReport

VerdictInv == Inv /\ Followed /\ Drained /\ Judged

\* countEntry counts an error once, and only an error.
LEMMA CountEntry ==
    ASSUME NEW c, NEW e, Counter(c), e.outcome \in Outcomes
    PROVE  /\ Counter(countEntry(c, e))
           /\ countEntry(c, e)["error"] =
                  c["error"] + (IF e.outcome = "error" THEN 1 ELSE 0)
<1> DEFINE d == countEntry(c, e)
<1>1. d = [f \in Fields |-> d[f]]
  BY DEF countEntry, Counter, Fields, Outcomes
<1>2. d["error"] = c["error"] + (IF e.outcome = "error" THEN 1 ELSE 0)
  BY DEF countEntry, Counter, Fields, Outcomes
<1> QED BY <1>1, <1>2 DEF Counter

\* updateState changes the counts of an entry's kind, and of no other event.
LEMMA UpdateCount ==
    ASSUME NEW s, NEW e \in Events, Countable(s)
    PROVE  /\ updateState(s, e) = [f \in Parts |-> updateState(s, e)[f]]
           /\ updateState(s, e).count =
                  IF e.type = "entry"
                  THEN [s.count EXCEPT ![e.kind] = countEntry(@, e)]
                  ELSE s.count
<1> DEFINE t == [s EXCEPT !.phase = PhaseAfter(s, e)]
<1>1. t = [f \in Parts |-> t[f]] /\ t.count = s.count
  BY DEF Countable, Parts
<1> QED BY <1>1 DEF updateState, Parts

\* What the fold does to the count that the verdict on a restore reads.
LEMMA UpdateErrors ==
    ASSUME NEW s, NEW e \in Events, Countable(s)
    PROVE  /\ Countable(updateState(s, e))
           /\ EntryErrors(s) > 0 => EntryErrors(updateState(s, e)) > 0
           /\ LostEntry(e) => EntryErrors(updateState(s, e)) > 0
<1> DEFINE u == updateState(s, e)
<1>1. CASE e.type = "entry"
  <2>1. e.kind \in Kinds /\ e.outcome \in Outcomes BY <1>1, EventsAssumption
  <2>2. u.count = [s.count EXCEPT ![e.kind] = countEntry(@, e)]
    BY <1>1, UpdateCount
  <2>3. /\ u.count = [k \in Kinds |-> u.count[k]]
        /\ u.count[e.kind] = countEntry(s.count[e.kind], e)
        /\ \A k \in Kinds \ {e.kind} : u.count[k] = s.count[k]
    BY <2>1, <2>2 DEF Countable
  <2>4. Counter(s.count[e.kind]) BY <2>1 DEF Countable
  <2>5. /\ Counter(u.count[e.kind])
        /\ u.count[e.kind]["error"] = s.count[e.kind]["error"]
                                      + (IF e.outcome = "error" THEN 1 ELSE 0)
    BY <2>1, <2>3, <2>4, CountEntry
  <2>6. \A k \in Kinds : Counter(s.count[k]) /\ Counter(u.count[k])
    BY <2>3, <2>5 DEF Countable
  <2>7. Countable(u) BY <2>3, <2>6, UpdateCount DEF Countable
  <2>8. \A k \in Kinds : /\ s.count[k].error \in Nat /\ u.count[k].error \in Nat
                         /\ u.count[k].error >= s.count[k].error
    <3> SUFFICES ASSUME NEW k \in Kinds
                 PROVE  /\ s.count[k]["error"] \in Nat
                        /\ u.count[k]["error"] \in Nat
                        /\ u.count[k]["error"] >= s.count[k]["error"]
      OBVIOUS
    <3>1. s.count[k]["error"] \in Nat /\ u.count[k]["error"] \in Nat
      BY <2>6 DEF Counter
    <3>2. CASE k = e.kind BY <2>5, <3>1, <3>2
    <3>3. CASE k # e.kind BY <2>3, <3>1, <3>3
    <3> QED BY <3>1, <3>2, <3>3
  <2>9. e.outcome = "error" => u.count[e.kind].error > 0
    BY <2>1, <2>5, <2>8
  <2> QED BY <2>1, <2>7, <2>8, <2>9 DEF EntryErrors, LostEntry, Kinds
<1>2. CASE e.type # "entry"
  <2>1. u.count = s.count BY <1>2, UpdateCount
  <2> QED BY <1>2, <2>1, UpdateCount DEF Countable, EntryErrors, LostEntry
<1> QED BY <1>1, <1>2

\* The initial states satisfy the invariant of the verdict.
LEMMA InitVerdict == Init => Followed /\ Drained /\ Judged
<1> SUFFICES ASSUME Init PROVE Followed /\ Drained /\ Judged
  OBVIOUS
<1>1. Countable(state)
  BY DEF Init, NewState, NoCount, Countable, Counter, Parts, Fields, Kinds
<1>2. ~Loses(emitted) BY DEF Init, Loses
<1>3. Drained BY DEF Init, Drained, Judging, Returned
<1>4. Judged
  BY DEF Init, Judged, Judging, Returned, RS!LastReply, RS!TerminalReplies
<1> QED BY <1>1, <1>2, <1>3, <1>4 DEF Followed

\* An event added to a sequence is the only one it gains.
LEMMA LosesAppend ==
    ASSUME NEW seq \in Seq(Events), NEW e \in Events
    PROVE  Loses(Append(seq, e)) <=> Loses(seq) \/ LostEntry(e)
<1> DEFINE n == Len(seq)
<1>1. /\ DOMAIN seq = 1..n /\ DOMAIN Append(seq, e) = 1..(n + 1) /\ n \in Nat
      /\ Append(seq, e)[n + 1] = e
      /\ \A i \in 1..n : Append(seq, e)[i] = seq[i]
  OBVIOUS
<1> HIDE DEF n
<1> QED BY <1>1 DEF Loses

\* An event taken from the front is the only one a sequence loses.
LEMMA LosesTail ==
    ASSUME NEW seq \in Seq(Events), seq # <<>>
    PROVE  Loses(seq) => Loses(Tail(seq)) \/ LostEntry(Head(seq))
<1> DEFINE n == Len(seq)
<1>1. /\ DOMAIN seq = 1..n /\ DOMAIN Tail(seq) = 1..(n - 1) /\ n \in Nat
      /\ Head(seq) = seq[1]
      /\ \A i \in 1..(n - 1) : Tail(seq)[i] = seq[i + 1]
  OBVIOUS
<1> HIDE DEF n
<1>2. ASSUME NEW i \in 1..n, LostEntry(seq[i]), i # 1
      PROVE  \E j \in 1..(n - 1) : LostEntry(Tail(seq)[j])
  <2>1. i - 1 \in 1..(n - 1) /\ Tail(seq)[i - 1] = seq[i] BY <1>1, <1>2
  <2> QED BY <1>2, <2>1
<1> QED BY <1>1, <1>2 DEF Loses

\* No lost entry leaves the sight of the verdict.
LEMMA NextFollowed ==
    ASSUME TypeOK, TypeOK', Drained, Followed, Step
    PROVE  Followed'
<1>1. CASE Emit
  <2>1. PICK e \in Events : /\ emitted' = Append(emitted, e)
                            /\ emitting' = IF busState = "none" THEN NoEvent ELSE e
    BY <1>1 DEF Emit
  <2>2. emitting = NoEvent /\ emitting' = e /\ UNCHANGED <<state, bus>>
    BY <1>1, <2>1 DEF Emit, Idle, Drained, listener
  <2>3. ~LostEntry(NoEvent) BY DEF NoEvent, LostEntry
  <2> QED BY <2>1, <2>2, <2>3, LosesAppend DEF Followed, TypeOK
<1>2. CASE Push
  <2>1. /\ emitting \in Events /\ bus' = Append(bus, emitting)
        /\ UNCHANGED <<state, emitted>>
    BY <1>2 DEF Push, TypeOK, listener
  <2> QED BY <2>1, LosesAppend DEF Followed, TypeOK
<1>3. CASE HandleEvent
  <2>1. /\ bus # <<>> /\ bus' = Tail(bus) /\ state' = updateState(state, Head(bus))
        /\ UNCHANGED <<emitted, emitting>> /\ Head(bus) \in Events
    BY <1>3 DEF HandleEvent, TypeOK, operation
  <2> QED BY <2>1, LosesTail, UpdateErrors DEF Followed, TypeOK
<1>4. CASE UNCHANGED <<state, bus, emitting, emitted>>
  BY <1>4 DEF Followed
<1>5. Emit \/ Push \/ HandleEvent \/ UNCHANGED <<state, bus, emitting, emitted>>
  BY DEF Step, MainStep, Operation, Listener, Sampler, CancelOnSignal,
     Setup, Decode, Run, Spawn, CloseStateStop, Join, CloseBus, Wait, Verdict,
     SendFailure, SendReport, SendSuccess, SendMessage, dispatch, ListenerDone,
     SamplerTick, SamplerStop, SamplerEmit, Signal, Notify, CancelOnSignalStop,
     AnnounceSignal, Cancel, listener, operation
<1> QED BY <1>1, <1>2, <1>3, <1>4, <1>5

\* The listener has emptied the bus before the verdict.
LEMMA NextDrained ==
    ASSUME TypeOK, Drained, Step
    PROVE  Drained'
<1> USE DEF Drained, Judging, Returned, Goto, Exit, Idle, Running, listener,
            sampler, signaller, operation, TypeOK
<1>1. CASE MainStep
  <2>1. CASE Setup \/ Decode \/ Run \/ Spawn
    BY <2>1 DEF Setup, Decode, Run, Spawn
  <2>2. CASE CloseStateStop \/ Join \/ CloseBus \/ Wait
    BY <2>2 DEF CloseStateStop, Join, CloseBus, Wait
  <2>3. CASE Verdict BY <2>3 DEF Verdict
  <2>4. CASE SendFailure \/ SendReport \/ SendSuccess
    BY <2>4 DEF SendFailure, SendReport, SendSuccess
  <2> QED BY <1>1, <2>1, <2>2, <2>3, <2>4 DEF MainStep
<1>2. CASE Operation
  BY <1>2 DEF Operation, Emit, Push, SendMessage, dispatch
<1>3. CASE Listener BY <1>3 DEF Listener, HandleEvent, ListenerDone
<1>4. CASE Sampler BY <1>4 DEF Sampler, SamplerTick, SamplerStop, SamplerEmit
<1>5. CASE Signal BY <1>5 DEF Signal
<1>6. CASE CancelOnSignal
  BY <1>6 DEF CancelOnSignal, Notify, CancelOnSignalStop, AnnounceSignal, Cancel
<1> QED BY <1>1, <1>2, <1>3, <1>4, <1>5, <1>6 DEF Step

\* What the verdict reads changes no more once it was read.
LEMMA NextTerminalError ==
    ASSUME TypeOK, Drained, Step, lpc = "done", pc # "dispatch"
    PROVE  terminalError' = terminalError /\ UNCHANGED <<lpc, opErr, op, report>>
<1>1. UNCHANGED <<report, op, opErr, lpc, state>>
  BY DEF Step, MainStep, Operation, Listener, Sampler, CancelOnSignal,
     Setup, Decode, Run, Spawn, CloseStateStop, Join, CloseBus, Wait, Verdict,
     SendFailure, SendReport, SendSuccess, Emit, Push, SendMessage, dispatch,
     HandleEvent, ListenerDone, SamplerTick, SamplerStop, SamplerEmit, Signal,
     Notify, CancelOnSignalStop, AnnounceSignal, Cancel, listener, operation,
     Idle, Goto, Drained
<1> QED BY <1>1 DEF terminalError

\* A verdict stands until it is sent, and nobody else sends one.
LEMMA NextJudged ==
    ASSUME Inv, Drained, Judged, Step
    PROVE  Judged'
<1> USE DEF Judged, Judging, Returned, Goto, Exit, Idle, Running, listener,
            sampler, signaller, operation
<1>0. TypeOK /\ Joined /\ Unanswered BY DEF Inv
<1>1. CASE Setup \/ Decode \/ Run \/ Spawn
  BY <1>0, <1>1, QuietIsLast DEF Setup, Decode, Run, Spawn, Drained, Unanswered,
     Open, Unspawned, RS!TerminalReplies
<1>2. CASE CloseStateStop \/ Join \/ CloseBus \/ Wait
  BY <1>0, <1>2, QuietIsLast DEF CloseStateStop, Join, CloseBus, Wait
<1>3. CASE Verdict
  <2>1. UNCHANGED terminalError BY <1>3 DEF Verdict, terminalError
  <2> QED BY <1>0, <1>3, <2>1, QuietIsLast DEF Verdict
<1>4. CASE SendFailure
  <2>1. RS!LastReply' = "failure"
    BY <1>0, <1>4, SendIsLast DEF SendFailure, RS!ReplyTypes, RS!TerminalReplies
  <2> QED BY <1>0, <1>4, <2>1 DEF SendFailure, Drained, RS!TerminalReplies
<1>5. CASE SendReport
  <2>1. RS!LastReply' \notin RS!TerminalReplies
    BY <1>0, <1>5, SendIsLast, QuietIsLast
    DEF SendReport, RS!ReplyTypes, RS!TerminalReplies, Unanswered, Open
  <2>2. UNCHANGED terminalError BY <1>5 DEF SendReport, terminalError
  <2> QED BY <1>0, <1>5, <2>1, <2>2 DEF SendReport, RS!TerminalReplies
<1>6. CASE SendSuccess
  <2>1. RS!LastReply' = "success"
    BY <1>0, <1>6, SendIsLast DEF SendSuccess, RS!ReplyTypes, RS!TerminalReplies
  <2>2. UNCHANGED terminalError BY <1>6 DEF SendSuccess, terminalError
  <2> QED BY <1>0, <1>6, <2>1, <2>2 DEF SendSuccess, Drained, RS!TerminalReplies
<1>7. CASE Emit \/ Push
  BY <1>0, <1>7, QuietIsLast DEF Emit, Push, Unanswered, Open, RS!TerminalReplies
<1>8. CASE SendMessage
  <2>1. RS!LastReply' \notin RS!TerminalReplies
    BY <1>0, <1>8, SendIsLast
    DEF SendMessage, RS!ReplyTypes, RS!LiveReplies, RS!TerminalReplies
  <2> QED BY <1>0, <1>8, <2>1 DEF SendMessage, RS!TerminalReplies
<1>9. CASE dispatch
  <2>1. opErr' = TRUE \/ op # "restore" \/ report' # NoReport
    <3> SUFFICES ASSUME op = "restore" PROVE opErr' = TRUE \/ report' # NoReport
      OBVIOUS
    <3>1. PICK r \in Results(op) : opErr' = r[1] /\ report' = r[2]
      BY <1>9 DEF dispatch
    <3>2. r = <<TRUE, NoReport>> \/ r \in {FALSE} \X Reports({0})
      BY DEF Results
    <3>3. CASE r = <<TRUE, NoReport>> BY <3>1, <3>3
    <3>4. CASE r \in {FALSE} \X Reports({0})
      <4>1. r[2] \in Reports({0}) BY <3>4
      <4>2. r[2].kind = "report" BY <4>1 DEF Reports
      <4> QED BY <3>1, <4>2 DEF NoReport
    <3> QED BY <3>2, <3>3, <3>4
  <2> QED BY <1>0, <1>9, <2>1, QuietIsLast
          DEF dispatch, Unanswered, Open, RS!TerminalReplies
<1>10. CASE Listener \/ Sampler \/ Signal \/ CancelOnSignal
  <2>1. /\ pc # "exit" /\ (pc' = pc \/ pc' = "killed")
        /\ UNCHANGED <<op, opErr, report>>
    BY <1>10 DEF Listener, HandleEvent, ListenerDone, Sampler, SamplerTick,
       SamplerStop, SamplerEmit, Signal, CancelOnSignal, Notify,
       CancelOnSignalStop, AnnounceSignal, Cancel
  <2>2. RS!LastReply \notin RS!TerminalReplies
    BY <1>0, <2>1 DEF Unanswered, Open, Unspawned, TypeOK, RS!TerminalReplies
  <2>3. RS!LastReply' \notin RS!TerminalReplies
    BY <1>0, <1>10, <2>2, SendIsLast, QuietIsLast
    DEF Listener, HandleEvent, ListenerDone, Sampler, SamplerTick, SamplerStop,
        SamplerEmit, Signal, CancelOnSignal, Notify, CancelOnSignalStop,
        AnnounceSignal, Cancel, RS!ReplyTypes, RS!LiveReplies,
        RS!TerminalReplies
  <2>4. pc \in Judging => UNCHANGED terminalError
    BY <1>0, NextTerminalError DEF Drained
  <2> QED BY <2>1, <2>3, <2>4 DEF RS!TerminalReplies
<1> QED BY <1>1, <1>2, <1>3, <1>4, <1>5, <1>6, <1>7, <1>8, <1>9, <1>10
        DEF Step, MainStep, Operation

\* The invariant of the verdict holds in every reachable state.
LEMMA VerdictInvariant == Spec => []VerdictInv
<1>1. Init => VerdictInv BY InitInv, InitVerdict DEF VerdictInv
<1>2. VerdictInv /\ [Next]_vars => VerdictInv'
  <2> SUFFICES ASSUME VerdictInv, [Next]_vars PROVE VerdictInv'
    OBVIOUS
  <2>1. Inv /\ Inv' /\ TypeOK /\ TypeOK' BY NextInv DEF VerdictInv, Inv
  <2>2. CASE Step
    BY <2>1, <2>2, NextFollowed, NextDrained, NextJudged DEF VerdictInv
  <2>3. CASE UNCHANGED vars
    <3> USE <2>3 DEF vars, listener, sampler, signaller, operation
    <3>1. Followed' BY DEF VerdictInv, Followed
    <3>2. Drained' BY DEF VerdictInv, Drained
    <3>3. UNCHANGED terminalError BY DEF terminalError
    <3>4. Judged' BY <3>3, QuietIsLast DEF VerdictInv, Judged
    <3> QED BY <2>1, <3>1, <3>2, <3>4 DEF VerdictInv
  <2> QED BY <2>2, <2>3 DEF Next, Step, Terminated
<1> QED BY <1>1, <1>2, PTL DEF Spec

(***************************************************************************)
(* For any operation, any sequence of events and any room in the bus, a    *)
(* success is no false one: in particular, not one lost entry of a restore *)
(* was dropped, left in the bus or overtaken by the verdict.               *)
(***************************************************************************)
THEOREM SuccessIsTrue == Spec => []NoFalseSuccess
<1>1. VerdictInv => NoFalseSuccess
  <2> SUFFICES ASSUME VerdictInv, RS!LastReply = "success"
               PROVE  /\ ~opErr
                      /\ op \in {"backup", "sync"} => report.errors = 0
                      /\ op = "restore" => ~Loses(emitted)
    BY DEF NoFalseSuccess, Loses
  <2>1. pc = "exit" /\ ~opErr /\ ~terminalError /\ lpc = "done"
    BY DEF VerdictInv, Judged, RS!TerminalReplies
  <2>2. bus = <<>> /\ emitting = NoEvent BY <2>1 DEF VerdictInv, Drained
  <2>3. ~Loses(bus) /\ ~LostEntry(emitting)
    BY <2>2 DEF Loses, LostEntry, NoEvent
  <2>4. op = "restore" => ~Loses(emitted)
    BY <2>1, <2>3 DEF VerdictInv, Judged, Followed, terminalError
  <2>5. op \in {"backup", "sync"} => report.errors = 0
    BY <2>1 DEF VerdictInv, Inv, TypeOK, terminalError, NoReport, Reports
  <2> QED BY <2>1, <2>4, <2>5
<1> QED BY <1>1, VerdictInvariant, PTL

(***************************************************************************)
(* A process that got past its payload exits with 0 and with a terminal    *)
(* reply on stdout; one that did not has written none.                     *)
(***************************************************************************)
THEOREM ExitAnswers == Spec => []ExitMeansAnswered
<1>1. VerdictInv => ExitMeansAnswered
  BY DEF VerdictInv, Judged, ExitMeansAnswered
<1> QED BY <1>1, VerdictInvariant, PTL
=============================================================================
