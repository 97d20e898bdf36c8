-------------------------------- MODULE Main --------------------------------
(***************************************************************************)
(* The executor (plaklet.go): one run of Main, from its flags to its exit  *)
(* code, with the goroutines it starts around the operation:               *)
(*                                                                         *)
(*   - the event listener, which folds the events the operation emits on   *)
(*     kloset's bus into the live State (listener.go, module State);       *)
(*   - the state sampler, which streams that State on a ticker;            *)
(*   - CancelOnSignal, which turns SIGINT or SIGTERM into a cancellation.  *)
(*                                                                         *)
(* The operation itself is what dispatch calls. Here it emits events,      *)
(* sends inventory entries and warnings, and returns one of the results    *)
(* its kind may return; modules Rm and Inventory open up two of them.      *)
(* Every reply is written under one mutex, so sending is one step.         *)
(***************************************************************************)
EXTENDS State

CONSTANTS
    Ops,          \* the operations a payload may ask for
    Events,       \* the events an operation may emit
    BusCap,       \* room in the bus channel
    MaxEvents,    \* bound on the events of a run
    MaxTicks,     \* bound on the ticks of the sampler
    MaxMessages,  \* bound on the warnings and entries an operation sends
    MaxSignals    \* bound on the signals a run receives

ASSUME BoundsAssumption ==
    /\ BusCap \in Nat \ {0} /\ MaxEvents \in Nat /\ MaxTicks \in Nat
    /\ MaxMessages \in Nat /\ MaxSignals \in Nat

\* The entry events are those of updateState's cases.
ASSUME EventsAssumption ==
    \A e \in Events : e.type = "entry" => e.kind \in Kinds /\ e.outcome \in Outcomes

VARIABLES
    pc,           \* where Main is; "exit" and "killed" end the process
    exitCode,
    op,           \* input.Op
    bus,          \* the events in the bus channel
    busState,     \* "none" until Listen creates the channel, "open", "closed"
    emitting,     \* the event the operation is pushing, or NoEvent
    emitted,      \* every event the operation emitted
    lpc, state,   \* the listener: where it is, and the live State
    stateStop,    \* stateStop is closed
    spc, ticks,   \* the sampler: where it is, and the ticks it saw
    cpc,          \* where CancelOnSignal is
    notified,     \* signal.Notify was called
    sigChan,      \* signals waiting in its channel, which has room for one
    signals,      \* how many signals arrived
    cancelled,    \* the context of the operation is cancelled
    messages,     \* warnings and entries sent by the operation
    opErr, report,
    replies       \* the replies on stdout

listener  == <<lpc, state>>
sampler   == <<spc, ticks>>
signaller == <<cpc, notified, sigChan, signals, cancelled>>
operation == <<emitting, emitted, messages, opErr, report>>
vars == <<pc, exitCode, op, bus, busState, listener, stateStop, sampler,
          signaller, operation, replies>>

NoEvent  == [type |-> "none"]
NoReport == [kind |-> "none", errors |-> 0]

Running == pc \notin {"exit", "killed"}
Goto(from, to) == pc = from /\ pc' = to
send(t) == replies' = Append(replies, t)

Init ==
    /\ pc = "setup" /\ exitCode = 0
    /\ op \in Ops
    /\ bus = <<>> /\ busState = "none"
    /\ lpc = "none" /\ state = NewState
    /\ stateStop = FALSE
    /\ spc = "none" /\ ticks = 0
    /\ cpc = "none" /\ notified = FALSE /\ sigChan = 0 /\ signals = 0
    /\ cancelled = FALSE
    /\ emitting = NoEvent /\ emitted = <<>> /\ messages = 0
    /\ opErr = FALSE /\ report = NoReport
    /\ replies = <<>>

-----------------------------------------------------------------------------
(* Main, up to the dispatch *)

Exit(from, code) == Goto(from, "exit") /\ exitCode' = code

(***************************************************************************)
(* Bad flags and a missing -cache exit with 2, a cache directory or a      *)
(* package that cannot be used with 1.                                     *)
(***************************************************************************)
Setup ==
    /\ \/ Exit("setup", 2)
       \/ Exit("setup", 1)
       \/ Goto("setup", "decode") /\ UNCHANGED exitCode
    /\ UNCHANGED <<op, bus, busState, listener, stateStop, sampler, signaller,
                   operation, replies>>

\* A payload that does not decode ends in return -1.
DecodeNegative ==
    /\ \/ Exit("decode", 0)
       \/ Exit("decode", -1)
       \/ Goto("decode", "listen") /\ UNCHANGED exitCode
    /\ UNCHANGED <<op, bus, busState, listener, stateStop, sampler, signaller,
                   operation, replies>>

\* No payload is a clean exit, one that does not decode exits with 1.
Decode ==
    /\ \/ Exit("decode", 0)
       \/ Exit("decode", 1)
       \/ Goto("decode", "listen") /\ UNCHANGED exitCode
    /\ UNCHANGED <<op, bus, busState, listener, stateStop, sampler, signaller,
                   operation, replies>>

\* Listen called by the goroutine, whenever it gets to run.
RunLazily ==
    /\ Goto("listen", "spawn")
    /\ lpc' = "range"
    /\ UNCHANGED <<exitCode, op, bus, busState, state, stateStop, sampler,
                   signaller, operation, replies>>

\* listener.Run: the channel exists before the goroutine does.
Run ==
    /\ Goto("listen", "spawn")
    /\ busState' = "open"
    /\ lpc' = "range"
    /\ UNCHANGED <<exitCode, op, bus, state, stateStop, sampler, signaller,
                   operation, replies>>

\* wg.Go(StateSampler), wg.Go(CancelOnSignal), and dispatch is called.
Spawn ==
    /\ Goto("spawn", "dispatch")
    /\ spc' = "select"
    /\ cpc' = "notify"
    /\ UNCHANGED <<exitCode, op, bus, busState, listener, stateStop, ticks,
                   notified, sigChan, signals, cancelled, operation, replies>>

-----------------------------------------------------------------------------
(* The operation, between its dispatch and its return *)

Idle == pc = "dispatch" /\ emitting = NoEvent

\* An emitter drops its event while the bus has no channel.
Emit ==
    /\ Idle
    /\ Len(emitted) < MaxEvents
    /\ \E e \in Events :
          /\ emitted' = Append(emitted, e)
          /\ emitting' = IF busState = "none" THEN NoEvent ELSE e
    /\ UNCHANGED <<pc, exitCode, op, bus, busState, listener, stateStop,
                   sampler, signaller, messages, opErr, report, replies>>

\* The push blocks while the bus is full.
Push ==
    /\ pc = "dispatch" /\ emitting # NoEvent
    /\ Len(bus) < BusCap
    /\ bus' = Append(bus, emitting)
    /\ emitting' = NoEvent
    /\ UNCHANGED <<pc, exitCode, op, busState, listener, stateStop, sampler,
                   signaller, emitted, messages, opErr, report, replies>>

\* A connector whose close failed (ensureClose), or an inventory entry.
SendMessage ==
    /\ Idle
    /\ messages < MaxMessages
    /\ messages' = messages + 1
    /\ \/ send("warning")
       \/ op = "inventory" /\ send("inventory")
    /\ UNCHANGED <<pc, exitCode, op, bus, busState, listener, stateStop,
                   sampler, signaller, emitting, emitted, opErr, report>>

Reports(n) == [kind : {"report"}, errors : n]

(***************************************************************************)
(* What dispatch may return: <<err, report>>. Operations without a report  *)
(* return nil, a check with errors returns its report and an error, and    *)
(* the errors of a backup, a sync or an rm are only in their report.       *)
(***************************************************************************)
Results(o) ==
    {<<TRUE, NoReport>>} \cup
    CASE o \in {"create", "test", "inventory"} -> {<<FALSE, NoReport>>}
      [] o \in {"backup", "sync", "rm"}  -> {FALSE} \X Reports({0, 1})
      [] o = "restore"                   -> {FALSE} \X Reports({0})
      [] o = "check" -> ({FALSE} \X Reports({0})) \cup ({TRUE} \X Reports({0, 1}))
      [] OTHER       -> {}  \* prune, maintenance and unknown operations

dispatch ==
    /\ Idle
    /\ Goto("dispatch", "stop")
    /\ \E r \in Results(op) : opErr' = r[1] /\ report' = r[2]
    /\ UNCHANGED <<exitCode, op, bus, busState, listener, stateStop, sampler,
                   signaller, emitting, emitted, messages, replies>>

-----------------------------------------------------------------------------
(* Main, after the dispatch *)

CloseStateStop ==
    /\ Goto("stop", "join")
    /\ stateStop' = TRUE
    /\ UNCHANGED <<exitCode, op, bus, busState, listener, sampler, signaller,
                   operation, replies>>

\* Going on while the sampler and CancelOnSignal are still winding down.
JoinNobody ==
    /\ Goto("join", "closebus")
    /\ UNCHANGED <<exitCode, op, bus, busState, listener, stateStop, sampler,
                   signaller, operation, replies>>

\* wg.Wait()
Join ==
    /\ Goto("join", "closebus")
    /\ spc = "done" /\ cpc = "done"
    /\ UNCHANGED <<exitCode, op, bus, busState, listener, stateStop, sampler,
                   signaller, operation, replies>>

CloseBus ==
    /\ Goto("closebus", "drain")
    /\ busState' = "closed"
    /\ UNCHANGED <<exitCode, op, bus, listener, stateStop, sampler, signaller,
                   operation, replies>>

\* The verdict taken while events may still be in the bus.
WaitForNothing ==
    /\ Goto("drain", "verdict")
    /\ UNCHANGED <<exitCode, op, bus, busState, listener, stateStop, sampler,
                   signaller, operation, replies>>

\* listener.Wait()
Wait ==
    /\ Goto("drain", "verdict")
    /\ lpc = "done"
    /\ UNCHANGED <<exitCode, op, bus, busState, listener, stateStop, sampler,
                   signaller, operation, replies>>

\* terminalError: the operations whose failures surface after the fact.
terminalError ==
    /\ report # NoReport
    /\ \/ op \in {"backup", "sync"} /\ report.errors > 0
       \/ op = "restore" /\ EntryErrors(state) > 0

Verdict ==
    /\ \/ (opErr \/ terminalError) /\ Goto("verdict", "fail")
       \/ ~(opErr \/ terminalError) /\ report # NoReport
             /\ Goto("verdict", "report")
       \/ ~(opErr \/ terminalError) /\ report = NoReport
             /\ Goto("verdict", "succeed")
    /\ UNCHANGED <<exitCode, op, bus, busState, listener, stateStop, sampler,
                   signaller, operation, replies>>

\* A failure that only sets the exit code.
FailSilently ==
    /\ Exit("fail", 1)
    /\ UNCHANGED <<op, bus, busState, listener, stateStop, sampler, signaller,
                   operation, replies>>

SendFailure ==
    /\ Exit("fail", 0)
    /\ send("failure")
    /\ UNCHANGED <<op, bus, busState, listener, stateStop, sampler, signaller,
                   operation>>

\* A report that json.Marshal rejects is not sent.
SendReport ==
    /\ Goto("report", "succeed")
    /\ send("report") \/ UNCHANGED replies
    /\ UNCHANGED <<exitCode, op, bus, busState, listener, stateStop, sampler,
                   signaller, operation>>

SendSuccess ==
    /\ Exit("succeed", 0)
    /\ send("success")
    /\ UNCHANGED <<op, bus, busState, listener, stateStop, sampler, signaller,
                   operation>>

-----------------------------------------------------------------------------
(* The listener *)

HandleEvent ==
    /\ Running /\ lpc = "range"
    /\ bus # <<>>
    /\ state' = updateState(state, Head(bus))
    /\ bus' = Tail(bus)
    /\ UNCHANGED <<pc, exitCode, op, busState, lpc, stateStop, sampler,
                   signaller, operation, replies>>

\* The range over the channel ends once it is closed and empty.
ListenerDone ==
    /\ Running /\ lpc = "range"
    /\ bus = <<>> /\ busState = "closed"
    /\ lpc' = "done"
    /\ UNCHANGED <<pc, exitCode, op, bus, busState, state, stateStop, sampler,
                   signaller, operation, replies>>

-----------------------------------------------------------------------------
(* The sampler: select picks either case when both are ready *)

SamplerTick ==
    /\ Running /\ spc = "select"
    /\ ticks < MaxTicks
    /\ ticks' = ticks + 1
    /\ spc' = "emit"
    /\ UNCHANGED <<pc, exitCode, op, bus, busState, listener, stateStop,
                   signaller, operation, replies>>

SamplerStop ==
    /\ Running /\ spc = "select"
    /\ stateStop
    /\ spc' = "final"
    /\ UNCHANGED <<pc, exitCode, op, bus, busState, listener, stateStop, ticks,
                   signaller, operation, replies>>

\* emit: a State that json.Marshal rejects is not sent.
SamplerEmit ==
    /\ Running /\ spc \in {"emit", "final"}
    /\ spc' = IF spc = "final" THEN "done" ELSE "select"
    /\ send("state") \/ UNCHANGED replies
    /\ UNCHANGED <<pc, exitCode, op, bus, busState, listener, stateStop, ticks,
                   signaller, operation>>

-----------------------------------------------------------------------------
(* Signals and CancelOnSignal *)

\* A signal kills a process that did not ask for it; a full channel drops it.
Signal ==
    /\ Running
    /\ signals < MaxSignals
    /\ signals' = signals + 1
    /\ \/ /\ ~notified /\ pc' = "killed"
          /\ UNCHANGED sigChan
       \/ /\ notified /\ sigChan' = 1
          /\ UNCHANGED pc
    /\ UNCHANGED <<exitCode, op, bus, busState, listener, stateStop, sampler,
                   cpc, notified, cancelled, operation, replies>>

Notify ==
    /\ Running /\ cpc = "notify"
    /\ notified' = TRUE
    /\ cpc' = "select"
    /\ UNCHANGED <<pc, exitCode, op, bus, busState, listener, stateStop,
                   sampler, sigChan, signals, cancelled, operation, replies>>

CancelOnSignalStop ==
    /\ Running /\ cpc = "select"
    /\ stateStop
    /\ cpc' = "done"
    /\ UNCHANGED <<pc, exitCode, op, bus, busState, listener, stateStop,
                   sampler, notified, sigChan, signals, cancelled, operation,
                   replies>>

\* The signal is announced, and the goroutine ends.
AnnounceSignalOnly ==
    /\ Running /\ cpc = "select"
    /\ sigChan = 1
    /\ sigChan' = 0
    /\ send("info")
    /\ cpc' = "done"
    /\ UNCHANGED <<pc, exitCode, op, bus, busState, listener, stateStop,
                   sampler, notified, signals, cancelled, operation>>

AnnounceSignal ==
    /\ Running /\ cpc = "select"
    /\ sigChan = 1
    /\ sigChan' = 0
    /\ send("info")
    /\ cpc' = "cancel"
    /\ UNCHANGED <<pc, exitCode, op, bus, busState, listener, stateStop,
                   sampler, notified, signals, cancelled, operation>>

Cancel ==
    /\ Running /\ cpc = "cancel"
    /\ cancelled' = TRUE
    /\ cpc' = "done"
    /\ UNCHANGED <<pc, exitCode, op, bus, busState, listener, stateStop,
                   sampler, notified, sigChan, signals, operation, replies>>

-----------------------------------------------------------------------------
MainStep == \/ Setup \/ Decode \/ Run \/ Spawn \/ CloseStateStop \/ Join
            \/ CloseBus \/ Wait \/ Verdict
            \/ SendFailure \/ SendReport \/ SendSuccess
Operation == Emit \/ Push \/ SendMessage \/ dispatch
Listener  == HandleEvent \/ ListenerDone
Sampler   == SamplerTick \/ SamplerStop \/ SamplerEmit
CancelOnSignal == Notify \/ CancelOnSignalStop \/ AnnounceSignal \/ Cancel

Terminated == ~Running /\ UNCHANGED vars

Next == MainStep \/ Operation \/ Listener \/ Sampler \/ Signal
        \/ CancelOnSignal \/ Terminated

(***************************************************************************)
(* Every goroutine that can run is scheduled. The operation may run for as *)
(* long as it likes, but pushes its event when the bus has room, and       *)
(* returns once its context is cancelled.                                  *)
(***************************************************************************)
Fairness ==
    /\ WF_vars(MainStep)
    /\ WF_vars(Listener)
    /\ WF_vars(SamplerStop \/ SamplerEmit)
    /\ WF_vars(CancelOnSignal)
    /\ WF_vars(Push)
    /\ WF_vars(dispatch /\ cancelled)

Spec == Init /\ [][Next]_vars
FairSpec == Spec /\ Fairness

-----------------------------------------------------------------------------
(* Properties *)

RS == INSTANCE ReplyStream

\* Every variable keeps its type.
TypeOK ==
    /\ pc \in {"setup", "decode", "listen", "spawn", "dispatch", "stop",
               "join", "closebus", "drain", "verdict", "fail", "report",
               "succeed", "exit", "killed"}
    /\ exitCode \in 0..2
    /\ op \in Ops
    /\ bus \in Seq(Events) /\ Len(bus) <= BusCap
    /\ busState \in {"none", "open", "closed"}
    /\ emitting \in Events \cup {NoEvent}
    /\ emitted \in Seq(Events)
    /\ lpc \in {"none", "range", "done"}
    /\ stateStop \in BOOLEAN
    /\ spc \in {"none", "select", "emit", "final", "done"}
    /\ ticks \in 0..MaxTicks
    /\ cpc \in {"none", "notify", "select", "cancel", "done"}
    /\ notified \in BOOLEAN
    /\ sigChan \in 0..1
    /\ signals \in 0..MaxSignals
    /\ cancelled \in BOOLEAN
    /\ messages \in 0..MaxMessages
    /\ opErr \in BOOLEAN
    /\ report \in Reports({0, 1}) \cup {NoReport}
    /\ replies \in Seq(RS!ReplyTypes)

(***************************************************************************)
(* The stdout stream keeps the protocol's promise: terminal reply last and *)
(* only once, report only right before success, whatever the sampler, the  *)
(* signal handler and the operation still have to say.                     *)
(***************************************************************************)
RefinesReplyStream == RS!Spec

LostEntry(e) ==
    /\ e.type = "entry" /\ e.outcome = "error"
    /\ e.kind \in {"path", "file", "directory", "symlink", "xattr"}

(***************************************************************************)
(* "so a partial restore isn't reported as a success" (plaklet.go:231-235):*)
(* success is sent only if the operation returned no error, its report has *)
(* none that fails the job, and, for a restore, not one entry error was    *)
(* emitted: none is lost before the bus exists or left in it.              *)
(***************************************************************************)
NoFalseSuccess ==
    RS!LastReply = "success" =>
        /\ ~opErr
        /\ op \in {"backup", "sync"} => report.errors = 0
        /\ op = "restore" =>
              \A i \in DOMAIN emitted : ~LostEntry(emitted[i])

(***************************************************************************)
(* A process that exits after it decoded its payload has given the driver  *)
(* its terminal reply and exits with 0, a failed operation included; one   *)
(* that exits earlier has given none (plaklet.go:66-137, 166-177).         *)
(***************************************************************************)
ExitMeansAnswered ==
    pc = "exit" =>
        /\ (RS!LastReply \in RS!TerminalReplies) = (lpc # "none")
        /\ lpc # "none" => exitCode = 0

(***************************************************************************)
(* Once the operation has returned, the run is answered, however full the  *)
(* bus was and whatever signals still arrive (plaklet.go:154-177). The one *)
(* way out is a signal that arrives before CancelOnSignal got to call      *)
(* signal.Notify: it kills the process.                                    *)
(***************************************************************************)
Answered ==
    (pc = "stop") ~>
        \/ RS!LastReply \in RS!TerminalReplies
        \/ pc = "killed" /\ ~notified

(***************************************************************************)
(* A signal caught while the operation runs ends the run: it reaches the   *)
(* operation as a cancellation even when the operation would otherwise go  *)
(* on for ever, and neither a second signal nor a full bus gets in the way *)
(* (plaklet.go:282-295).                                                   *)
(***************************************************************************)
SignalEndsRun == (sigChan = 1) ~> (pc = "exit")
=============================================================================
