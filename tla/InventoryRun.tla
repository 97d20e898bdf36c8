---------------------------- MODULE InventoryRun ----------------------------
(***************************************************************************)
(* An inventory run as its driver sees it: Main with listInventory as the  *)
(* operation that dispatch calls (plaklet.go, inventory.go). What Main     *)
(* alone leaves to chance is the work of module Inventory here: when the   *)
(* operation sends, when it returns and with which error. The goroutine of *)
(* streamEntries is not in Main's wait group, and writes to the same       *)
(* stdout as the sampler, the signal handler and Main.                     *)
(***************************************************************************)
EXTENDS Inventory, FiniteSets

CONSTANTS maxRecentPaths, Word, Ops, Events, BusCap, MaxEvents, MaxTicks,
          MaxMessages, MaxSignals  \* those of Main

\* The bound on messages leaves room for every entry and one warning.
ASSUME MessagesAssumption == MaxMessages \in Nat /\ MaxEntries < MaxMessages

VARIABLES
    mainPc,      \* where Main is
    samplerPc,   \* where the sampler is
    ctxDone,     \* Main's context is cancelled, and with it the one of List
    exitCode, op, bus, busState, emitting, emitted, lpc, state, stateStop,
    ticks, cpc, notified, sigChan, signals, messages, opErr, report, replies

Exec == INSTANCE Main WITH
    pc <- mainPc, spc <- samplerPc, cancelled <- ctxDone

\* What a step of the operation leaves to the rest of the process.
elsewhere == <<exitCode, op, bus, busState, emitting, emitted, lpc, state,
               stateStop, samplerPc, ticks, cpc, notified, sigChan, signals,
               ctxDone>>
allVars == <<vars, mainPc, elsewhere, messages, opErr, report, replies>>

RunInit == Init /\ Exec!Init /\ op = "inventory"

-----------------------------------------------------------------------------
(* The operation *)

Quietly == UNCHANGED <<mainPc, elsewhere, messages, opErr, report, replies>>

Sends(t) ==
    /\ Exec!send(t) /\ messages' = messages + 1
    /\ UNCHANGED <<mainPc, elsewhere, opErr, report>>

\* dispatch is inside listInventory, in its own code or in the provider's List.
Listing == mainPc = "dispatch" /\ (ListInventory \/ StreamEntries \/ Join)
              /\ Quietly
Pushing == mainPc = "dispatch" /\ ListPush /\ Quietly
ListReturning == mainPc = "dispatch" /\ ListReturn /\ Quietly

\* ensureClose warns about a close that failed.
Closing ==
    /\ mainPc = "dispatch" /\ CloseInventory
    /\ Quietly \/ Sends("warning")

\* The goroutine runs on, whatever Main does, until the process ends.
Sending == Exec!Running /\ SendEntry /\ Sends("inventory")
Winding == Exec!Running /\ (ReportEncodeError \/ CancelProvider \/ SenderExit)
              /\ Quietly

\* The error of listInventory lost on its way to Main.
ErrorLost == FALSE

ErrorReturned == result # "nil"

\* return nil, listInventory(ctx, input, send)
Returning ==
    /\ pc = "done"
    /\ Exec!Goto("dispatch", "stop")
    /\ opErr' = ErrorReturned /\ report' = Exec!NoReport
    /\ UNCHANGED <<vars, elsewhere, messages, replies>>

-----------------------------------------------------------------------------
Around == (Exec!MainStep \/ Exec!Listener \/ Exec!Sampler \/ Exec!Signal
              \/ Exec!CancelOnSignal) /\ UNCHANGED vars

Ended == ~Exec!Running /\ UNCHANGED allVars

RunNext == Around \/ Listing \/ Pushing \/ ListReturning \/ Closing \/ Sending
           \/ Winding \/ Returning \/ Ended

(***************************************************************************)
(* The fairness of Main, without its assumption that the operation         *)
(* returns. Instead, the goroutines of listInventory run when they can, a  *)
(* provider that can push does so, and one that has nothing left to push   *)
(* returns. A provider blocked in a push is not assumed to notice that its *)
(* context was cancelled.                                                  *)
(***************************************************************************)
RunFairness ==
    /\ WF_allVars(Exec!MainStep /\ UNCHANGED vars)
    /\ WF_allVars(Exec!Listener /\ UNCHANGED vars)
    /\ WF_allVars((Exec!SamplerStop \/ Exec!SamplerEmit) /\ UNCHANGED vars)
    /\ WF_allVars(Exec!CancelOnSignal /\ UNCHANGED vars)
    /\ WF_allVars(Listing \/ Closing \/ Returning)
    /\ WF_allVars(Pushing)
    /\ WF_allVars(ListReturning /\ listed = size)
    /\ WF_allVars(Sending \/ Winding)

RunSpec == RunInit /\ [][RunNext]_allVars /\ RunFairness

-----------------------------------------------------------------------------
(* Properties *)

(***************************************************************************)
(* "the driver imports what it received as the inventory's new state"      *)
(* (inventory.go:43): when stdout ends in success, the driver has received *)
(* every entry of a listing that ended well, before that success, signals  *)
(* and a failing close notwithstanding.                                    *)
(***************************************************************************)
DriverImportsWhole ==
    Exec!RS!LastReply = "success" =>
        /\ Cardinality({i \in DOMAIN replies : replies[i] = "inventory"}) = size
        /\ ~listErr

(***************************************************************************)
(* listInventory is an operation as Main expects one, so that what was     *)
(* shown of Main holds of this run: it sends only until it returns,        *)
(* although its goroutine may outlive it, it returns one of the results    *)
(* dispatch may return, and it does return once it is cancelled            *)
(* (plaklet.go:149-157, 275-276).                                          *)
(***************************************************************************)
ImplementsMain == Exec!FairSpec

(***************************************************************************)
(* An inventory run is answered without a signal having to end it: with a  *)
(* provider that ignores its context, with entries that cannot be encoded, *)
(* and with a sampler and a signal handler still to be joined.             *)
(***************************************************************************)
RunAnswered ==
    mainPc = "dispatch" ~>
        \/ Exec!RS!LastReply \in Exec!RS!TerminalReplies
        \/ mainPc = "killed" /\ ~notified
=============================================================================
