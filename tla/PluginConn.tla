----------------------------- MODULE PluginConn -----------------------------
(***************************************************************************)
(* The connections of one operation to its plugins. Each connector is a    *)
(* process of its own, spoken to over its standard streams: it is spawned, *)
(* initialized, used, asked to close, and cut off, the last opened first.  *)
(* A plugin may die or stop answering at any time, and a signal may cancel *)
(* the operation. Only a call with a context that ends can be relied on to *)
(* return. What a plugin and its pipe do is external: cutting the pipe     *)
(* waits for the plugin, which exits when it has read the end of its input.*)
(***************************************************************************)
EXTENDS Naturals

CONSTANT N  \* how many connectors the operation opens, one after the other

ASSUME NAssumption == N \in Nat \ {0}

VARIABLES
    pc,      \* where the operation is
    n,       \* how many connectors are open, whose close is deferred
    plugin,  \* per connector: "none", "running", "hung" or "exited"
    pipe,    \* per connector: "none", "open" or "cut"
    served,  \* the connectors whose plugin has handled its Close
    ctx,     \* the context of the operation: "live" or "cancelled"
    timer,   \* the close delay of the current close: "idle", "armed", "expired"
    result   \* "none", "ok" or "error"

connVars == <<pc, n, plugin, pipe, served, ctx, timer, result>>

ConnInit ==
    /\ pc = "open" /\ n = 0
    /\ plugin = [c \in 1..N |-> "none"] /\ pipe = [c \in 1..N |-> "none"]
    /\ served = {}
    /\ ctx = "live" /\ timer = "idle" /\ result = "none"

-----------------------------------------------------------------------------
(* Opening *)

\* Connect: the plugin is spawned with pipes for its standard streams.
Spawn ==
    /\ pc = "open"
    /\ plugin' = [plugin EXCEPT ![n + 1] = "running"]
    /\ pipe' = [pipe EXCEPT ![n + 1] = "open"]
    /\ pc' = "init"
    /\ UNCHANGED <<n, served, ctx, timer, result>>

\* It has the wrong type, or its executable cannot be run.
SpawnFails ==
    /\ pc = "open"
    /\ pc' = "close" /\ result' = "error"
    /\ UNCHANGED <<n, plugin, pipe, served, ctx, timer>>

\* The plugin answers the call that makes the importer, exporter, store or inventory.
Initialized ==
    /\ pc = "init" /\ plugin[n + 1] = "running"
    /\ n' = n + 1
    /\ pc' = IF n' = N THEN "work" ELSE "open"
    /\ UNCHANGED <<plugin, pipe, served, ctx, timer, result>>

\* The connection that could not be initialized is forgotten.
AfterInitForget == "close"

\* It is closed before the error is returned.
AfterInitFailed == "discard"

\* Waits for an answer whatever became of the context.
CallEndsAnswered(cs) == \A c \in cs : plugin[c] # "hung"

\* A call to plugins that do not answer ends when the context is cancelled.
CallEnds(cs) == (\A c \in cs : plugin[c] # "hung") \/ ctx = "cancelled"

(***************************************************************************)
(* There is no client, the plugin refuses its configuration, it has died,  *)
(* or the context was cancelled.                                           *)
(***************************************************************************)
InitFails ==
    /\ pc = "init" /\ CallEnds({n + 1})
    /\ pc' = AfterInitFailed /\ result' = "error"
    /\ UNCHANGED <<n, plugin, pipe, served, ctx, timer>>

Discard ==
    /\ pc = "discard" /\ pipe[n + 1] = "open"
    /\ pipe' = [pipe EXCEPT ![n + 1] = "cut"]
    /\ UNCHANGED <<pc, n, plugin, served, ctx, timer, result>>

Discarded ==
    /\ pc = "discard" /\ pipe[n + 1] = "cut" /\ plugin[n + 1] = "exited"
    /\ pc' = "close"
    /\ UNCHANGED <<n, plugin, pipe, served, ctx, timer, result>>

\* The operation itself, with calls to any of its plugins.
Work ==
    /\ pc = "work" /\ CallEnds(1..N)
    /\ result' \in IF ctx = "live" THEN {"ok", "error"} ELSE {"error"}
    /\ pc' = "close"
    /\ UNCHANGED <<n, plugin, pipe, served, ctx, timer>>

-----------------------------------------------------------------------------
(* Closing *)

\* ensureClose, the last opened first; the operation returns after the first.
EnsureClose ==
    /\ pc = "close"
    /\ IF n = 0 THEN pc' = "returned" /\ UNCHANGED timer
                ELSE pc' = "closing" /\ timer' = "armed"
    /\ UNCHANGED <<n, plugin, pipe, served, ctx, result>>

CloseServed ==
    /\ pc = "closing" /\ plugin[n] = "running"
    /\ served' = served \cup {n}
    /\ pc' = "cut"
    /\ UNCHANGED <<n, plugin, pipe, ctx, timer, result>>

\* The close is given the context of the operation.
CloseContextInherited == timer = "expired" \/ ctx = "cancelled"

\* The context of the close is done: it is cancelled by nothing but its timeout.
CloseContextDone == timer = "expired"

CloseFails ==
    /\ pc = "closing"
    /\ plugin[n] = "exited" \/ CloseContextDone
    /\ pc' = "cut"
    /\ UNCHANGED <<n, plugin, pipe, served, ctx, timer, result>>

\* A close that is given a context without a deadline.
NeverExpire == FALSE /\ UNCHANGED connVars

\* closeDelay is over.
Expire ==
    /\ pc = "closing" /\ timer = "armed"
    /\ timer' = "expired"
    /\ UNCHANGED <<pc, n, plugin, pipe, served, ctx, result>>

\* closePluginConn closes the pipe whatever became of the Close.
Cut ==
    /\ pc = "cut" /\ pipe[n] = "open"
    /\ pipe' = [pipe EXCEPT ![n] = "cut"]
    /\ UNCHANGED <<pc, n, plugin, served, ctx, timer, result>>

Closed ==
    /\ pc = "cut" /\ pipe[n] = "cut" /\ plugin[n] = "exited"
    /\ n' = n - 1 /\ pc' = "close" /\ timer' = "idle"
    /\ UNCHANGED <<plugin, pipe, served, ctx, result>>

-----------------------------------------------------------------------------
(* Plugins and signals *)

Hang(c) ==
    /\ plugin[c] = "running"
    /\ plugin' = [plugin EXCEPT ![c] = "hung"]
    /\ UNCHANGED <<pc, n, pipe, served, ctx, timer, result>>

Die(c) ==
    /\ plugin[c] \in {"running", "hung"}
    /\ plugin' = [plugin EXCEPT ![c] = "exited"]
    /\ UNCHANGED <<pc, n, pipe, served, ctx, timer, result>>

\* A plugin whose input ended exits, even one that does not answer calls.
ExitOnEOF(c) == pipe[c] = "cut" /\ Die(c)

Cancel ==
    /\ pc # "returned" /\ ctx = "live"
    /\ ctx' = "cancelled"
    /\ UNCHANGED <<pc, n, plugin, pipe, served, timer, result>>

Returned == pc = "returned" /\ UNCHANGED connVars

Operation ==
    \/ Spawn \/ SpawnFails \/ Initialized \/ InitFails \/ Discard \/ Discarded
    \/ Work \/ EnsureClose \/ CloseServed \/ CloseFails \/ Cut \/ Closed

ConnNext ==
    \/ Operation \/ Expire \/ Cancel \/ Returned
    \/ \E c \in 1..N : Hang(c) \/ Die(c)

(***************************************************************************)
(* The goroutine of the operation runs when it can, time passes, and a     *)
(* plugin exits at the end of its input. Nothing makes a signal arrive.    *)
(***************************************************************************)
Fairness ==
    /\ WF_connVars(Operation) /\ WF_connVars(Expire)
    /\ \A c \in 1..N : WF_connVars(ExitOnEOF(c))

ConnSpec == ConnInit /\ [][ConnNext]_connVars /\ Fairness

-----------------------------------------------------------------------------
(* Properties *)

\* Every variable keeps its type.
TypeOK ==
    /\ pc \in {"open", "init", "discard", "work", "close", "closing", "cut",
               "returned"}
    /\ n \in 0..N
    /\ plugin \in [1..N -> {"none", "running", "hung", "exited"}]
    /\ pipe \in [1..N -> {"none", "open", "cut"}]
    /\ served \in SUBSET (1..N)
    /\ ctx \in {"live", "cancelled"}
    /\ timer \in {"idle", "armed", "expired"}
    /\ result \in {"none", "ok", "error"}

(***************************************************************************)
(* An operation that returned leaves no plugin process and no open pipe    *)
(* behind, whichever connector failed to open, hung, died or was cancelled *)
(* (plugin.go:93, importer.go:33).                                         *)
(***************************************************************************)
NoOrphan ==
    pc = "returned" =>
        \A c \in 1..N : plugin[c] \in {"none", "exited"} /\ pipe[c] # "open"

(***************************************************************************)
(* A plugin that was opened and works is cut off only after it has handled *)
(* its Close, or was given the whole close delay to do so; after a         *)
(* cancellation too (kloset.go:138). One whose init failed is not meant:   *)
(* it is cut off without a Close, which it has nothing for                 *)
(* (importer.go:33).                                                       *)
(***************************************************************************)
CloseBeforeCut ==
    [][\A c \in 1..N :
          pc = "cut" /\ plugin[c] = "running" /\ pipe[c] = "open" /\ pipe'[c] = "cut"
              => c \in served \/ timer = "expired"]_connVars

(***************************************************************************)
(* However its plugins hang or die, an operation that is done or failed    *)
(* gets through all its closes and returns (kloset.go:24, kloset.go:138).  *)
(***************************************************************************)
ClosesEnd == pc = "close" ~> pc = "returned"

\* A signal ends the operation, even one that waits for a plugin that hangs
\* (plaklet.go:290-292).
CancelEnds == ctx = "cancelled" ~> pc = "returned"
=============================================================================
