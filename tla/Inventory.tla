------------------------------ MODULE Inventory ------------------------------
(***************************************************************************)
(* The inventory operation (inventory.go): listInventory starts the        *)
(* provider the source names, streamEntries runs its List, which pushes    *)
(* entries on an unbuffered channel, while a goroutine encodes each entry  *)
(* and sends it as a ReplyInventory. The driver imports what it received   *)
(* as the inventory's new state, so a short stream must not end in         *)
(* success.                                                                *)
(*                                                                         *)
(* Entries are named by their position 1..size in the provider's listing.  *)
(* The provider (an integration plugin, external) pushes them in order,    *)
(* may fail at any point, its context being cancelled included, and closes *)
(* the channel when List returns.                                          *)
(***************************************************************************)
EXTENDS Naturals, Sequences

CONSTANT MaxEntries  \* bound on the size of the listing

ASSUME MaxEntriesAssumption == MaxEntries \in Nat

VARIABLES
    source,         \* what input.Source is: "nil", "othertype", "inventory"
    size,           \* how many entries the provider has
    unencodable,    \* the ones json.Marshal rejects
    pc,             \* where the goroutine that runs listInventory is
    inv,            \* the provider's connection: "none", "open", "closed"
    listed,         \* how many entries were received from the provider
    listErr,        \* List returned an error
    entriesClosed,
    cancelled,      \* the context given to List is cancelled
    spc, entry,     \* the sending goroutine: where it is, and its entry
    done, doneClosed,
    stream,         \* the ReplyInventory replies sent
    result          \* "none", "nil", or which error: "setup", "list", "encode"

provider == <<source, size, unencodable>>
sender   == <<spc, entry, stream>>
vars == <<provider, pc, inv, listed, listErr, entriesClosed, cancelled,
          sender, done, doneClosed, result>>

DoneCap == 1  \* done := make(chan error, 1)

Init ==
    /\ source \in {"nil", "othertype", "inventory"}
    /\ size \in 0..MaxEntries
    /\ unencodable \in SUBSET (1..size)
    /\ pc = "start"
    /\ inv = "none"
    /\ listed = 0 /\ listErr = FALSE
    /\ entriesClosed = FALSE
    /\ cancelled = FALSE
    /\ spc = "none" /\ entry = 0
    /\ done = <<>> /\ doneClosed = FALSE
    /\ stream = <<>>
    /\ result = "none"

-----------------------------------------------------------------------------
(* listInventory and streamEntries *)

\* The source must be an inventory, and its plugin must start.
ListInventory ==
    /\ pc = "start"
    /\ \/ /\ pc' = "done" /\ result' = "setup"
          /\ UNCHANGED inv
       \/ /\ source = "inventory"
          /\ pc' = "stream" /\ inv' = "open"
          /\ UNCHANGED result
    /\ UNCHANGED <<provider, listed, listErr, entriesClosed, cancelled,
                   sender, done, doneClosed>>

StreamEntries ==
    /\ pc = "stream"
    /\ pc' = "list"
    /\ spc' = "recv"
    /\ UNCHANGED <<provider, inv, listed, listErr, entriesClosed, cancelled,
                   entry, stream, done, doneClosed, result>>

\* Nobody receives after a bad entry.
NeverDraining == FALSE

\* for range entries {}: what the provider still pushes is thrown away.
Draining == spc = "drain"

\* List pushes its next entry: it meets the goroutine's receive, or its drain.
ListPush ==
    /\ pc = "list"
    /\ listed < size
    /\ \/ /\ spc = "recv"
          /\ spc' = "encode" /\ entry' = listed + 1
       \/ /\ Draining
          /\ UNCHANGED <<spc, entry>>
    /\ listed' = listed + 1
    /\ UNCHANGED <<provider, pc, inv, listErr, entriesClosed, cancelled,
                   stream, done, doneClosed, result>>

\* List returns: nil once everything is listed, an error at any point.
ListReturn ==
    /\ pc = "list"
    /\ \/ listed = size /\ listErr' = FALSE
       \/ listErr' = TRUE
    /\ entriesClosed' = TRUE
    /\ pc' = "join"
    /\ UNCHANGED <<provider, inv, listed, cancelled, sender,
                   done, doneClosed, result>>

\* Returning as soon as List does.
SenderNotAwaited == TRUE

\* <-done returns an error, or that done is closed.
SenderAwaited == done # <<>> \/ doneClosed

\* List's own error wins.
ListErrorFirst ==
    IF listErr THEN "list" ELSE IF done # <<>> THEN "encode" ELSE "nil"

\* An error of the sender wins over List's.
StreamError ==
    IF done # <<>> THEN "encode" ELSE IF listErr THEN "list" ELSE "nil"

\* sendErr := <-done; the deferred cancel runs.
Join ==
    /\ pc = "join"
    /\ SenderAwaited
    /\ result' = StreamError
    /\ done' = <<>>
    /\ cancelled' = TRUE
    /\ pc' = "close"
    /\ UNCHANGED <<provider, inv, listed, listErr, entriesClosed,
                   sender, doneClosed>>

\* The deferred ensureClose(ctx, inv).
CloseInventory ==
    /\ pc = "close"
    /\ inv' = "closed"
    /\ pc' = "done"
    /\ UNCHANGED <<provider, listed, listErr, entriesClosed, cancelled,
                   sender, done, doneClosed, result>>

-----------------------------------------------------------------------------
(* The sending goroutine *)

\* wireEntry and json.Marshal succeed, and the entry is sent.
SendEntry ==
    /\ spc = "encode" /\ entry \notin unencodable
    /\ stream' = Append(stream, entry)
    /\ spc' = "recv"
    /\ UNCHANGED <<provider, pc, inv, listed, listErr, entriesClosed,
                   cancelled, entry, done, doneClosed, result>>

\* The loop continued.
NextEntry == "recv"

\* The loop left for the cancel and the drain.
AfterBadEntry == "cancel"

\* done <- error, which must not block: nobody reads done before List returns.
ReportEncodeError ==
    /\ spc = "encode" /\ entry \in unencodable
    /\ Len(done) < DoneCap
    /\ done' = Append(done, entry)
    /\ spc' = AfterBadEntry
    /\ UNCHANGED <<provider, pc, inv, listed, listErr, entriesClosed,
                   cancelled, entry, stream, doneClosed, result>>

CancelProvider ==
    /\ spc = "cancel"
    /\ cancelled' = TRUE
    /\ spc' = "drain"
    /\ UNCHANGED <<provider, pc, inv, listed, listErr, entriesClosed,
                   entry, stream, done, doneClosed, result>>

\* The range over entries, or the drain, ends; the deferred close(done).
SenderExit ==
    /\ spc \in {"recv", "drain"}
    /\ entriesClosed
    /\ doneClosed' = TRUE
    /\ spc' = "exit"
    /\ UNCHANGED <<provider, pc, inv, listed, listErr, entriesClosed,
                   cancelled, entry, stream, done, result>>

-----------------------------------------------------------------------------
Caller == \/ ListInventory \/ StreamEntries \/ Join \/ CloseInventory
List   == ListPush \/ ListReturn
Sender == SendEntry \/ ReportEncodeError \/ CancelProvider \/ SenderExit

Returned == pc = "done" /\ spc \in {"none", "exit"}
Terminated == Returned /\ UNCHANGED vars

Next == Caller \/ List \/ Sender \/ Terminated

Spec == Init /\ [][Next]_vars

-----------------------------------------------------------------------------
(* Properties *)

\* Every variable keeps its type, and done never holds more than its room.
TypeOK ==
    /\ source \in {"nil", "othertype", "inventory"}
    /\ size \in 0..MaxEntries
    /\ unencodable \in SUBSET (1..size)
    /\ pc \in {"start", "stream", "list", "join", "close", "done"}
    /\ inv \in {"none", "open", "closed"}
    /\ listed \in 0..size
    /\ listErr \in BOOLEAN
    /\ entriesClosed \in BOOLEAN
    /\ cancelled \in BOOLEAN
    /\ spc \in {"none", "recv", "encode", "cancel", "drain", "exit"}
    /\ entry \in 0..size
    /\ done \in Seq(1..size) /\ Len(done) <= DoneCap
    /\ doneClosed \in BOOLEAN
    /\ stream \in Seq(1..size)
    /\ result \in {"none", "nil", "setup", "list", "encode"}

(***************************************************************************)
(* The driver never receives a listing with a hole: what was streamed is a *)
(* prefix of the provider's listing, in its order (inventory.go:53-66).    *)
(***************************************************************************)
StreamIsPrefix == \A i \in DOMAIN stream : stream[i] = i

(***************************************************************************)
(* "an empty success would empty the inventory" (inventory.go:41-44): a    *)
(* nil result means that List ended without error and that the driver got  *)
(* every entry, those still in flight when List returned included.         *)
(***************************************************************************)
SuccessIsComplete ==
    result = "nil" => Len(stream) = size /\ ~listErr

(***************************************************************************)
(* The cause is reported, not its consequence: once an unencodable entry   *)
(* was received, the result is the encoding error, although cancelling the *)
(* provider makes List end with an error of its own (inventory.go:58,69).  *)
(***************************************************************************)
EncodeErrorWins ==
    (pc = "done" /\ \E e \in unencodable : e <= listed) => result = "encode"
=============================================================================
