-------------------------------- MODULE State --------------------------------
(***************************************************************************)
(* The live State of a run (state.go) and the fold of kloset's events into *)
(* it (listener.go, updateState). The operators are pure: the machine that *)
(* applies them is in module Listener, and the executor that runs one next *)
(* to an operation in module Main.                                         *)
(*                                                                         *)
(* An event is a record whose type names the source's event type, with the *)
(* family of the per-entry events split off: [type |-> "entry",            *)
(* kind |-> "file", outcome |-> "ok", ...] is "file.ok", and outcome       *)
(* "total" is the plain "file" that announces the entry. Fields that are   *)
(* missing or have another type arrive as the zero value (eventField), so  *)
(* an event always has its fields here.                                    *)
(***************************************************************************)
EXTENDS Integers, Sequences, FiniteSets

CONSTANTS
    maxRecentPaths,  \* the cap of RecentPaths
    Word             \* how many values a uint64 has (2^64 in the code)

ASSUME maxRecentPathsAssumption == maxRecentPaths \in Nat \ {0}
ASSUME WordAssumption == Word \in Nat \ {0}

Kinds == {"path", "directory", "file", "xattr", "symlink", "object", "chunk"}
Outcomes == {"total", "ok", "error", "cached"}
Sized == {"file", "xattr"}  \* the kinds whose ok and cached carry a size

\* StateCounter
NoCount == [total |-> 0, ok |-> 0, error |-> 0, cached |-> 0,
            size |-> 0, cachedSize |-> 0]

NewState ==
    [snapshotID  |-> "",
     phase       |-> "",
     summary     |-> [exists |-> FALSE, files |-> 0, size |-> 0],
     count       |-> [k \in Kinds |-> NoCount],
     result      |-> [size |-> 0, errors |-> 0],
     io          |-> <<>>,
     recentPaths |-> <<>>]

-----------------------------------------------------------------------------
(* RecentPaths *)

\* The i-th of a set of indices.
Nth(K, i) == CHOOSE j \in K : Cardinality({k \in K : k <= j}) = i

\* The elements at these indices, in their order.
Keep(paths, K) == [i \in 1..Cardinality(K) |-> paths[Nth(K, i)]]

InProgress(paths) ==
    Keep(paths, {i \in DOMAIN paths : paths[i].status = "in-progress"})

Settled(paths) ==
    Keep(paths, {i \in DOMAIN paths : paths[i].status # "in-progress"})

Without(paths, path) == Keep(paths, {i \in DOMAIN paths : paths[i].path # path})

capRecentPaths(paths) ==
    IF Len(paths) > maxRecentPaths THEN SubSeq(paths, 1, maxRecentPaths)
                                   ELSE paths

\* The path put in front, with no regard for what is still in progress.
startBeforeSettled(paths, path) ==
    capRecentPaths(<<[path |-> path, status |-> "in-progress"]>>
                       \o Settled(paths) \o InProgress(paths))

\* The path put in front of the in-progress ones, then the settled ones.
startRecentPath(paths, path) ==
    capRecentPaths(<<[path |-> path, status |-> "in-progress"]>>
                       \o InProgress(paths) \o Settled(paths))

\* A settled path put in front without removing what was known of it.
settleWithoutRemoval(paths, path, status) ==
    capRecentPaths(InProgress(paths) \o <<[path |-> path, status |-> status]>>
                       \o Settled(paths))

\* A path moves from in-progress to the head of the settled ones.
settleRecentPath(paths, path, status) ==
    LET others == Without(paths, path)
    IN  capRecentPaths(InProgress(others)
                           \o <<[path |-> path, status |-> status]>>
                           \o Settled(others))

recentPaths(paths, e) ==
    IF e.kind # "path" THEN paths ELSE
    CASE e.outcome = "total"  -> startRecentPath(paths, e.path)
      [] e.outcome = "ok"     -> settleRecentPath(paths, e.path, "ok")
      [] e.outcome = "error"  -> settleRecentPath(paths, e.path, "error")
      [] e.outcome = "cached" -> settleRecentPath(paths, e.path, "ok")

-----------------------------------------------------------------------------
(* updateState *)

\* total += uint64(size): an int64, negative ones too, in the arithmetic of a
\* uint64.
AddSize(total, size) == (total + size) % Word

\* The size of an entry if it is one that counts.
SizeIf(e, outcomes) ==
    IF e.kind \in Sized /\ e.outcome \in outcomes THEN e.size ELSE 0

\* Sizes of cached entries added to the ones that were read.
countIgnoringCache(c, e) ==
    [c EXCEPT ![e.outcome] = @ + 1,
              !.size = AddSize(@, SizeIf(e, {"ok", "cached"}))]

countEntry(c, e) ==
    [c EXCEPT ![e.outcome] = @ + 1,
              !.size = AddSize(@, SizeIf(e, {"ok"})),
              !.cachedSize = AddSize(@, SizeIf(e, {"cached"}))]

\* The phase an event leaves behind; most events leave the phase alone.
PhaseAfter(s, e) ==
    CASE e.type = "snapshot.import.start"                   -> "processing"
      [] e.type = "snapshot.vfs.start"                      -> "building VFS"
      [] e.type = "snapshot.index.start"                    -> "indexing"
      [] e.type \in {"snapshot.vfs.end", "snapshot.index.end"} -> ""
      [] e.type = "snapshot.commit.start"                   -> "committing"
      [] e.type = "result"                                  -> "completed"
      [] OTHER                                              -> s.phase

\* The latest reading of each scope; an event without a scope is ignored.
ioAfter(io, e) ==
    IF e.scope = "" THEN io
    ELSE [sc \in DOMAIN io \cup {e.scope} |->
             IF sc = e.scope THEN e.stats ELSE io[sc]]

updateState(s, e) ==
    LET t == [s EXCEPT !.phase = PhaseAfter(s, e)]
    IN  CASE e.type = "entry" ->
                 [t EXCEPT !.count[e.kind] = countEntry(@, e),
                           !.recentPaths = recentPaths(@, e)]
          [] e.type = "workflow.start" /\ e.snapshot # "" ->
                 [t EXCEPT !.snapshotID = e.snapshot]
          [] e.type = "fs.summary" ->
                 [t EXCEPT !.summary = [exists |-> TRUE, files |-> e.files,
                                        size |-> e.size]]
          [] e.type = "iostats" -> [t EXCEPT !.io = ioAfter(@, e)]
          [] e.type = "result" ->
                 [t EXCEPT !.result = [size |-> e.size, errors |-> e.errors]]
          [] OTHER -> t

\* A readout without the files that were found in the cache.
processedUncached(s) ==
    LET files == s.count["file"]
    IN  [items |-> IF files.ok = 0 THEN s.summary.files ELSE files.ok,
         bytes |-> IF files.size = 0 THEN s.summary.size ELSE files.size]

\* The running items/bytes readout, falling back to the scan summary.
processed(s) ==
    LET files == s.count["file"]
        items == files.ok + files.cached
        bytes == AddSize(files.size, files.cachedSize)
    IN  [items |-> IF items = 0 THEN s.summary.files ELSE items,
         bytes |-> IF bytes = 0 THEN s.summary.size ELSE bytes]

\* terminalError's count of the entries a restore could not export.
EntryErrors(s) == s.count["path"].error + s.count["file"].error
                + s.count["directory"].error + s.count["symlink"].error
                + s.count["xattr"].error
=============================================================================
