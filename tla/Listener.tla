------------------------------ MODULE Listener ------------------------------
(***************************************************************************)
(* The event listener (listener.go): one goroutine folds the events of the *)
(* bus, in the order they arrive, into the live State, and the state       *)
(* sampler reads copies of it. Both hold the listener's mutex, so each is  *)
(* one step. handled is the history of the events; the properties compare  *)
(* what the fold kept with what that history says.                         *)
(***************************************************************************)
EXTENDS State, FiniteSets, FiniteSetsExt, SequencesExt

CONSTANTS
    Events,     \* the events that may arrive
    MaxEvents,  \* bound on how many do
    MaxReads    \* bound on the reads of the sampler

\* The entry events are those of updateState's cases; a size is an int64.
ASSUME EventsAssumption ==
    \A e \in Events :
        /\ e.type = "entry" => /\ e.kind \in Kinds /\ e.outcome \in Outcomes
                               /\ e.size \in Int
        /\ e.type = "fs.summary" => e.files \in Nat

VARIABLES
    state,    \* l.state
    handled,  \* every event handled so far
    reads     \* the states handed out: their Processed.Items, and after how many
              \* events

vars == <<state, handled, reads>>

Init ==
    /\ state = NewState
    /\ handled = <<>>
    /\ reads = <<>>

\* handleEvent: the update under the mutex; the log line is left out.
handleEvent ==
    /\ Len(handled) < MaxEvents
    /\ \E e \in Events :
          /\ state' = updateState(state, e)
          /\ handled' = Append(handled, e)
    /\ UNCHANGED reads

\* State(): a copy of the state with the processed counters filled in.
State ==
    /\ Len(reads) < MaxReads
    /\ reads' = Append(reads, [items |-> processed(state).items,
                              after |-> Len(handled)])
    /\ UNCHANGED <<state, handled>>

\* The bus is closed and drained.
Done == Len(handled) = MaxEvents /\ UNCHANGED vars

Next == handleEvent \/ State \/ Done

Spec == Init /\ [][Next]_vars

-----------------------------------------------------------------------------
(* The history, read declaratively *)

Positions(k, outcomes) ==
    {i \in DOMAIN handled : /\ handled[i].type = "entry"
                            /\ handled[i].kind = k
                            /\ handled[i].outcome \in outcomes}

SizeOf(i) == handled[i].size
Starts  == Positions("path", {"total"})
Settles == Positions("path", {"ok", "error", "cached"})

SettledAfter(i) == \E j \in Settles : j > i /\ handled[j].path = handled[i].path

\* The paths of a set of positions, the latest first.
LatestFirst(S) ==
    LET n == Cardinality(S)
    IN  [i \in 1..n |-> handled[Nth(S, n + 1 - i)].path]

\* The starts that had not settled after the first n events.
LiveAt(n) ==
    {i \in Starts : /\ i <= n
                    /\ ~\E j \in Settles : /\ i < j /\ j <= n
                                          /\ handled[j].path = handled[i].path}

\* The paths that started and have not settled since.
LivePaths == LatestFirst({i \in Starts : ~SettledAfter(i)})

\* How many paths were in progress after n events, from the i-th event's on.
Crowd(i, n) == Cardinality({j \in LiveAt(n) : j >= i})

\* The starts in progress for which there has been room ever since.
Fitted ==
    {i \in Starts : /\ ~SettledAfter(i)
                    /\ \A n \in i..Len(handled) : Crowd(i, n) <= maxRecentPaths}

\* The paths by their last settling.
SettledPaths == LatestFirst({i \in Settles : ~SettledAfter(i)})

PathsOf(recent) == [i \in DOMAIN recent |-> recent[i].path]

-----------------------------------------------------------------------------
(* Properties *)

CountsMatch ==
    \A k \in Kinds, o \in Outcomes :
        state.count[k][o] = Cardinality(Positions(k, {o}))

SizesMatch ==
    \A k \in Kinds :
        LET SizeSum(o) == IF k \in Sized
                          THEN MapThenSumSet(SizeOf, Positions(k, {o})) ELSE 0
        IN  /\ state.count[k].size = SizeSum("ok") % Word
            /\ state.count[k].cachedSize = SizeSum("cached") % Word

\* The positions of the I/O readings of a scope.
Readings(sc) == {i \in DOMAIN handled : /\ handled[i].type = "iostats"
                                        /\ handled[i].scope = sc}

ReadingsMatch ==
    /\ \A sc \in DOMAIN state.io :
          state.io[sc] = handled[Max(Readings(sc))].stats
    /\ \A i \in DOMAIN handled :
          (handled[i].type = "iostats" /\ handled[i].scope # "")
              => handled[i].scope \in DOMAIN state.io

(***************************************************************************)
(* Whatever order the workers' events arrive in, the counters are those of *)
(* the history: each event counted once, in its own kind and outcome, its  *)
(* size once and on the right side of the cache, modulo the word of a      *)
(* uint64 (a size may be negative); each I/O scope has its latest reading, *)
(* and a scopeless one changes nothing (listener.go:132-262).              *)
(***************************************************************************)
FoldMatchesHistory == CountsMatch /\ SizesMatch /\ ReadingsMatch

(***************************************************************************)
(* RecentPaths, within its cap, invents and reorders nothing: first come   *)
(* the latest paths that started and did not settle since, then the latest *)
(* settled ones, each with its last status (listener.go:313-347).          *)
(***************************************************************************)
RecentPathsMatchHistory ==
    LET recent  == state.recentPaths
        live    == InProgress(recent)
        settled == Settled(recent)
    IN  /\ recent = live \o settled /\ Len(recent) <= maxRecentPaths
        /\ IsPrefix(PathsOf(live), LivePaths)
        /\ IsPrefix(PathsOf(settled), SettledPaths)
        /\ \A i \in DOMAIN settled :
              LET last == Max({j \in Settles :
                                  handled[j].path = settled[i].path})
              IN  settled[i].status =
                      IF handled[last].outcome = "error" THEN "error" ELSE "ok"

(***************************************************************************)
(* Which paths being processed RecentPaths shows: exactly those for which  *)
(* there has been room among the paths in progress ever since they         *)
(* started, the later ones first (listener.go:313-347). The settled ones   *)
(* always give way. The one that gave way to others in progress does not   *)
(* come back when they settle, and settled paths are shown in its place,   *)
(* where state.go:149-150 says "in-progress paths first, then the most     *)
(* recently settled ones".                                                 *)
(***************************************************************************)
LivePathsShown == PathsOf(InProgress(state.recentPaths)) = LatestFirst(Fitted)

\* The files done among the first n events.
FilesDone(n) == Cardinality({i \in Positions("file", {"ok", "cached"}) : i <= n})

(***************************************************************************)
(* "a running count for a progress readout" (state.go:60-61), as far as it *)
(* goes: from the first file that is done on, the readout is the number of *)
(* files done, so that it never runs backwards again. Before, it is the    *)
(* total of the scan, if there was one (state.go:177-187).                 *)
(***************************************************************************)
ReadoutRuns ==
    \A i \in DOMAIN reads :
        FilesDone(reads[i].after) > 0 => reads[i].items = FilesDone(reads[i].after)
=============================================================================
