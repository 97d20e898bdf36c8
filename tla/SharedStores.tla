---------------------------- MODULE SharedStores ----------------------------
(***************************************************************************)
(* Several plaklet processes on the same two stores at the same time. Each *)
(* works from the state of a store that it aggregated when it opened it.   *)
(* Here any number of syncs copy from source to target, while other        *)
(* plaklets put snapshots into either store and remove them. Operations    *)
(* has the steps and the error paths of one sync; what is left of them     *)
(* here is what others can observe. kloset's own locks are left out: a     *)
(* maintenance lock makes backups and syncs fail (ops_test.go:95-101,      *)
(* 241-246), and here every call may fail at any time.                     *)
(***************************************************************************)
CONSTANTS
    Procs,  \* the processes that synchronize
    IDs     \* snapshot ids

VARIABLES
    source, target,  \* the committed snapshots
    pc,       \* where each process is
    srcView,  \* its aggregated state of the source
    present,  \* the snapshots it found in the target
    located,  \* the snapshots it selected
    todo,     \* those it did not come to yet
    cur,      \* the one it is copying
    report,   \* "clean", or "errors" once its report counts one
    seen,     \* what the target held at some time since it opened it
    arrived   \* what others put there in that time

stores  == <<source, target>>
lists   == <<present, located, todo, cur, report>>
history == <<seen, arrived>>
sharedVars == <<stores, pc, srcView, lists, history>>

SharedInit ==
    /\ source \in SUBSET IDs /\ target \in SUBSET IDs
    /\ pc = [p \in Procs |-> "start"]
    /\ srcView = [p \in Procs |-> {}] /\ present = [p \in Procs |-> {}]
    /\ located = [p \in Procs |-> {}] /\ todo = [p \in Procs |-> {}]
    /\ cur = [p \in Procs |-> {}]
    /\ report = [p \in Procs |-> "clean"]
    /\ seen = [p \in Procs |-> {}] /\ arrived = [p \in Procs |-> {}]

Go(p, to) == pc' = [pc EXCEPT ![p] = to]

-----------------------------------------------------------------------------
(* One sync *)

\* repository.New builds the state from what the store holds now.
OpenSource(p) ==
    /\ pc[p] = "start" /\ Go(p, "source opened")
    /\ srcView' = [srcView EXCEPT ![p] = source]
    /\ UNCHANGED <<stores, lists, history>>

\* What the target is taken to hold is listed in the wrong repository.
ListedFromSource(p) == srcView[p]

\* dstRepo.ListSnapshots: the state that openrepo has aggregated.
ListSnapshots(p) == target

(***************************************************************************)
(* The listing reads the state aggregated at the opening, so that opening  *)
(* the target and listing it are one step to the others.                   *)
(***************************************************************************)
OpenTarget(p) ==
    /\ pc[p] = "source opened" /\ Go(p, "listed")
    /\ present' = [present EXCEPT ![p] = ListSnapshots(p)]
    /\ seen' = [seen EXCEPT ![p] = target]
    /\ arrived' = [arrived EXCEPT ![p] = {}]
    /\ UNCHANGED <<stores, srcView, located, todo, cur, report>>

Locate(p) ==
    /\ pc[p] = "listed" /\ Go(p, "loop")
    /\ \E found \in SUBSET srcView[p] :
          /\ located' = [located EXCEPT ![p] = found]
          /\ todo' = [todo EXCEPT ![p] = found]
    /\ UNCHANGED <<stores, srcView, present, cur, report, history>>

\* Copies everything it selected.
SkipsNothing(p, id) == FALSE

\* Whether the loop passes over id.
Skips(p, id) == id \in present[p]

Skip(p, id) ==
    /\ pc[p] = "loop" /\ id \in todo[p] /\ Skips(p, id)
    /\ todo' = [todo EXCEPT ![p] = @ \ {id}]
    /\ UNCHANGED <<stores, pc, srcView, present, located, cur, report, history>>

Begin(p, id) ==
    /\ pc[p] = "loop" /\ id \in todo[p] /\ ~Skips(p, id)
    /\ Go(p, "syncSnap")
    /\ cur' = [cur EXCEPT ![p] = {id}]
    /\ todo' = [todo EXCEPT ![p] = @ \ {id}]
    /\ UNCHANGED <<stores, srcView, present, located, report, history>>

\* ids get into the target, for every process to see.
Arrive(ids, others) ==
    /\ target' = target \cup ids
    /\ seen' = [q \in Procs |-> seen[q] \cup ids]
    /\ arrived' = [q \in Procs |-> IF q \in others THEN arrived[q] \cup ids
                                                   ELSE arrived[q]]

Synchronize(p) ==
    /\ pc[p] = "syncSnap" /\ Go(p, "loop")
    /\ Arrive(cur[p], Procs \ {p})
    /\ cur' = [cur EXCEPT ![p] = {}]
    /\ UNCHANGED <<source, srcView, present, located, todo, report>>

(***************************************************************************)
(* Any call of syncSnap failed: the snapshot or the parent that the state  *)
(* still lists may have been removed by others. The commit may be done.    *)
(***************************************************************************)
SyncFails(p) ==
    /\ pc[p] = "syncSnap" /\ Go(p, "loop")
    /\ report' = [report EXCEPT ![p] = "errors"]
    /\ \/ UNCHANGED <<target, history>>
       \/ Arrive(cur[p], Procs \ {p})
    /\ cur' = [cur EXCEPT ![p] = {}]
    /\ UNCHANGED <<source, srcView, present, located, todo>>

Return(p) ==
    /\ pc[p] = "loop" /\ todo[p] = {} /\ Go(p, "returned")
    /\ UNCHANGED <<stores, srcView, lists, history>>

\* The next process: this one returned, failed before its loop (opening,
\* listing or locating) or was killed at any time.
Restart(p) ==
    /\ pc[p] # "start" /\ Go(p, "start")
    /\ srcView' = [srcView EXCEPT ![p] = {}]
    /\ present' = [present EXCEPT ![p] = {}]
    /\ located' = [located EXCEPT ![p] = {}]
    /\ todo' = [todo EXCEPT ![p] = {}]
    /\ cur' = [cur EXCEPT ![p] = {}]
    /\ report' = [report EXCEPT ![p] = "clean"]
    /\ UNCHANGED <<stores, history>>

Sync(p) ==
    \/ OpenSource(p) \/ OpenTarget(p) \/ Locate(p)
    \/ \E id \in IDs : Skip(p, id) \/ Begin(p, id)
    \/ Synchronize(p) \/ SyncFails(p) \/ Return(p) \/ Restart(p)

-----------------------------------------------------------------------------
(* Other plaklets: backups and other syncs commit, and rm deletes, at any time *)

CommitIntoSource(id) ==
    /\ source' = source \cup {id}
    /\ UNCHANGED <<target, pc, srcView, lists, history>>

CommitIntoTarget(id) ==
    /\ Arrive({id}, Procs)
    /\ UNCHANGED <<source, pc, srcView, lists>>

RemoveFromSource(id) ==
    /\ source' = source \ {id}
    /\ UNCHANGED <<target, pc, srcView, lists, history>>

RemoveFromTarget(id) ==
    /\ target' = target \ {id}
    /\ UNCHANGED <<source, pc, srcView, lists, history>>

SharedNext ==
    \/ \E p \in Procs : Sync(p)
    \/ \E id \in IDs : \/ CommitIntoSource(id) \/ CommitIntoTarget(id)
                       \/ RemoveFromSource(id) \/ RemoveFromTarget(id)

SharedSpec == SharedInit /\ [][SharedNext]_sharedVars

-----------------------------------------------------------------------------
(* Properties *)

Points == {"start", "source opened", "listed", "loop", "syncSnap", "returned"}

\* Every variable keeps its type.
TypeOK ==
    /\ source \in SUBSET IDs /\ target \in SUBSET IDs
    /\ pc \in [Procs -> Points]
    /\ srcView \in [Procs -> SUBSET IDs] /\ present \in [Procs -> SUBSET IDs]
    /\ located \in [Procs -> SUBSET IDs] /\ todo \in [Procs -> SUBSET IDs]
    /\ cur \in [Procs -> SUBSET IDs]
    /\ report \in [Procs -> {"clean", "errors"}]
    /\ seen \in [Procs -> SUBSET IDs] /\ arrived \in [Procs -> SUBSET IDs]

(***************************************************************************)
(* A sync whose report counts no error covers its whole selection, however *)
(* stale its view of the target has become: each snapshot it selected was  *)
(* in the target at some time since the process opened it, put there by    *)
(* itself, by another sync, or earlier (sync.go:15).                       *)
(***************************************************************************)
SyncCovers ==
    \A p \in Procs : pc[p] = "returned" /\ report[p] = "clean" =>
                         located[p] \subseteq seen[p]

(***************************************************************************)
(* "skipping any the target already has" (sync.go:16), as far as a listing *)
(* made once can go: what a sync is about to copy is in the target only if *)
(* somebody else put it there after this process had opened the target.    *)
(***************************************************************************)
RetransferOnlyIfRaced ==
    \A p \in Procs : cur[p] \cap target \subseteq arrived[p]
=============================================================================
