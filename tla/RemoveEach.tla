----------------------------- MODULE RemoveEach -----------------------------
(***************************************************************************)
(* What rm promises, without its pool: the ids are taken one at a time, in *)
(* any order. Each is removed and listed, or counted as an error, once for *)
(* every time it was asked for, and the answer is given when none is left. *)
(* A removal that fails may have deleted the snapshot all the same. An rm  *)
(* that fails as a whole has touched nothing.                              *)
(***************************************************************************)
EXTENDS Naturals

CONSTANTS
    IDs,    \* the snapshot ids
    MaxIDs  \* bound on how often an id is asked for

VARIABLES
    pending,    \* how often each id is still asked for
    removed,    \* how often each was removed
    errors,     \* how many removals failed
    snapshots,  \* the snapshots in the store
    answer      \* what rm returns

vars == <<pending, removed, errors, snapshots, answer>>

NoAnswer == [kind |-> "none"]
Refusal  == [kind |-> "error"]
None     == [id \in IDs |-> 0]

Init ==
    /\ pending \in [IDs -> 0..MaxIDs]
    /\ removed = None /\ errors = 0
    /\ snapshots \in SUBSET IDs
    /\ answer = NoAnswer

Take(id) ==
    /\ answer = NoAnswer /\ pending[id] > 0
    /\ pending' = [pending EXCEPT ![id] = @ - 1]

Remove(id) ==
    /\ Take(id)
    /\ removed' = [removed EXCEPT ![id] = @ + 1]
    /\ snapshots' = snapshots \ {id}
    /\ UNCHANGED <<errors, answer>>

Fail(id) ==
    /\ Take(id)
    /\ errors' = errors + 1
    /\ snapshots' \in {snapshots, snapshots \ {id}}
    /\ UNCHANGED <<removed, answer>>

Answer ==
    /\ answer = NoAnswer /\ pending = None
    /\ answer' = [kind |-> "report", ids |-> removed, errors |-> errors]
    /\ UNCHANGED <<pending, removed, errors, snapshots>>

Refuse ==
    /\ answer = NoAnswer /\ removed = None /\ errors = 0
    /\ answer' = Refusal
    /\ UNCHANGED <<pending, removed, errors, snapshots>>

Next == (\E id \in IDs : Remove(id) \/ Fail(id)) \/ Answer \/ Refuse

Spec == Init /\ [][Next]_vars
=============================================================================
