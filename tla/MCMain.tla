------------------------------- MODULE MCMain -------------------------------
(* Main for TLC: two events of a restore, one of which is an entry error. *)
EXTENDS Main

Entry(k, o) ==
    [type |-> "entry", kind |-> k, outcome |-> o, path |-> "a", size |-> 1]

RestoreEvents == {Entry("file", "ok"), Entry("path", "error")}
=============================================================================
