----------------------------- MODULE MCListener -----------------------------
(***************************************************************************)
(* Listener for TLC, for two kinds of runs: five events of PathEvents, a   *)
(* backup of three paths, or three of FoldEvents, which has every event    *)
(* type once or twice, with the sampler reading in between.                *)
(***************************************************************************)
EXTENDS Listener

Entry(k, o, p, n) ==
    [type |-> "entry", kind |-> k, outcome |-> o, path |-> p, size |-> n]

PathEvents ==
    {Entry("path", o, p, 0) : o \in Outcomes, p \in {"a", "b", "c"}}

Signal(t) == [type |-> t]

FoldEvents ==
    {Entry("file", "ok", "", 2), Entry("file", "cached", "", 3),
     Entry("file", "error", "", 0), Entry("xattr", "ok", "", -1),
     Entry("xattr", "cached", "", 4), Entry("directory", "error", "", 5),
     Entry("symlink", "ok", "", 5), Entry("object", "total", "", 5),
     Entry("chunk", "cached", "", 5), Entry("path", "error", "a", 5)}
    \cup {[type |-> "iostats", scope |-> sc, stats |-> n] :
              sc \in {"", "storage", "source"}, n \in {1, 2}}
    \cup {[type |-> "workflow.start", snapshot |-> id] : id \in {"", "s1"}}
    \cup {[type |-> "result", size |-> 7, errors |-> 1],
          [type |-> "fs.summary", files |-> 2, size |-> 5]}
    \cup {Signal(t) : t \in {"snapshot.import.start", "snapshot.vfs.start",
                             "snapshot.vfs.end", "snapshot.index.start",
                             "snapshot.index.end", "snapshot.commit.start"}}

AllEvents == PathEvents \cup FoldEvents

FoldLength == 3

MCNext ==
    \/ /\ Next
       /\ \/ ToSet(handled') \subseteq PathEvents /\ reads' = <<>>
          \/ ToSet(handled') \subseteq FoldEvents /\ Len(handled') <= FoldLength
    \/ Len(handled) = FoldLength /\ UNCHANGED vars

MCSpec == Init /\ [][MCNext]_vars
=============================================================================
