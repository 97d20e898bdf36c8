------------------------------ MODULE MCLocate ------------------------------
(***************************************************************************)
(* Locate for TLC. A second is 10 units and an integer has 8 bits, so that *)
(* windows up to 12 seconds fit and the others wrap. The families of       *)
(* configurations give every key in both namespaces: lists with a hole,    *)
(* booleans and times that do not parse, windows at the edges.             *)
(***************************************************************************)
EXTENDS Locate, TLC

\* The ways to give, or not to give, each of the keys one of the values.
Maybe(keys, values) == UNION {[K -> values] : K \in SUBSET keys}

Config(strs, bools, times, secs, lists) ==
    [str : strs, bool : bools, time : times, secs : secs, list : lists]

None == {<<>>}

LabelLists == {0 :> "a", 1 :> "a", (0 :> "b") @@ (2 :> "a")}
IDLists    == {0 :> "s1", 0 :> "s", (0 :> "s1") @@ (1 :> "s2")}

LabelConfigs ==
    Config(Maybe({"locate.filter.dataset"}, {"", "d1"}), None, None, None,
           Maybe({"labels", "locate.filter.tags", "locate.filter.ignore_tags"},
                 LabelLists))

NameConfigs ==
    Config(Maybe({"snapshot_id"}, {"", "s", "s2"}),
           Maybe({"latest", "locate.filter.latest"}, {"true", "false", "maybe"}),
           None, None, Maybe({"locate.filter.ids"}, IDLists))

TimeConfigs(seconds) ==
    Config(None, Maybe({"latest"}, {"true"}),
           Maybe({"locate.filter.before", "locate.filter.since"},
                 {20, Malformed}),
           Maybe({"before", "after"}, seconds), None)

MCConfigs ==
    LabelConfigs \cup NameConfigs
        \cup TimeConfigs({2, 12, 13, 255, 256})

ReadmeConfigs == Config(Maybe({"snapshot"}, {"s1"}), None, None, None, None)

LabelConfig(list) == [str |-> <<>>, bool |-> <<>>, time |-> <<>>, secs |-> <<>>,
                      list |-> "labels" :> list]

MCLabels == {LabelConfig(list) : list \in LabelLists}

Snapshot(id, time, tags, dataset) ==
    [time |-> time, dataset |-> dataset, tags |-> tags, labels |-> tags,
     prefixes |-> {"s", id}]

MCStores ==
    LET s1 == Snapshot("s1", 10, {"a"}, "d1")
        s2 == Snapshot("s2", 20, {"b"}, "d2")
        s3 == Snapshot("s3", 30, {"a", "b"}, "d1")
    IN  {{}, {s1, s3}, {s2, s3}, {s1, s2, s3}}
=============================================================================
