------------------------------- MODULE Locate -------------------------------
(***************************************************************************)
(* The selection of snapshots: how check, sync and restore turn the flat   *)
(* task configuration of the control plane into locate options, and what   *)
(* these options find in a store that earlier backups filled.              *)
(*                                                                         *)
(* A configuration is a map of strings. It is given here as five maps, one *)
(* per conversion its values go through: text, booleans, times, seconds,   *)
(* and lists, whose keys "key.0", "key.1", ... are the indices of a        *)
(* function. A text, a list and a repetition of each stand for the several *)
(* that are read alike (dataset for name, category, environment, perimeter *)
(* and job; ids for types, origins, roots and data classes). Retention     *)
(* periods and group_by play no part in the selection.                     *)
(***************************************************************************)
EXTENDS Integers, Sequences, FiniteSets, Functions

CONSTANTS
    Half,     \* integers are -Half..Half - 1: 2^63 in the code
    Second,   \* time.Second, in the unit of time: 10^9 in the code
    Stores,   \* what the store may hold at first, a set of sets of snapshots
    Configs,  \* the task configurations of checks, syncs and restores
    Labels,   \* the label lists of backups, as a configuration has them
    MaxJobs   \* bound on the operations run

Start     == 4 * Second  \* when the first operation is dispatched
ZeroTime  == -2 * Half   \* a time.Time that was not set: no window reaches it
Malformed == -1          \* a text the conversion refuses

ASSUME LocateAssumption ==
    /\ Half \in Nat /\ Second \in 1..Half - 1 /\ MaxJobs \in Nat
    \* no two snapshots of a store were committed at the same time
    /\ \A snaps \in Stores :
          /\ IsFiniteSet(snaps)
          /\ \A s \in snaps : s.time \in 0..Start /\ s.tags = s.labels
          /\ \A s, t \in snaps : s.time = t.time => s = t
    /\ \A cfg \in Configs \cup Labels : \A key \in DOMAIN cfg.list :
          IsFiniteSet(DOMAIN cfg.list[key]) /\ DOMAIN cfg.list[key] \subseteq Nat
    /\ \A cfg \in Configs : \A key \in DOMAIN cfg.time :
          cfg.time[key] \in Nat \cup {Malformed}

VARIABLES
    now,       \* the clock
    store,     \* the committed snapshots, with the labels their backup was given
    jobs,      \* how many operations were started
    job,       \* the running operation and its configuration
    lo,        \* its locate options
    selected,  \* what was located, in no order
    result     \* "none", then "ok" or the error

vars == <<now, store, jobs, job, lo, selected, result>>

NoOptions == [before |-> ZeroTime, since |-> ZeroTime, dataset |-> "",
              tags |-> <<>>, ignoreTags |-> <<>>, latest |-> FALSE, ids |-> <<>>]

-----------------------------------------------------------------------------
(* Conversions *)

\* The elements before the first missing index.
indexedList(cfg, key) ==
    LET list == IF key \in DOMAIN cfg.list THEN cfg.list[key] ELSE <<>>
        n == CHOOSE n \in 0..Cardinality(DOMAIN list) :
                /\ n \notin DOMAIN list
                /\ \A i \in 0..n - 1 : i \in DOMAIN list
    IN  [i \in 1..n |-> list[i - 1]]

str(cfg, key, dst) == IF key \in DOMAIN cfg.str THEN cfg.str[key] ELSE dst

boolean(cfg, key, dst) ==
    IF key \in DOMAIN cfg.bool /\ cfg.bool[key] \in {"true", "false"}
    THEN cfg.bool[key] = "true" ELSE dst

when(cfg, key, dst) ==
    IF key \in DOMAIN cfg.time /\ cfg.time[key] # Malformed
    THEN cfg.time[key] ELSE dst

\* The signed integer that the low bits of x are.
Signed(x) == LET r == x % (2 * Half) IN IF r < Half THEN r ELSE r - 2 * Half

\* strconv.ParseUint refuses what does not fit.
Uint == 0..2 * Half - 1

\* -time.Duration(secs) * time.Second, in signed integers
ago(secs) == Signed(Signed(-Signed(secs)) * Second)

window(cfg, key, dst) ==
    IF key \in DOMAIN cfg.secs /\ cfg.secs[key] \in Uint
    THEN now + ago(cfg.secs[key]) ELSE dst

\* Replaces the tag filter even where no label is given.
foldLabelsAlways(labels, tags) == labels

\* Labels replace the tag filter.
foldLabels(labels, tags) == IF labels # <<>> THEN labels ELSE tags

\* The locate.filter namespace, and then the top-level keys, which win.
locateOptions(cfg) ==
    LET filters ==
            [before |-> when(cfg, "locate.filter.before", ZeroTime),
             since |-> when(cfg, "locate.filter.since", ZeroTime),
             dataset |-> str(cfg, "locate.filter.dataset", ""),
             tags |-> indexedList(cfg, "locate.filter.tags"),
             ignoreTags |-> indexedList(cfg, "locate.filter.ignore_tags"),
             latest |-> boolean(cfg, "locate.filter.latest", FALSE),
             ids |-> indexedList(cfg, "locate.filter.ids")]
        labels == indexedList(cfg, "labels")
        id == str(cfg, "snapshot_id", "")
    IN  [filters EXCEPT
             !.tags = foldLabels(labels, @),
             !.latest = boolean(cfg, "latest", @),
             !.ids = IF id # "" THEN <<id>> ELSE @,
             !.before = window(cfg, "before", @),
             !.since = window(cfg, "after", @)]

-----------------------------------------------------------------------------
(* Operations *)

\* Of a set of snapshots the one committed last.
Newest(snaps) == {s \in snaps : \A t \in snaps : t.time <= s.time}

(***************************************************************************)
(* locate.LocateSnapshotIDs, of kloset. An id is looked up by any prefix   *)
(* of it. Lists of labels with several elements do not occur here, since   *)
(* whether one or all of them must match is kloset's business.             *)
(***************************************************************************)
LocateSnapshotIDs(o) ==
    LET matching == {s \in store :
            /\ o.before # ZeroTime => s.time <= o.before
            /\ o.since # ZeroTime => s.time >= o.since
            /\ o.dataset # "" => s.dataset = o.dataset
            /\ o.tags # <<>> => Range(o.tags) \subseteq s.tags
            /\ Range(o.ignoreTags) \cap s.tags = {}
            /\ o.ids # <<>> => Range(o.ids) \cap s.prefixes # {}}
    IN  IF o.latest THEN Newest(matching) ELSE matching

Idle == [op |-> "none"]

\* What a list of the configuration says: it ends where an index is missing.
Listed(cfg, key) ==
    IF key \in DOMAIN cfg.list
    THEN LET list == cfg.list[key] IN
         {list[i] : i \in {i \in DOMAIN list : 0..i \subseteq DOMAIN list}}
    ELSE {}

Init ==
    /\ now = Start
    /\ store \in Stores
    /\ jobs = 0
    /\ job = Idle /\ lo = NoOptions /\ selected = {} /\ result = "none"

\* Time passes between two operations.
Dispatch(op, cfg) ==
    /\ job = Idle /\ jobs < MaxJobs
    /\ jobs' = jobs + 1 /\ now' = now + Second
    /\ job' = [op |-> op, cfg |-> cfg]
    /\ UNCHANGED <<store, lo, selected, result>>

\* The tags of a backup's snapshot are its labels.
Backup ==
    /\ job.op = "backup" /\ result = "none"
    /\ store' = store \cup
         {[time |-> now, dataset |-> "d1",
           tags |-> Range(indexedList(job.cfg, "labels")),
           prefixes |-> {"new"}, labels |-> Listed(job.cfg, "labels")]}
    /\ result' = "ok"
    /\ UNCHANGED <<now, jobs, job, lo, selected>>

Located == job.op \in {"check", "sync", "restore"} /\ result = "none"

\* check and sync take what the options find.
Select ==
    /\ Located /\ job.op # "restore"
    /\ lo' = locateOptions(job.cfg)
    /\ selected' = LocateSnapshotIDs(lo')
    /\ result' = "ok"
    /\ UNCHANGED <<now, store, jobs, job>>

\* Takes the latest only where no snapshot is named at all.
restoreOptionsUnnamed(o) == IF o.ids = <<>> THEN [o EXCEPT !.latest = TRUE] ELSE o

\* What restore makes of the options: one snapshot is named, or it is the latest.
restoreOptions(o) == IF Len(o.ids) # 1 THEN [o EXCEPT !.latest = TRUE] ELSE o

Restore ==
    /\ Located /\ job.op = "restore"
    /\ lo' = restoreOptions(locateOptions(job.cfg))
    /\ selected' = LocateSnapshotIDs(lo')
    /\ result' = CASE selected' = {} -> "no_snapshots"
                   [] Cardinality(selected') > 1 -> "multiple_snapshots"
                   [] OTHER -> "ok"
    /\ UNCHANGED <<now, store, jobs, job>>

Finish ==
    /\ result # "none"
    /\ job' = Idle /\ lo' = NoOptions /\ selected' = {} /\ result' = "none"
    /\ UNCHANGED <<now, store, jobs>>

Finished == job = Idle /\ jobs = MaxJobs /\ UNCHANGED vars

Next ==
    \/ \E op \in {"check", "sync", "restore"}, cfg \in Configs : Dispatch(op, cfg)
    \/ \E cfg \in Labels : Dispatch("backup", cfg)
    \/ Backup \/ Select \/ Restore \/ Finish \/ Finished

Spec == Init /\ [][Next]_vars

-----------------------------------------------------------------------------
(* Properties *)

(***************************************************************************)
(* What a configuration asks for, said without the options: an instant is  *)
(* the one the top-level window gives, seconds before now, or else the one *)
(* in the locate namespace.                                                *)
(***************************************************************************)
HasWindow(cfg, key) == key \in DOMAIN cfg.secs /\ cfg.secs[key] \in Uint

HasTime(cfg, key) == key \in DOMAIN cfg.time /\ cfg.time[key] # Malformed

NotAfter(cfg, t) ==
    IF HasWindow(cfg, "before") THEN t <= now - cfg.secs["before"] * Second
    ELSE HasTime(cfg, "locate.filter.before")
             => t <= cfg.time["locate.filter.before"]

NotBefore(cfg, t) ==
    IF HasWindow(cfg, "after") THEN t >= now - cfg.secs["after"] * Second
    ELSE HasTime(cfg, "locate.filter.since")
             => t >= cfg.time["locate.filter.since"]

AskedLabels(cfg) ==
    IF Listed(cfg, "labels") # {} THEN Listed(cfg, "labels")
                                  ELSE Listed(cfg, "locate.filter.tags")

AskedIDs(cfg) ==
    IF "snapshot_id" \in DOMAIN cfg.str /\ cfg.str["snapshot_id"] # ""
    THEN {cfg.str["snapshot_id"]} ELSE Listed(cfg, "locate.filter.ids")

AskedFor(cfg) ==
    {s \in store :
        /\ NotAfter(cfg, s.time) /\ NotBefore(cfg, s.time)
        /\ AskedLabels(cfg) \subseteq s.labels
        /\ Listed(cfg, "locate.filter.ignore_tags") \cap s.labels = {}
        /\ AskedIDs(cfg) = {} \/ AskedIDs(cfg) \cap s.prefixes # {}
        /\ "locate.filter.dataset" \in DOMAIN cfg.str
               => cfg.str["locate.filter.dataset"] \in {"", s.dataset}}

\* The last of the two keys that is a boolean counts.
AsksLatest(cfg) ==
    LET said == {k \in DOMAIN cfg.bool : cfg.bool[k] \in {"true", "false"}} IN
    \/ "latest" \in said /\ cfg.bool["latest"] = "true"
    \/ /\ "latest" \notin said /\ "locate.filter.latest" \in said
       /\ cfg.bool["locate.filter.latest"] = "true"

\* A window whose nanoseconds fit in an int64, some 292 years.
Fits(cfg) ==
    \A key \in DOMAIN cfg.secs :
        HasWindow(cfg, key) => cfg.secs[key] * Second < Half

(***************************************************************************)
(* check and sync work on exactly the snapshots the configuration asks     *)
(* for, whichever of the keys name them, in either namespace or in both,   *)
(* and whatever is malformed in it; the labels a backup was given find its *)
(* snapshot. Windows are those that fit (locate.go:24).                    *)
(***************************************************************************)
SelectionIsWhatWasAsked ==
    job.op \in {"check", "sync"} /\ result = "ok" /\ Fits(job.cfg) =>
        selected = IF AsksLatest(job.cfg) THEN Newest(AskedFor(job.cfg))
                                          ELSE AskedFor(job.cfg)

\* The configuration names a single snapshot, by a prefix of its id.
NamesOne(cfg) ==
    \/ "snapshot_id" \in DOMAIN cfg.str /\ cfg.str["snapshot_id"] # ""
    \/ /\ "locate.filter.ids" \in DOMAIN cfg.list
       /\ 0 \in DOMAIN cfg.list["locate.filter.ids"]
       /\ 1 \notin DOMAIN cfg.list["locate.filter.ids"]

(***************************************************************************)
(* restore exports the one snapshot that the configuration names, or else  *)
(* the newest of those it asks for, and fails exactly where there is none  *)
(* or the one name is a prefix of several ids and the latest of them is    *)
(* not asked for (restore.go:40-55). So several matches do not fail, where *)
(* README.md:63-64 has "restore requires exactly one match"; and one       *)
(* locate.filter.ids that several ids begin with does, where               *)
(* restore.go:14-16 has "otherwise the latest match".                      *)
(***************************************************************************)
RestoresTheOneAsked ==
    job.op = "restore" /\ result # "none" /\ Fits(job.cfg) =>
        LET found == AskedFor(job.cfg)
            match == IF NamesOne(job.cfg) /\ ~AsksLatest(job.cfg)
                     THEN found ELSE Newest(found)
        IN  /\ result = "ok" <=> Cardinality(match) = 1
            /\ result = "ok" => selected = match
            /\ result = "no_snapshots" <=> found = {}

(***************************************************************************)
(* "select snapshots via task_config: snapshot (a specific ID), ..."       *)
(* (README.md:62): a sync that names a snapshot copies no other.           *)
(***************************************************************************)
DocumentedKeysSelect ==
    job.op = "sync" /\ "snapshot" \in DOMAIN job.cfg.str =>
        \A s \in selected : job.cfg.str["snapshot"] \in s.prefixes
=============================================================================
