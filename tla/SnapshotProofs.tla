--------------------------- MODULE SnapshotProofs ---------------------------
(***************************************************************************)
(* The snapshots an operation works on. For any configurations, stores and *)
(* width of the integers: SelectionIsWhatWasAsked and RestoresTheOneAsked  *)
(* of Locate. For any number of processes and snapshots: SyncCovers and    *)
(* RetransferOnlyIfRaced of SharedStores.                                  *)
(***************************************************************************)
EXTENDS Locate, SharedStores, FiniteSetTheorems, WellFoundedInduction, TLAPS

-----------------------------------------------------------------------------
(* Numbers *)

\* A set of natural numbers that is not empty has a least element.
LEMMA Least ==
    ASSUME NEW A, A \subseteq Nat, A # {}
    PROVE  \E i \in A : \A j \in A : i <= j
<1> DEFINE R == OpToRel(<, Nat)
<1>1. IsWellFoundedOn(R, Nat) BY NatLessThanWellFounded
<1>2. \A i, j \in Nat : j < i => <<j, i>> \in R BY DEF OpToRel
<1> HIDE DEF R
<1>3. PICK i \in A : \A j \in A : ~(<<j, i>> \in R) BY <1>1, WFMin
<1>4. ASSUME NEW j \in A PROVE i <= j
  <2>1. i \in Nat /\ j \in Nat OBVIOUS
  <2>2. ~(j < i) BY <1>2, <1>3, <2>1
  <2> QED BY <2>1, <2>2
<1> QED BY <1>4

\* One that is bounded has a greatest one.
LEMMA Greatest ==
    ASSUME NEW A, NEW m \in Nat, A \subseteq 0..m, A # {}
    PROVE  \E i \in A : \A j \in A : j <= i
<1> DEFINE B == {k \in 0..m : m - k \in A}
<1>1. B \subseteq Nat OBVIOUS
<1>2. B # {}
  <2>1. PICK a \in A : TRUE OBVIOUS
  <2>2. m - a \in 0..m /\ m - (m - a) = a OBVIOUS
  <2> QED BY <2>1, <2>2
<1>3. PICK k \in B : \A l \in B : k <= l BY <1>1, <1>2, Least
<1>4. ASSUME NEW j \in A PROVE j <= m - k
  <2>1. m - j \in 0..m /\ m - (m - j) = j /\ j \in 0..m OBVIOUS
  <2>2. m - j \in B BY <2>1
  <2>3. k <= m - j BY <1>3, <2>2
  <2>4. k \in 0..m OBVIOUS
  <2> QED BY <2>1, <2>3, <2>4
<1> QED BY <1>4

\* An integer that fits is what its low bits are.
LEMMA SignedFits ==
    ASSUME NEW x \in Int, -Half <= x, x < Half
    PROVE  Signed(x) = x
<1> DEFINE m == 2 * Half
<1>1. Half \in Nat /\ Half > 0 BY LocateAssumption
<1>2. CASE 0 <= x
  <2>1. x % m = x BY <1>1, <1>2
  <2> QED BY <1>1, <1>2, <2>1 DEF Signed
<1>3. CASE x < 0
  <2>1. x % m = x + m BY <1>1, <1>3
  <2> QED BY <1>1, <1>3, <2>1 DEF Signed
<1> QED BY <1>2, <1>3

\* A factor of at least one makes nothing smaller.
LEMMA Times ==
    \A a \in Nat, b \in Nat \ {0} : a * b \in Nat /\ a <= a * b /\ (-a) * b = -(a * b)
  OBVIOUS

\* A window that fits is that many seconds.
LEMMA Ago ==
    ASSUME NEW secs \in Nat, secs * Second < Half
   
    PROVE  ago(secs) = -(secs * Second) /\ ago(secs) \in Int /\ -Half < ago(secs)
<1> DEFINE w == secs * Second
<1>1. Half \in Nat /\ Second \in Nat \ {0} BY LocateAssumption
<1>2. w \in Nat /\ secs <= w /\ (-secs) * Second = -w BY <1>1, Times
<1>3. w < Half OBVIOUS
<1> HIDE DEF w
<1>4. Signed(secs) = secs BY <1>1, <1>2, <1>3, SignedFits
<1>5. Signed(-secs) = -secs BY <1>1, <1>2, <1>3, SignedFits
<1>6. Signed(-w) = -w BY <1>1, <1>2, <1>3, SignedFits
<1>7. ago(secs) = -w BY <1>2, <1>4, <1>5, <1>6 DEF ago
<1> QED BY <1>1, <1>2, <1>3, <1>7 DEF w

-----------------------------------------------------------------------------
(* Conversions *)

Cfgs == Configs \cup Labels

\* The list of a configuration, empty where there is none.
ListOf(cfg, key) == IF key \in DOMAIN cfg.list THEN cfg.list[key] ELSE <<>>

\* Where a list ends: its first missing index.
IsEnd(list, e) == e \notin DOMAIN list /\ \A i \in 0..e - 1 : i \in DOMAIN list

End(list) == CHOOSE e \in 0..Cardinality(DOMAIN list) : IsEnd(list, e)

\* A finite set of indices misses one of the first ones.
LEMMA EndExists ==
    ASSUME NEW list, IsFiniteSet(DOMAIN list), DOMAIN list \subseteq Nat
    PROVE  End(list) \in Nat /\ IsEnd(list, End(list))
<1> DEFINE D == DOMAIN list
           c == Cardinality(D)
           A == {e \in 0..c : e \notin D}
<1>1. c \in Nat BY FS_CardinalityType
<1>2. A # {}
  <2> SUFFICES ASSUME 0..c \subseteq D PROVE FALSE OBVIOUS
  <2>1. Cardinality(0..c) = c + 1 BY <1>1, FS_Interval
  <2>2. Cardinality(0..c) <= c BY <1>1, FS_Subset
  <2> QED BY <1>1, <2>1, <2>2
<1>nat. A \subseteq Nat BY <1>1
<1>3. PICK e \in A : \A f \in A : e <= f BY <1>2, <1>nat, Least
<1>4. e \in 0..c /\ IsEnd(list, e)
  <2>1. ASSUME NEW i \in 0..e - 1 PROVE i \in D
    <3>1. i \in 0..c /\ i < e BY <1>1
    <3>2. i \notin A BY <1>1, <1>3, <3>1
    <3> QED BY <3>1, <3>2
  <2> QED BY <2>1 DEF IsEnd
<1>5. End(list) \in 0..c /\ IsEnd(list, End(list)) BY <1>4 DEF End
<1> QED BY <1>1, <1>5

\* A list has one element.
HasOne(cfg, key) == /\ key \in DOMAIN cfg.list
                    /\ 0 \in DOMAIN cfg.list[key] /\ 1 \notin DOMAIN cfg.list[key]

\* A list is read up to its end, and says what is found there.
LEMMA ListRead ==
    ASSUME NEW cfg \in Cfgs, NEW key
    PROVE  /\ Range(indexedList(cfg, key)) = Listed(cfg, key)
           /\ indexedList(cfg, key) = <<>> <=> Listed(cfg, key) = {}
           /\ Len(indexedList(cfg, key)) = 1 =>
                  \E x : indexedList(cfg, key) = <<x>> /\ Listed(cfg, key) = {x}
           /\ Len(indexedList(cfg, key)) = 1 <=> HasOne(cfg, key)
<1> DEFINE list == ListOf(cfg, key)
           e    == End(list)
           il   == [i \in 1..e |-> list[i - 1]]
<1>1. indexedList(cfg, key) = il BY DEF indexedList, ListOf, End, IsEnd
<1>2. IsFiniteSet(DOMAIN list) /\ DOMAIN list \subseteq Nat
  <2>1. CASE key \in DOMAIN cfg.list
    BY <2>1, LocateAssumption DEF ListOf, Cfgs
  <2>2. CASE key \notin DOMAIN cfg.list
    <3>1. DOMAIN list = {} BY <2>2 DEF ListOf
    <3> QED BY <3>1, FS_EmptySet
  <2> QED BY <2>1, <2>2
<1>3. e \in Nat /\ e \notin DOMAIN list /\ \A i \in 0..e - 1 : i \in DOMAIN list
  BY <1>2, EndExists DEF IsEnd
<1>4. Listed(cfg, key) = {list[i] : i \in {i \in DOMAIN list : 0..i \subseteq DOMAIN list}}
  <2>1. CASE key \in DOMAIN cfg.list BY <2>1 DEF Listed, ListOf
  <2>2. CASE key \notin DOMAIN cfg.list BY <2>2 DEF Listed, ListOf
  <2> QED BY <2>1, <2>2
<1> HIDE DEF list, e
<1>5. {i \in DOMAIN list : 0..i \subseteq DOMAIN list} = 0..e - 1
  <2>1. ASSUME NEW i \in DOMAIN list, 0..i \subseteq DOMAIN list
        PROVE  i \in 0..e - 1
    <3>1. i \in Nat BY <1>2
    <3>2. e \notin 0..i BY <1>3, <2>1
    <3> QED BY <1>3, <3>1, <3>2
  <2>2. ASSUME NEW i \in 0..e - 1
        PROVE  i \in DOMAIN list /\ 0..i \subseteq DOMAIN list
    BY <1>3
  <2> QED BY <2>1, <2>2
<1>6. Listed(cfg, key) = {list[i] : i \in 0..e - 1} BY <1>4, <1>5
<1>7. Range(il) = Listed(cfg, key)
  <2>1. Range(il) = {list[i - 1] : i \in 1..e} BY DEF Range
  <2>2. \A i \in 1..e : i - 1 \in 0..e - 1 BY <1>3
  <2>3. \A i \in 0..e - 1 : i + 1 \in 1..e /\ (i + 1) - 1 = i BY <1>3
  <2> QED BY <1>6, <2>1, <2>2, <2>3
<1>8. Len(il) = e BY <1>3
<1>9. e = 0 => il = <<>> BY <1>3
<1>10. e # 0 => il # <<>> BY <1>3, <1>8
<1>11. e = 0 <=> Listed(cfg, key) = {}
  <2>1. e = 0 => 0..e - 1 = {} OBVIOUS
  <2>2. e # 0 => 0 \in 0..e - 1 BY <1>3
  <2> QED BY <1>6, <2>1, <2>2
<1>12. e = 1 => il = <<list[0]>> /\ Listed(cfg, key) = {list[0]}
  <2> SUFFICES ASSUME e = 1
               PROVE  il = <<list[0]>> /\ Listed(cfg, key) = {list[0]}
    OBVIOUS
  <2>1. 0..e - 1 = {0} OBVIOUS
  <2>2. il = <<list[0]>> OBVIOUS
  <2> QED BY <1>6, <2>1, <2>2
<1>13. e = 1 <=> HasOne(cfg, key)
  <2>1. e = 1 <=> 0 \in DOMAIN list /\ 1 \notin DOMAIN list
    <3>1. e = 0 => 0 \notin DOMAIN list BY <1>3
    <3>2. e = 1 => 0 \in 0..e - 1 OBVIOUS
    <3>3. e > 1 => 1 \in 0..e - 1 BY <1>3
    <3> QED BY <1>3, <3>1, <3>2, <3>3
  <2>2. key \in DOMAIN cfg.list => list = cfg.list[key] BY DEF list, ListOf
  <2>3. key \notin DOMAIN cfg.list => DOMAIN list = {} BY DEF list, ListOf
  <2> QED BY <2>1, <2>2, <2>3 DEF HasOne
<1> QED BY <1>1, <1>7, <1>8, <1>9, <1>10, <1>11, <1>12, <1>13

\* The options of a configuration, one by one.
LEMMA Options ==
    ASSUME NEW cfg
    PROVE  LET o == locateOptions(cfg) IN
           /\ o.before = window(cfg, "before",
                                when(cfg, "locate.filter.before", ZeroTime))
           /\ o.since = window(cfg, "after",
                               when(cfg, "locate.filter.since", ZeroTime))
           /\ o.dataset = str(cfg, "locate.filter.dataset", "")
           /\ o.tags = foldLabels(indexedList(cfg, "labels"),
                                  indexedList(cfg, "locate.filter.tags"))
           /\ o.ignoreTags = indexedList(cfg, "locate.filter.ignore_tags")
           /\ o.latest = boolean(cfg, "latest",
                                 boolean(cfg, "locate.filter.latest", FALSE))
           /\ o.ids = IF str(cfg, "snapshot_id", "") # ""
                      THEN <<str(cfg, "snapshot_id", "")>>
                      ELSE indexedList(cfg, "locate.filter.ids")
           /\ \E v1, v2, v3, v4, v5, v6, v7 :
                  o = [before |-> v1, since |-> v2, dataset |-> v3, tags |-> v4,
                       ignoreTags |-> v5, latest |-> v6, ids |-> v7]
<1> DEFINE id == str(cfg, "snapshot_id", "")
           b  == when(cfg, "locate.filter.before", ZeroTime)
           s  == when(cfg, "locate.filter.since", ZeroTime)
           d  == str(cfg, "locate.filter.dataset", "")
           t  == indexedList(cfg, "locate.filter.tags")
           g  == indexedList(cfg, "locate.filter.ignore_tags")
           l  == boolean(cfg, "locate.filter.latest", FALSE)
           i  == indexedList(cfg, "locate.filter.ids")
           f  == [before |-> b, since |-> s, dataset |-> d, tags |-> t,
                  ignoreTags |-> g, latest |-> l, ids |-> i]
           b2 == window(cfg, "before", b)
           s2 == window(cfg, "after", s)
           t2 == foldLabels(indexedList(cfg, "labels"), t)
           l2 == boolean(cfg, "latest", l)
           i2 == IF id # "" THEN <<id>> ELSE i
<1>1. locateOptions(cfg) =
          [f EXCEPT !.tags = foldLabels(indexedList(cfg, "labels"), @),
                    !.latest = boolean(cfg, "latest", @),
                    !.ids = IF id # "" THEN <<id>> ELSE @,
                    !.before = window(cfg, "before", @),
                    !.since = window(cfg, "after", @)]
  BY Zenon DEF locateOptions
<1>2. locateOptions(cfg) =
          [f EXCEPT !.tags = t2, !.latest = l2, !.ids = i2, !.before = b2,
                    !.since = s2]
  BY <1>1
<1> HIDE DEF id, b, s, d, t, g, l, i, b2, s2, t2, l2, i2
<1>3. locateOptions(cfg) = [before |-> b2, since |-> s2, dataset |-> d, tags |-> t2,
                            ignoreTags |-> g, latest |-> l2, ids |-> i2]
  BY <1>2
<1> DEFINE o == locateOptions(cfg)
<1>4. /\ o.before = b2 /\ o.since = s2 /\ o.dataset = d /\ o.tags = t2
      /\ o.ignoreTags = g /\ o.latest = l2 /\ o.ids = i2
  BY <1>3
<1>5. \E v1, v2, v3, v4, v5, v6, v7 :
          o = [before |-> v1, since |-> v2, dataset |-> v3, tags |-> v4,
               ignoreTags |-> v5, latest |-> v6, ids |-> v7]
  BY <1>3, Zenon
<1>6. o.ids = IF str(cfg, "snapshot_id", "") # ""
              THEN <<str(cfg, "snapshot_id", "")>>
              ELSE indexedList(cfg, "locate.filter.ids")
  BY <1>4, Zenon DEF i2, i, id
<1> QED BY <1>4, <1>5, <1>6, Zenon DEF b, s, d, t, g, l, b2, s2, t2, l2

\* An instant from a window or from a time is what the configuration asks for.
LEMMA InstantAsked ==
    ASSUME NEW cfg \in Configs, Fits(cfg), now \in Nat, NEW key, NEW other
    PROVE  LET at == window(cfg, key, when(cfg, other, ZeroTime)) IN
           /\ HasWindow(cfg, key) =>
                  at # ZeroTime /\ at = now - cfg.secs[key] * Second
           /\ ~HasWindow(cfg, key) /\ HasTime(cfg, other) =>
                  at # ZeroTime /\ at = cfg.time[other]
           /\ ~HasWindow(cfg, key) /\ ~HasTime(cfg, other) => at = ZeroTime
<1> DEFINE at == window(cfg, key, when(cfg, other, ZeroTime))
<1>1. Half \in Nat /\ Half > 0 BY LocateAssumption
<1>2. CASE HasWindow(cfg, key)
  <2> DEFINE secs == cfg.secs[key]
  <2>1. at = now + ago(secs) BY <1>2 DEF window, HasWindow
  <2>2. secs \in Nat BY <1>1, <1>2 DEF HasWindow, Uint
  <2>3. secs * Second < Half BY <1>2 DEF Fits, HasWindow
  <2> DEFINE w == secs * Second
  <2>4. ago(secs) = -w /\ ago(secs) \in Int /\ -Half < ago(secs)
    BY <2>2, <2>3, Ago
  <2>5. w \in Nat
    <3>1. Second \in Nat BY LocateAssumption
    <3> QED BY <2>2, <3>1
  <2> HIDE DEF w, secs
  <2>6. now + ago(secs) = now - w /\ now - w # -2 * Half BY <1>1, <2>4, <2>5
  <2> QED BY <1>2, <2>1, <2>6 DEF ZeroTime, w, secs
<1>3. CASE ~HasWindow(cfg, key)
  <2>1. at = when(cfg, other, ZeroTime) BY <1>3 DEF window, HasWindow
  <2>2. CASE HasTime(cfg, other)
    <3>1. cfg.time[other] \in Nat BY <2>2, LocateAssumption DEF HasTime
    <3>2. at = cfg.time[other] BY <2>1, <2>2 DEF when, HasTime
    <3> QED BY <1>1, <1>3, <2>2, <3>1, <3>2 DEF ZeroTime
  <2>3. CASE ~HasTime(cfg, other)
    BY <1>3, <2>1, <2>3 DEF when, HasTime
  <2> QED BY <2>2, <2>3
<1> QED BY <1>2, <1>3

\* The labels asked for are the tags looked for.
LEMMA LabelsAsked ==
    ASSUME NEW cfg \in Configs
    PROVE  /\ Range(locateOptions(cfg).tags) = AskedLabels(cfg)
           /\ locateOptions(cfg).tags = <<>> => AskedLabels(cfg) = {}
<1> DEFINE labels == indexedList(cfg, "labels")
           tags   == indexedList(cfg, "locate.filter.tags")
<1>1. locateOptions(cfg).tags = IF labels # <<>> THEN labels ELSE tags
  BY Options DEF foldLabels
<1>2. /\ Range(labels) = Listed(cfg, "labels")
      /\ labels = <<>> <=> Listed(cfg, "labels") = {}
  BY ListRead DEF Cfgs
<1>3. /\ Range(tags) = Listed(cfg, "locate.filter.tags")
      /\ tags = <<>> <=> Listed(cfg, "locate.filter.tags") = {}
  BY ListRead DEF Cfgs
<1> HIDE DEF labels, tags
<1> QED BY <1>1, <1>2, <1>3 DEF AskedLabels

\* The ids asked for are those looked up.
LEMMA IDsAsked ==
    ASSUME NEW cfg \in Configs
    PROVE  /\ Range(locateOptions(cfg).ids) = AskedIDs(cfg)
           /\ locateOptions(cfg).ids = <<>> <=> AskedIDs(cfg) = {}
           /\ Len(locateOptions(cfg).ids) = 1 <=> NamesOne(cfg)
<1> DEFINE id  == str(cfg, "snapshot_id", "")
           ids == indexedList(cfg, "locate.filter.ids")
<1>1. locateOptions(cfg).ids = IF id # "" THEN <<id>> ELSE ids BY Options
<1>2. AskedIDs(cfg) = IF id # "" THEN {id} ELSE Listed(cfg, "locate.filter.ids")
  BY DEF AskedIDs, str
<1>3. /\ Range(ids) = Listed(cfg, "locate.filter.ids")
      /\ ids = <<>> <=> Listed(cfg, "locate.filter.ids") = {}
      /\ Len(ids) = 1 <=> HasOne(cfg, "locate.filter.ids")
  BY ListRead DEF Cfgs
<1>n. NamesOne(cfg) <=> id # "" \/ HasOne(cfg, "locate.filter.ids")
  BY DEF NamesOne, HasOne, str
<1> HIDE DEF id, ids
<1>4. Range(<<id>>) = {id} /\ <<id>> # <<>> /\ Len(<<id>>) = 1 BY DEF Range
<1>5. CASE id # ""
  <2>1. locateOptions(cfg).ids = <<id>> /\ AskedIDs(cfg) = {id}
    BY <1>1, <1>2, <1>5
  <2>2. {id} # {} OBVIOUS
  <2> QED BY <1>4, <1>5, <1>n, <2>1, <2>2, Zenon
<1>6. CASE id = "" BY <1>1, <1>2, <1>3, <1>6, <1>n
<1> QED BY <1>5, <1>6

\* The latest is looked for where it is asked for.
LEMMA LatestAsked ==
    ASSUME NEW cfg
    PROVE  locateOptions(cfg).latest <=> AsksLatest(cfg)
<1>1. locateOptions(cfg).latest
          = boolean(cfg, "latest", boolean(cfg, "locate.filter.latest", FALSE))
  BY Options
<1> QED BY <1>1 DEF AsksLatest, boolean

\* Two options that find the same, taking the latest or not.
Alike(o, p) ==
    /\ o.before = p.before /\ o.since = p.since /\ o.dataset = p.dataset
    /\ o.tags = p.tags /\ o.ignoreTags = p.ignoreTags /\ o.ids = p.ids

\* What restore changes is whether the latest is taken.
LEMMA RestoreChanges ==
    ASSUME NEW cfg
    PROVE  LET o == locateOptions(cfg)
               r == restoreOptions(o) IN
           /\ Alike(r, o)
           /\ Len(o.ids) # 1 => r.latest = TRUE
           /\ Len(o.ids) = 1 => r.latest = o.latest
<1> DEFINE o == locateOptions(cfg)
           r == restoreOptions(o)
<1>1. PICK v1, v2, v3, v4, v5, v6, v7 :
          o = [before |-> v1, since |-> v2, dataset |-> v3, tags |-> v4,
               ignoreTags |-> v5, latest |-> v6, ids |-> v7]
  BY Options, Zenon
<1> HIDE DEF o
<1>2. ASSUME Len(o.ids) # 1 PROVE Alike(r, o) /\ r.latest = TRUE
  <2>1. r = [o EXCEPT !.latest = TRUE] BY <1>2 DEF restoreOptions
  <2>2. r = [before |-> v1, since |-> v2, dataset |-> v3, tags |-> v4,
             ignoreTags |-> v5, latest |-> TRUE, ids |-> v7]
    BY <1>1, <2>1
  <2> HIDE DEF r
  <2> QED BY <1>1, <2>2 DEF Alike
<1>3. ASSUME Len(o.ids) = 1 PROVE Alike(r, o) /\ r.latest = o.latest
  <2>1. r = o BY <1>3 DEF restoreOptions
  <2> HIDE DEF r
  <2> QED BY <2>1, Zenon DEF Alike
<1> QED BY <1>2, <1>3, Zenon DEF o

-----------------------------------------------------------------------------
(* Selection *)

\* What the options match, before the latest is taken.
Matches(o, s) ==
    /\ o.before # ZeroTime => s.time <= o.before
    /\ o.since # ZeroTime => s.time >= o.since
    /\ o.dataset # "" => s.dataset = o.dataset
    /\ o.tags # <<>> => Range(o.tags) \subseteq s.tags
    /\ Range(o.ignoreTags) \cap s.tags = {}
    /\ o.ids # <<>> => Range(o.ids) \cap s.prefixes # {}

\* A snapshot matches the options of a configuration where it is asked for.
LEMMA MatchAsked ==
    ASSUME NEW cfg \in Configs, Fits(cfg), now \in Nat,
           NEW o, Alike(o, locateOptions(cfg)),
           NEW s \in store, s.tags = s.labels
    PROVE  Matches(o, s) <=> s \in AskedFor(cfg)
<1> DEFINE lc == locateOptions(cfg)
           Dataset == "locate.filter.dataset" \in DOMAIN cfg.str
                         => cfg.str["locate.filter.dataset"] \in {"", s.dataset}
<1>0. /\ o.before = lc.before /\ o.since = lc.since /\ o.dataset = lc.dataset
      /\ o.tags = lc.tags /\ o.ignoreTags = lc.ignoreTags /\ o.ids = lc.ids
  BY Zenon DEF Alike
<1>1. (o.before # ZeroTime => s.time <= o.before) <=> NotAfter(cfg, s.time)
  <2> DEFINE at == window(cfg, "before", when(cfg, "locate.filter.before",
         ZeroTime))
  <2>1. o.before = at BY <1>0, Options, Zenon
  <2>2. /\ HasWindow(cfg, "before") =>
               at # ZeroTime /\ at = now - cfg.secs["before"] * Second
        /\ ~HasWindow(cfg, "before") /\ HasTime(cfg, "locate.filter.before") =>
               at # ZeroTime /\ at = cfg.time["locate.filter.before"]
        /\ ~HasWindow(cfg, "before") /\ ~HasTime(cfg, "locate.filter.before") =>
               at = ZeroTime
    BY InstantAsked, Zenon
  <2> HIDE DEF at
  <2> QED BY <2>1, <2>2, Zenon DEF NotAfter
<1>2. (o.since # ZeroTime => s.time >= o.since) <=> NotBefore(cfg, s.time)
  <2> DEFINE at == window(cfg, "after", when(cfg, "locate.filter.since",
         ZeroTime))
  <2>1. o.since = at BY <1>0, Options, Zenon
  <2>2. /\ HasWindow(cfg, "after") =>
               at # ZeroTime /\ at = now - cfg.secs["after"] * Second
        /\ ~HasWindow(cfg, "after") /\ HasTime(cfg, "locate.filter.since") =>
               at # ZeroTime /\ at = cfg.time["locate.filter.since"]
        /\ ~HasWindow(cfg, "after") /\ ~HasTime(cfg, "locate.filter.since") =>
               at = ZeroTime
    BY InstantAsked, Zenon
  <2> HIDE DEF at
  <2> QED BY <2>1, <2>2, Zenon DEF NotBefore
<1>3. (o.dataset # "" => s.dataset = o.dataset) <=> Dataset
  <2>1. o.dataset = str(cfg, "locate.filter.dataset", "")
    BY <1>0, Options, Zenon
  <2>2. CASE "locate.filter.dataset" \in DOMAIN cfg.str
    <3>1. o.dataset = cfg.str["locate.filter.dataset"]
      BY <2>1, <2>2, Zenon DEF str
    <3> QED BY <2>2, <3>1, Zenon
  <2>3. CASE "locate.filter.dataset" \notin DOMAIN cfg.str
    <3>1. o.dataset = "" BY <2>1, <2>3, Zenon DEF str
    <3> QED BY <2>3, <3>1, Zenon
  <2> QED BY <2>2, <2>3
<1>4. (o.tags # <<>> => Range(o.tags) \subseteq s.tags)
          <=> AskedLabels(cfg) \subseteq s.labels
  <2>1. Range(o.tags) = AskedLabels(cfg) /\ (o.tags = <<>> => AskedLabels(cfg) = {})
    BY <1>0, LabelsAsked, Zenon
  <2> QED BY <2>1, Zenon
<1>5. Range(o.ignoreTags) \cap s.tags = {}
          <=> Listed(cfg, "locate.filter.ignore_tags") \cap s.labels = {}
  <2>1. o.ignoreTags = indexedList(cfg, "locate.filter.ignore_tags")
    BY <1>0, Options, Zenon
  <2>2. cfg \in Cfgs BY DEF Cfgs
  <2>3. Range(o.ignoreTags) = Listed(cfg, "locate.filter.ignore_tags")
    BY <2>1, <2>2, ListRead, Zenon
  <2> QED BY <2>3, Zenon
<1>6. (o.ids # <<>> => Range(o.ids) \cap s.prefixes # {})
          <=> (AskedIDs(cfg) = {} \/ AskedIDs(cfg) \cap s.prefixes # {})
  <2>1. Range(o.ids) = AskedIDs(cfg) /\ (o.ids = <<>> <=> AskedIDs(cfg) = {})
    BY <1>0, IDsAsked, Zenon
  <2> QED BY <2>1, Zenon
<1>7. s \in AskedFor(cfg) <=>
          /\ NotAfter(cfg, s.time) /\ NotBefore(cfg, s.time)
          /\ AskedLabels(cfg) \subseteq s.labels
          /\ Listed(cfg, "locate.filter.ignore_tags") \cap s.labels = {}
          /\ AskedIDs(cfg) = {} \/ AskedIDs(cfg) \cap s.prefixes # {}
          /\ Dataset
  BY Zenon DEF AskedFor
<1> HIDE DEF Dataset
<1> QED BY <1>1, <1>2, <1>3, <1>4, <1>5, <1>6, <1>7, Zenon DEF Matches

\* What is located is what was asked for, or the newest of it.
LEMMA LocatedAsAsked ==
    ASSUME NEW cfg \in Configs, Fits(cfg), now \in Nat,
           \A s \in store : s.tags = s.labels,
           NEW o, Alike(o, locateOptions(cfg))
    PROVE  LocateSnapshotIDs(o) = IF o.latest THEN Newest(AskedFor(cfg))
                                              ELSE AskedFor(cfg)
<1> DEFINE matching == {s \in store : Matches(o, s)}
<1>1. LocateSnapshotIDs(o) = IF o.latest THEN Newest(matching) ELSE matching
  BY Zenon DEF LocateSnapshotIDs, Matches
<1>2. AskedFor(cfg) \subseteq store BY DEF AskedFor
<1>3. \A s \in store : Matches(o, s) <=> s \in AskedFor(cfg) BY MatchAsked
<1>4. matching = AskedFor(cfg) BY <1>2, <1>3, Zenon
<1> HIDE DEF matching
<1> QED BY <1>1, <1>4

\* Where no two were committed at the same time one is the newest.
LEMMA OneNewest ==
    ASSUME NEW A, A # {}, NEW m \in Nat, \A s \in A : s.time \in 0..m,
           \A s, t \in A : s.time = t.time => s = t
    PROVE  \E x \in A : Newest(A) = {x}
<1> DEFINE T == {s.time : s \in A}
<1>1. T \subseteq 0..m /\ T # {} OBVIOUS
<1>2. PICK i \in T : \A j \in T : j <= i BY <1>1, Greatest
<1>3. PICK x \in A : x.time = i OBVIOUS
<1>4. x \in Newest(A) BY <1>2, <1>3 DEF Newest
<1>5. ASSUME NEW y \in Newest(A) PROVE y = x
  <2>1. y \in A /\ x.time <= y.time BY DEF Newest
  <2>2. y.time <= x.time BY <1>2, <1>3, <2>1
  <2>3. x.time \in Int /\ y.time \in Int BY <2>1
  <2>4. x.time = y.time BY <2>1, <2>2, <2>3
  <2> QED BY <2>1, <2>4
<1>6. Newest(A) = {x} BY <1>4, <1>5
<1> QED BY <1>6

-----------------------------------------------------------------------------
(* The invariant *)

\* The store: a snapshot's tags are its labels, and no two have the same time.
StoreInv ==
    /\ now \in Nat /\ IsFiniteSet(store)
    /\ \A s \in store : s.time \in 0..now /\ s.tags = s.labels
    /\ \A s, t \in store : s.time = t.time => s = t

Locating == {"check", "sync", "restore"}

JobInv ==
    \/ job = Idle /\ result = "none"
    \/ \E op \in Locating, cfg \in Configs : job = [op |-> op, cfg |-> cfg]
    \/ \E cfg \in Labels : job = [op |-> "backup", cfg |-> cfg]

\* An operation under way is later than every snapshot.
Later == job # Idle /\ result = "none" => \A s \in store : s.time < now

\* The inductive invariant.
LocateInv ==
    StoreInv /\ JobInv /\ Later /\ SelectionIsWhatWasAsked /\ RestoresTheOneAsked

\* The initial states satisfy the invariant.
LEMMA LocateInit == Init => LocateInv
<1> SUFFICES ASSUME Init PROVE LocateInv OBVIOUS
<1>1. Start \in Nat BY LocateAssumption DEF Start
<1>2. StoreInv BY <1>1, LocateAssumption DEF Init, StoreInv
<1>3. JobInv /\ Later BY DEF Init, JobInv, Later
<1>4. job.op = "none" BY DEF Init, Idle
<1>5. SelectionIsWhatWasAsked /\ RestoresTheOneAsked
  BY <1>4 DEF SelectionIsWhatWasAsked, RestoresTheOneAsked
<1> QED BY <1>2, <1>3, <1>5 DEF LocateInv

\* Time passes at a dispatch, so that the store is in the past.
LEMMA DispatchKeeps ==
    ASSUME LocateInv, NEW op, NEW cfg, Dispatch(op, cfg),
           \/ op \in Locating /\ cfg \in Configs
           \/ op = "backup" /\ cfg \in Labels
    PROVE  LocateInv'
<1> USE DEF LocateInv
<1>1. /\ job = Idle /\ now' = now + Second /\ job' = [op |-> op, cfg |-> cfg]
      /\ store' = store /\ result' = result
  BY DEF Dispatch
<1>2. Second \in Nat \ {0} BY LocateAssumption
<1>3. now \in Nat /\ \A s \in store : s.time \in 0..now BY DEF StoreInv
<1>4. now' \in Nat /\ now < now' BY <1>1, <1>2, <1>3
<1>5. \A s \in store : s.time \in 0..now' /\ s.time < now' BY <1>3, <1>4
<1>6. StoreInv' BY <1>1, <1>4, <1>5 DEF StoreInv
<1>7. JobInv' BY <1>1 DEF JobInv
<1>8. Later' BY <1>1, <1>5 DEF Later
<1>9. result' = "none"
  <2>2. job.op = "none" BY <1>1 DEF Idle
  <2>3. \A o, c : [op |-> o, cfg |-> c].op = o OBVIOUS
  <2>4. "none" \notin Locating /\ "none" # "backup" BY DEF Locating
  <2>5. result = "none" BY <2>2, <2>3, <2>4 DEF JobInv
  <2> QED BY <1>1, <2>5
<1>10. SelectionIsWhatWasAsked' /\ RestoresTheOneAsked'
  <2>1. result' # "ok" BY <1>9
  <2> QED BY <1>9, <2>1, Zenon DEF SelectionIsWhatWasAsked, RestoresTheOneAsked
<1> QED BY <1>6, <1>7, <1>8, <1>10

\* The configuration of an operation, by its kind.
LEMMA JobKind ==
    ASSUME JobInv
    PROVE  /\ job.op \in Locating => job.cfg \in Configs
           /\ job.op = "backup" => job.cfg \in Labels
           /\ job.op \in Locating \cup {"backup"} => job # Idle
<1>1. \A o, c : [op |-> o, cfg |-> c].op = o /\ [op |-> o, cfg |-> c].cfg = c
  OBVIOUS
<1>2. "none" \notin Locating \cup {"backup"} /\ "backup" \notin Locating
  BY DEF Locating
<1>3. Idle.op = "none" BY DEF Idle
<1>4. CASE job = Idle BY <1>2, <1>3, <1>4
<1>5. CASE \E op \in Locating, cfg \in Configs : job = [op |-> op, cfg |-> cfg]
  <2>1. PICK op \in Locating, cfg \in Configs : job = [op |-> op, cfg |-> cfg]
    BY <1>5
  <2>2. job.op = op /\ job.cfg = cfg BY <1>1, <2>1
  <2> QED BY <1>2, <1>3, <2>2
<1>6. CASE \E cfg \in Labels : job = [op |-> "backup", cfg |-> cfg]
  <2>1. PICK cfg \in Labels : job = [op |-> "backup", cfg |-> cfg] BY <1>6
  <2>2. job.op = "backup" /\ job.cfg = cfg BY <1>1, <2>1
  <2> QED BY <1>2, <1>3, <2>2
<1> QED BY <1>4, <1>5, <1>6 DEF JobInv

\* A backup's snapshot is the last one, and its tags are its labels.
LEMMA BackupKeeps == ASSUME LocateInv, Backup PROVE LocateInv'
<1> USE DEF LocateInv
<1> DEFINE new == [time |-> now, dataset |-> "d1",
                   tags |-> Range(indexedList(job.cfg, "labels")),
                   prefixes |-> {"new"}, labels |-> Listed(job.cfg, "labels")]
<1>1. /\ job.op = "backup" /\ result = "none" /\ result' = "ok"
      /\ store' = store \cup {new} /\ now' = now /\ job' = job
  BY DEF Backup
<1>2. job.cfg \in Cfgs /\ job # Idle BY <1>1, JobKind DEF Cfgs
<1>3. new.time = now /\ new.tags = new.labels BY <1>2, ListRead
<1> HIDE DEF new
<1>4. \A s \in store : s.time < now BY <1>1, <1>2 DEF Later
<1>5. now \in Nat /\ IsFiniteSet(store)
      /\ \A s \in store : s.time \in 0..now /\ s.tags = s.labels
  BY DEF StoreInv
<1>6. StoreInv'
  <2>1. IsFiniteSet(store') BY <1>1, <1>5, FS_AddElement
  <2>2. \A s \in store' : s.time \in 0..now /\ s.tags = s.labels
    BY <1>1, <1>3, <1>5
  <2>3. \A s \in store : s.time # now
    <3>1. \A s \in store : s.time \in Int BY <1>5
    <3> QED BY <1>4, <1>5, <3>1
  <2>4. \A s, t \in store' : s.time = t.time => s = t
    <3>1. \A s, t \in store : s.time = t.time => s = t BY DEF StoreInv
    <3> QED BY <1>1, <1>3, <2>3, <3>1, Zenon
  <2> QED BY <1>1, <1>5, <2>1, <2>2, <2>4 DEF StoreInv
<1>7. JobInv'
  <2>1. job # Idle BY <1>2
  <2> QED BY <1>1, <2>1 DEF JobInv
<1>8. Later' BY <1>1 DEF Later
<1>9. SelectionIsWhatWasAsked' /\ RestoresTheOneAsked'
  BY <1>1 DEF SelectionIsWhatWasAsked, RestoresTheOneAsked
<1> QED BY <1>6, <1>7, <1>8, <1>9

\* Locating changes neither the store nor the clock.
LEMMA Kept ==
    ASSUME LocateInv, now' = now, store' = store, job' = job, job # Idle,
           result' # "none"
    PROVE  StoreInv' /\ JobInv' /\ Later'
<1> USE DEF LocateInv
<1>1. StoreInv' BY DEF StoreInv
<1>2. JobInv' BY DEF JobInv
<1>3. Later' BY DEF Later
<1> QED BY <1>1, <1>2, <1>3

\* check and sync take what they were asked to.
LEMMA SelectKeeps == ASSUME LocateInv, Select PROVE LocateInv'
<1> USE DEF LocateInv
<1>1. /\ job.op \in {"check", "sync"} /\ result' = "ok"
      /\ selected' = LocateSnapshotIDs(locateOptions(job.cfg))
      /\ now' = now /\ store' = store /\ job' = job
  BY DEF Select, Located
<1>2. job.cfg \in Configs /\ job # Idle BY <1>1, JobKind DEF Locating
<1>3. StoreInv' /\ JobInv' /\ Later'
  <2>1. result' # "none" BY <1>1
  <2> QED BY <1>1, <1>2, <2>1, Kept
<1>4. SelectionIsWhatWasAsked'
  <2> SUFFICES ASSUME Fits(job.cfg)
               PROVE  selected' = IF AsksLatest(job.cfg)
                                  THEN Newest(AskedFor(job.cfg))
                                  ELSE AskedFor(job.cfg)
    <3>1. AskedFor(job.cfg)' = AskedFor(job.cfg)
      BY <1>1, Zenon DEF AskedFor, NotAfter, NotBefore
    <3> QED BY <1>1, <3>1, Zenon DEF SelectionIsWhatWasAsked
  <2> DEFINE o == locateOptions(job.cfg)
  <2>1. Alike(o, o) BY Zenon DEF Alike
  <2>2. now \in Nat /\ \A s \in store : s.tags = s.labels BY DEF StoreInv
  <2> HIDE DEF o
  <2>3. LocateSnapshotIDs(o) = IF o.latest THEN Newest(AskedFor(job.cfg))
                                           ELSE AskedFor(job.cfg)
    BY <1>2, <2>1, <2>2, LocatedAsAsked DEF o
  <2>4. o.latest <=> AsksLatest(job.cfg) BY LatestAsked DEF o
  <2> QED BY <1>1, <2>3, <2>4 DEF o
<1>5. RestoresTheOneAsked' BY <1>1 DEF RestoresTheOneAsked
<1> QED BY <1>3, <1>4, <1>5

\* What restore concludes from what it located.
Concluded(sel) == CASE sel = {} -> "no_snapshots"
                    [] Cardinality(sel) > 1 -> "multiple_snapshots"
                    [] OTHER -> "ok"

\* What is restored of what was found, and what is said of it.
Restores(found, match, sel, res) ==
    /\ res = "ok" <=> Cardinality(match) = 1
    /\ res = "ok" => sel = match
    /\ res = "no_snapshots" <=> found = {}

Match(cfg, found) == IF NamesOne(cfg) /\ ~AsksLatest(cfg) THEN found ELSE Newest(found)

\* restore takes the one it was asked for, or says why there is none.
LEMMA RestoreRight ==
    ASSUME StoreInv, NEW cfg \in Configs, Fits(cfg), NEW sel,
           sel = LocateSnapshotIDs(restoreOptions(locateOptions(cfg)))
    PROVE  Restores(AskedFor(cfg), Match(cfg, AskedFor(cfg)), sel, Concluded(sel))
<1> DEFINE o == locateOptions(cfg)
           r == restoreOptions(o)
           found == AskedFor(cfg)
           res == Concluded(sel)
<1>1. /\ Alike(r, o) /\ (Len(o.ids) # 1 => r.latest = TRUE)
      /\ (Len(o.ids) = 1 => r.latest = o.latest)
  BY RestoreChanges, Zenon
<1>2. now \in Nat /\ \A s \in store : s.tags = s.labels BY DEF StoreInv
<1>3. sel = IF r.latest THEN Newest(found) ELSE found
  <2>1. LocateSnapshotIDs(r) = IF r.latest THEN Newest(found) ELSE found
    BY <1>1, <1>2, LocatedAsAsked, Zenon
  <2> QED BY <2>1, Zenon
<1>4. (Len(o.ids) = 1 <=> NamesOne(cfg)) /\ (o.latest <=> AsksLatest(cfg))
  BY IDsAsked, LatestAsked, Zenon
<1>5. sel = Match(cfg, found) BY <1>1, <1>3, <1>4 DEF Match
<1>6. found \subseteq store BY Zenon DEF AskedFor
<1>7. IsFiniteSet(found) BY <1>6, FS_Subset DEF StoreInv
<1>8. found # {} => \E x \in found : Newest(found) = {x}
  <2>1. /\ \A s \in found : s.time \in 0..now
        /\ \A s, t \in found : s.time = t.time => s = t
    BY <1>6, Zenon DEF StoreInv
  <2> HIDE DEF found
  <2> QED BY <1>2, <2>1, OneNewest
<1>9. Newest({}) = {} BY DEF Newest
<1> HIDE DEF o, r, found
<1>10. sel \subseteq found /\ (found # {} => sel # {})
  BY <1>3, <1>8, <1>9
<1>11. IsFiniteSet(sel) /\ Cardinality(sel) \in Nat
  BY <1>7, <1>10, FS_Subset, FS_CardinalityType
<1>12. sel = {} <=> found = {} BY <1>10
<1> HIDE DEF res
<1>13. (res = "ok" <=> Cardinality(sel) = 1) /\ (res = "no_snapshots" <=> sel = {})
  <2>1. CASE sel = {}
    <3>1. Cardinality(sel) = 0 BY <2>1, FS_EmptySet
    <3>2. res = "no_snapshots" BY <2>1, <3>1 DEF Concluded, res
    <3> QED BY <2>1, <3>1, <3>2
  <2>2. CASE sel # {} /\ Cardinality(sel) > 1
    <3>1. res = "multiple_snapshots" BY <2>2 DEF Concluded, res
    <3> QED BY <2>2, <3>1
  <2>3. CASE sel # {} /\ ~(Cardinality(sel) > 1)
    <3>1. res = "ok" BY <2>3 DEF Concluded, res
    <3>2. Cardinality(sel) # 0 BY <1>11, <2>3, FS_EmptySet
    <3>3. Cardinality(sel) = 1 BY <1>11, <2>3, <3>2
    <3> QED BY <2>3, <3>1, <3>3
  <2> QED BY <2>1, <2>2, <2>3
<1> QED BY <1>5, <1>12, <1>13, Zenon DEF Restores, found, res

\* A restore keeps the invariant.
LEMMA RestoreKeeps == ASSUME LocateInv, Restore PROVE LocateInv'
<1> USE DEF LocateInv
<1>1. /\ job.op = "restore" /\ result' = Concluded(selected')
      /\ selected' = LocateSnapshotIDs(restoreOptions(locateOptions(job.cfg)))
      /\ now' = now /\ store' = store /\ job' = job
  BY Zenon DEF Restore, Concluded
<1>2. job.cfg \in Configs /\ job # Idle BY <1>1, JobKind DEF Locating
<1>3. result' \in {"ok", "no_snapshots", "multiple_snapshots"}
  BY <1>1 DEF Concluded
<1>4. StoreInv' /\ JobInv' /\ Later'
  <2>1. result' # "none" BY <1>3
  <2> QED BY <1>1, <1>2, <2>1, Kept
<1>5. SelectionIsWhatWasAsked' BY <1>1 DEF SelectionIsWhatWasAsked
<1>6. RestoresTheOneAsked'
  <2> DEFINE found == AskedFor(job.cfg)
  <2>1. Fits(job.cfg) =>
            Restores(found, Match(job.cfg, found), selected', result')
    BY <1>1, <1>2, RestoreRight, Zenon
  <2>2. AskedFor(job.cfg)' = AskedFor(job.cfg)
    BY <1>1, Zenon DEF AskedFor, NotAfter, NotBefore
  <2> QED BY <1>1, <2>1, <2>2, Zenon DEF RestoresTheOneAsked, Restores, Match
<1> QED BY <1>4, <1>5, <1>6

\* Every step keeps the invariant.
LEMMA LocateStep == LocateInv /\ [Next]_vars => LocateInv'
<1> SUFFICES ASSUME LocateInv, [Next]_vars PROVE LocateInv' OBVIOUS
<1>1. ASSUME NEW op \in Locating, NEW cfg \in Configs, Dispatch(op, cfg)
      PROVE  LocateInv'
  BY <1>1, DispatchKeeps, Zenon
<1>2. ASSUME NEW cfg \in Labels, Dispatch("backup", cfg) PROVE LocateInv'
  BY <1>2, DispatchKeeps, Zenon
<1>3. CASE Backup BY <1>3, BackupKeeps
<1>4. CASE Select BY <1>4, SelectKeeps
<1>5. CASE Restore BY <1>5, RestoreKeeps
<1>6. CASE Finish
  <2>1. job' = Idle /\ result' = "none" /\ now' = now /\ store' = store
    BY <1>6 DEF Finish
  <2>2. StoreInv' BY <2>1 DEF LocateInv, StoreInv
  <2>3. JobInv' /\ Later' BY <2>1 DEF JobInv, Later
  <2>4. job'.op = "none" BY <2>1 DEF Idle
  <2>5. SelectionIsWhatWasAsked' /\ RestoresTheOneAsked'
    BY <2>4 DEF SelectionIsWhatWasAsked, RestoresTheOneAsked
  <2> QED BY <2>2, <2>3, <2>5 DEF LocateInv
<1>7. CASE UNCHANGED vars
  <2>1. /\ now' = now /\ store' = store /\ job' = job /\ result' = result
        /\ selected' = selected
    BY <1>7 DEF vars
  <2>2. StoreInv' /\ JobInv' /\ Later'
    BY <2>1 DEF LocateInv, StoreInv, JobInv, Later
  <2>3. AskedFor(job.cfg)' = AskedFor(job.cfg)
    BY <2>1, Zenon DEF AskedFor, NotAfter, NotBefore
  <2>4. SelectionIsWhatWasAsked'
    BY <2>1, <2>3, Zenon DEF LocateInv, SelectionIsWhatWasAsked
  <2>5. RestoresTheOneAsked'
    BY <2>1, <2>3, Zenon DEF LocateInv, RestoresTheOneAsked
  <2> QED BY <2>2, <2>4, <2>5 DEF LocateInv
<1> QED
  BY <1>1, <1>2, <1>3, <1>4, <1>5, <1>6, <1>7 DEF Next, Finished, Locating

\* The invariant holds throughout.
LEMMA LocateAlways == Spec => []LocateInv
  BY LocateInit, LocateStep, PTL DEF Spec

(***************************************************************************)
(* check and sync work on exactly the snapshots their configuration asks   *)
(* for (locate.go:24), for every configuration whose windows fit, every    *)
(* width of the integers and every history of backups.                     *)
(***************************************************************************)
THEOREM SelectedAsAsked == Spec => []SelectionIsWhatWasAsked
<1>1. LocateInv => SelectionIsWhatWasAsked BY DEF LocateInv
<1> QED BY <1>1, LocateAlways, PTL

(***************************************************************************)
(* restore exports the one snapshot named, or the newest of those asked    *)
(* for, and fails only where there is none or where the one name given is  *)
(* the prefix of several ids (restore.go:15).                              *)
(***************************************************************************)
THEOREM RestoredAsAsked == Spec => []RestoresTheOneAsked
<1>1. LocateInv => RestoresTheOneAsked BY DEF LocateInv
<1> QED BY <1>1, LocateAlways, PTL

-----------------------------------------------------------------------------
(***************************************************************************)
(* SharedStores, with its own processes and snapshots. The inductive       *)
(* invariant says of each process that everything it selected is in the    *)
(* target's history, still to do, in its hands or counted as an error, and *)
(* of the target that whatever it holds was listed, came from others or    *)
(* was copied by this process.                                             *)
(***************************************************************************)
Listing == {"listed", "loop", "syncSnap", "returned"}

\* The process has not selected anything yet.
Unselected(p) == pc[p] \in {"start", "source opened", "listed"} =>
                     located[p] = {} /\ todo[p] = {}

\* A process has a snapshot in its hands only inside syncSnap.
InHand(p) ==
    /\ pc[p] # "syncSnap" => cur[p] = {}
    /\ pc[p] = "returned" => todo[p] = {}
    /\ todo[p] \subseteq located[p] /\ cur[p] \subseteq located[p]
    /\ cur[p] \cap (todo[p] \cup present[p]) = {}

\* What is not in the target's history is still ahead, or was counted.
Covering(p) ==
    report[p] = "clean" => located[p] \subseteq seen[p] \cup todo[p] \cup cur[p]

\* What was found in the target was there.
PresentSeen(p) == pc[p] \in Listing => present[p] \subseteq seen[p]

\* The target holds what was listed, what others added, and what was copied.
Tracked(p) ==
    pc[p] \in Listing => target \subseteq present[p] \cup arrived[p]
                             \cup (located[p] \ (todo[p] \cup cur[p]))

Consistent(p) ==
    Unselected(p) /\ InHand(p) /\ Covering(p) /\ PresentSeen(p) /\ Tracked(p)

\* The inductive invariant.
IInv == TypeOK /\ \A p \in Procs : Consistent(p)

\* The initial states satisfy the invariant.
LEMMA InitIInv == SharedInit => IInv
  BY DEF SharedInit, IInv, TypeOK, Consistent, Unselected, InHand, Covering,
         PresentSeen, Tracked, Points, Listing

USE DEF stores, lists, history, Go

\* Every step keeps the types.
LEMMA NextTypeOK == TypeOK /\ [SharedNext]_sharedVars => TypeOK'
<1> SUFFICES ASSUME TypeOK, [SharedNext]_sharedVars
             PROVE  TypeOK'
  OBVIOUS
<1> USE DEF TypeOK, Points
<1>1. ASSUME NEW p \in Procs, Sync(p) PROVE TypeOK'
  <2>1. CASE OpenSource(p) BY <2>1 DEF OpenSource
  <2>2. CASE OpenTarget(p)
    BY <2>2 DEF OpenTarget, ListSnapshots
  <2>3. CASE Locate(p)
    <3>1. PICK found \in SUBSET srcView[p] :
             /\ located' = [located EXCEPT ![p] = found]
             /\ todo' = [todo EXCEPT ![p] = found]
      BY <2>3 DEF Locate
    <3>2. found \in SUBSET IDs OBVIOUS
    <3> QED BY <2>3, <3>1, <3>2 DEF Locate
  <2>4. ASSUME NEW id \in IDs, Skip(p, id) PROVE TypeOK'
    BY <2>4 DEF Skip
  <2>5. ASSUME NEW id \in IDs, Begin(p, id) PROVE TypeOK'
    BY <2>5 DEF Begin
  <2>6. CASE Synchronize(p) BY <2>6 DEF Synchronize, Arrive
  <2>7. CASE SyncFails(p)
    <3>1. CASE UNCHANGED <<target, history>>
      BY <2>7, <3>1 DEF SyncFails
    <3>2. CASE Arrive(cur[p], Procs \ {p})
      BY <2>7, <3>2 DEF SyncFails, Arrive
    <3> QED BY <2>7, <3>1, <3>2 DEF SyncFails
  <2>8. CASE Return(p) BY <2>8 DEF Return
  <2>9. CASE Restart(p) BY <2>9 DEF Restart
  <2> QED
    BY <1>1, <2>1, <2>2, <2>3, <2>4, <2>5, <2>6, <2>7, <2>8,
       <2>9 DEF Sync
<1>2. ASSUME NEW id \in IDs, CommitIntoSource(id) PROVE TypeOK'
  BY <1>2 DEF CommitIntoSource
<1>3. ASSUME NEW id \in IDs, CommitIntoTarget(id) PROVE TypeOK'
  BY <1>3 DEF CommitIntoTarget, Arrive
<1>4. ASSUME NEW id \in IDs, RemoveFromSource(id) PROVE TypeOK'
  BY <1>4 DEF RemoveFromSource
<1>5. ASSUME NEW id \in IDs, RemoveFromTarget(id) PROVE TypeOK'
  BY <1>5 DEF RemoveFromTarget
<1>6. CASE UNCHANGED sharedVars BY <1>6 DEF sharedVars
<1> QED BY <1>1, <1>2, <1>3, <1>4, <1>5, <1>6 DEF SharedNext

(***************************************************************************)
(* A step of p leaves what q works with alone, except that the history of  *)
(* the target grows.                                                       *)
(***************************************************************************)
LEMMA OthersKeep ==
    ASSUME TypeOK, NEW p \in Procs, NEW q \in Procs, q # p, Sync(p)
    PROVE  /\ pc'[q] = pc[q] /\ present'[q] = present[q]
           /\ located'[q] = located[q] /\ todo'[q] = todo[q]
           /\ cur'[q] = cur[q] /\ report'[q] = report[q]
           /\ seen[q] \subseteq seen'[q]
           /\ target' \subseteq target \cup (arrived'[q])
           /\ arrived[q] \subseteq arrived'[q]
<1> USE DEF TypeOK
<1>1. CASE OpenSource(p) BY <1>1 DEF OpenSource
<1>2. CASE OpenTarget(p) BY <1>2 DEF OpenTarget
<1>3. CASE Locate(p) BY <1>3 DEF Locate
<1>4. ASSUME NEW id \in IDs, Skip(p, id) \/ Begin(p, id)
      PROVE  /\ pc'[q] = pc[q] /\ todo'[q] = todo[q] /\ cur'[q] = cur[q]
             /\ UNCHANGED <<target, present, located, report, history>>
  BY <1>4 DEF Skip, Begin
<1>5. CASE Synchronize(p) BY <1>5 DEF Synchronize, Arrive
<1>6. CASE SyncFails(p)
  <2>1. CASE UNCHANGED <<target, history>>
    BY <1>6, <2>1 DEF SyncFails
  <2>2. CASE Arrive(cur[p], Procs \ {p})
    BY <1>6, <2>2 DEF SyncFails, Arrive
  <2> QED BY <1>6, <2>1, <2>2 DEF SyncFails
<1>7. CASE Return(p) BY <1>7 DEF Return
<1>8. CASE Restart(p) BY <1>8 DEF Restart
<1> QED BY <1>1, <1>2, <1>3, <1>4, <1>5, <1>6, <1>7, <1>8 DEF Sync

\* A process keeps what the invariant says of it, by its own steps.
LEMMA OwnStep ==
    ASSUME IInv, NEW p \in Procs, Sync(p)
    PROVE  Consistent(p)'
<1>t. TypeOK /\ Consistent(p) BY DEF IInv
<1> USE DEF Listing, Consistent, Unselected, InHand, Covering, PresentSeen,
       Tracked
<1>1. CASE OpenSource(p)
  BY <1>1, <1>t DEF OpenSource, TypeOK
<1>2. CASE OpenTarget(p)
  BY <1>2, <1>t DEF OpenTarget, ListSnapshots, TypeOK
<1>3. CASE Locate(p)
  <2>1. PICK found \in SUBSET srcView[p] :
           /\ located' = [located EXCEPT ![p] = found]
           /\ todo' = [todo EXCEPT ![p] = found]
    BY <1>3 DEF Locate
  <2> QED BY <1>3, <1>t, <2>1 DEF Locate, TypeOK
<1>4. ASSUME NEW id \in IDs, Skip(p, id) PROVE Consistent(p)'
  <2>1. /\ pc[p] = "loop" /\ id \in todo[p] /\ id \in present[p]
        /\ todo'[p] = todo[p] \ {id}
        /\ UNCHANGED <<target, pc, present, located, cur, report, seen, arrived>>
    BY <1>4, <1>t DEF Skip, Skips, TypeOK
  <2>2. (Unselected(p) /\ InHand(p))' BY <1>t, <2>1
  <2>3. (Covering(p) /\ PresentSeen(p))' BY <1>t, <2>1
  <2>4. Tracked(p)' BY <1>t, <2>1
  <2> QED BY <2>2, <2>3, <2>4
<1>5. ASSUME NEW id \in IDs, Begin(p, id) PROVE Consistent(p)'
  <2>1. /\ pc[p] = "loop" /\ id \in todo[p] /\ id \notin present[p]
        /\ pc'[p] = "syncSnap"
        /\ todo'[p] = todo[p] \ {id} /\ cur'[p] = {id}
        /\ UNCHANGED <<target, present, located, report, seen, arrived>>
    BY <1>5, <1>t DEF Begin, Skips, TypeOK
  <2>2. cur[p] = {} BY <1>t, <2>1
  <2>3. (Unselected(p) /\ InHand(p))' BY <1>t, <2>1
  <2>4. (Covering(p) /\ PresentSeen(p))' BY <1>t, <2>1, <2>2
  <2>5. (todo[p] \cup cur[p])' = todo[p] \cup cur[p] BY <2>1, <2>2
  <2>6. Tracked(p)' BY <1>t, <2>1, <2>5
  <2> QED BY <2>3, <2>4, <2>6
<1>6. CASE Synchronize(p)
  BY <1>6, <1>t DEF Synchronize, Arrive, TypeOK
<1>7. CASE SyncFails(p)
  <2>1. CASE UNCHANGED <<target, history>>
    BY <1>7, <1>t, <2>1 DEF SyncFails, TypeOK
  <2>2. CASE Arrive(cur[p], Procs \ {p})
    BY <1>7, <1>t, <2>2 DEF SyncFails, Arrive, TypeOK
  <2> QED BY <1>7, <2>1, <2>2 DEF SyncFails
<1>8. CASE Return(p) BY <1>8, <1>t DEF Return, TypeOK
<1>9. CASE Restart(p) BY <1>9, <1>t DEF Restart, TypeOK
<1> QED BY <1>1, <1>2, <1>3, <1>4, <1>5, <1>6, <1>7, <1>8, <1>9 DEF Sync

\* Every step preserves the invariant.
LEMMA NextIInv == IInv /\ [SharedNext]_sharedVars => IInv'
<1> SUFFICES ASSUME IInv, [SharedNext]_sharedVars PROVE IInv'
  OBVIOUS
<1>0. TypeOK' BY NextTypeOK DEF IInv
<1> SUFFICES ASSUME NEW q \in Procs PROVE Consistent(q)'
  BY <1>0 DEF IInv
<1>t. TypeOK /\ Consistent(q) BY DEF IInv
<1> USE DEF Consistent, Unselected, InHand, Covering, PresentSeen, Tracked
<1>1. ASSUME NEW p \in Procs, Sync(p) PROVE Consistent(q)'
  <2>1. CASE q = p BY <1>1, <2>1, OwnStep
  <2>2. CASE q # p BY <1>1, <1>t, <2>2, OthersKeep
  <2> QED BY <2>1, <2>2
<1>2. ASSUME NEW id \in IDs, CommitIntoSource(id) PROVE Consistent(q)'
  BY <1>t, <1>2 DEF CommitIntoSource
<1>3. ASSUME NEW id \in IDs, CommitIntoTarget(id) PROVE Consistent(q)'
  BY <1>t, <1>3 DEF CommitIntoTarget, Arrive, TypeOK
<1>4. ASSUME NEW id \in IDs, RemoveFromSource(id) PROVE Consistent(q)'
  BY <1>t, <1>4 DEF RemoveFromSource
<1>5. ASSUME NEW id \in IDs, RemoveFromTarget(id) PROVE Consistent(q)'
  BY <1>t, <1>5 DEF RemoveFromTarget
<1>6. CASE UNCHANGED sharedVars BY <1>t, <1>6 DEF sharedVars
<1> QED BY <1>1, <1>2, <1>3, <1>4, <1>5, <1>6 DEF SharedNext

\* The invariant holds in every reachable state.
LEMMA Invariant == SharedSpec => []IInv
  BY InitIInv, NextIInv, PTL DEF SharedSpec

\* Every variable keeps its type, for any processes and snapshots.
THEOREM SharedTypeCorrect == SharedSpec => []TypeOK
<1>1. IInv => TypeOK BY DEF IInv
<1> QED BY <1>1, Invariant, PTL

(***************************************************************************)
(* Any number of processes may sync, back up and remove at the same time,  *)
(* and be killed: a sync without errors covers what it selected.           *)
(***************************************************************************)
THEOREM SyncsCover == SharedSpec => []SyncCovers
<1>1. IInv => SyncCovers
  BY DEF IInv, Consistent, InHand, Covering, SyncCovers
<1> QED BY <1>1, Invariant, PTL

(***************************************************************************)
(* A sync copies what the target already has only if somebody else put it  *)
(* there since the process opened the target.                              *)
(***************************************************************************)
THEOREM RetransfersAreRaces == SharedSpec => []RetransferOnlyIfRaced
<1>1. IInv => RetransferOnlyIfRaced

    BY DEF IInv, TypeOK, Points, Consistent, InHand, Tracked,
       Listing,
         RetransferOnlyIfRaced
<1> QED BY <1>1, Invariant, PTL
=============================================================================
