--------------------------- MODULE ListenerProofs ---------------------------
(***************************************************************************)
(* Proofs about the event listener, for any events and bounds: its counts  *)
(* and sizes, its I/O readings, its readout and its recent paths are those *)
(* of the history. A State that was handed out keeps its truth, because    *)
(* the history only grows: what was done among its first events stays what *)
(* it was.                                                                 *)
(*                                                                         *)
(* A sum of sizes is a recursive function on sets, and an induction over   *)
(* it takes a counterexample of least cardinality. RecentPaths is read as  *)
(* a list of falling positions of the history: first those of paths that   *)
(* are still in progress, then those of paths that ended.                  *)
(***************************************************************************)
EXTENDS Listener, FiniteSetTheorems, SequenceTheorems, WellFoundedInduction,
        TLAPS

Fields == {"total", "ok", "error", "cached", "size", "cachedSize"}
Parts  == {"snapshotID", "phase", "summary", "count", "result", "io",
           "recentPaths"}

\* A StateCounter, and a State as far as the fold changes it field by field.
Counter(c) == c = [f \in Fields |-> c[f]]

Shaped(s) ==
    /\ s = [f \in Parts |-> s[f]]
    /\ s.count = [k \in Kinds |-> s.count[k]]
    /\ \A k \in Kinds : Counter(s.count[k])
    /\ s.summary.files \in Nat

\* Each scope has a reading, and the one it shows is the latest.
Latest ==
    /\ "" \notin DOMAIN state.io
    /\ \A sc \in DOMAIN state.io :
          \E i \in Readings(sc) : /\ \A j \in Readings(sc) : j <= i
                                  /\ state.io[sc] = handled[i].stats

Scoped ==
    \A i \in DOMAIN handled :
        (handled[i].type = "iostats" /\ handled[i].scope # "")
            => handled[i].scope \in DOMAIN state.io

\* A read was made after events that have been handled.
Dated ==
    /\ reads \in Seq([items : Nat, after : Nat])
    /\ \A i \in DOMAIN reads : reads[i].after \in 0..Len(handled)

Inv ==
    /\ handled \in Seq(Events)
    /\ Shaped(state) /\ CountsMatch
    /\ Latest /\ Scoped
    /\ Dated /\ ReadoutRuns

-----------------------------------------------------------------------------
\* A set of natural numbers that is not empty has a least element.
LEMMA Least ==
    ASSUME NEW A, A \subseteq Nat, A # {}
    PROVE  \E i \in A : \A j \in A : i <= j
<1> DEFINE R == OpToRel(<, Nat)
<1>1. IsWellFoundedOn(R, Nat) BY NatLessThanWellFounded
<1>2. \A i, j \in Nat : j < i => <<j, i>> \in R BY DEF OpToRel
<1> HIDE DEF R
<1>3. PICK i \in A : \A j \in A : ~(<<j, i>> \in R) BY <1>1, WFMin
<1>4. ASSUME NEW j \in A PROVE i <= j
  <2>1. i \in Nat /\ j \in Nat OBVIOUS
  <2>2. ~(j < i) BY <1>2, <1>3, <2>1
  <2> QED BY <2>1, <2>2
<1> QED BY <1>4

-----------------------------------------------------------------------------
(* Sums of sizes *)

AnyOf(s) == CHOOSE x \in s : TRUE

\* What the sum over a set is made of: any element, and the sum over the others.
Added(f, H, s) == IF s = {} THEN 0 ELSE H[AnyOf(s)].size + f[s \ {AnyOf(s)}]

IsSum(f, H, S) == f = [s \in SUBSET S |-> Added(f, H, s)]

Sum(H, S) == CHOOSE f : IsSum(f, H, S)

\* MapThenSumSet takes the elements one by one.
LEMMA SumIs == ASSUME NEW S PROVE MapThenSumSet(SizeOf, S) = Sum(handled, S)[S]
  BY DEF MapThenSumSet, MapThenFoldSet, SizeOf, Sum, IsSum, Added, AnyOf

\* Taking an element out of a finite set makes it smaller.
LEMMA Smaller ==
    ASSUME NEW s, IsFiniteSet(s), NEW x \in s
    PROVE  /\ IsFiniteSet(s \ {x}) /\ Cardinality(s) \in Nat
           /\ Cardinality(s \ {x}) = Cardinality(s) - 1
           /\ Cardinality(s \ {x}) < Cardinality(s)
           /\ Cardinality(s \ {x}) \in Nat
<1>1. Cardinality(s) \in Nat BY FS_CardinalityType
<1>2. /\ IsFiniteSet(s \ {x})
      /\ Cardinality(s \ {x}) = Cardinality(s) - 1
  BY FS_RemoveElement
<1>3. Cardinality(s \ {x}) \in Nat BY <1>2, FS_CardinalityType
<1> QED BY <1>1, <1>2, <1>3

\* The element taken is one of the set.
LEMMA AnyOfIn == ASSUME NEW s, s # {} PROVE AnyOf(s) \in s
  BY DEF AnyOf

\* The sum over a finite set is well defined.
LEMMA SumExists ==
    ASSUME NEW H, NEW S, IsFiniteSet(S)
    PROVE  IsSum(Sum(H, S), H, S)
<1> DEFINE Sub(n)  == {s \in SUBSET S : Cardinality(s) <= n}
           Up(f, n) == f = [s \in Sub(n) |-> Added(f, H, s)]
           Bad == {n \in Nat : ~\E f : Up(f, n)}
<1>1. \A s \in SUBSET S : IsFiniteSet(s) /\ Cardinality(s) \in Nat
  BY FS_Subset, FS_CardinalityType
<1>2. Bad = {}
  <2> SUFFICES ASSUME Bad # {} PROVE FALSE OBVIOUS
  <2>1. Bad \subseteq Nat OBVIOUS
  <2>2. PICK n \in Bad : \A k \in Bad : n <= k BY <2>1, Least
  <2>3. n \in Nat /\ ~\E f : Up(f, n) OBVIOUS
  <2>4. CASE n = 0
    <3> DEFINE f == [s \in Sub(0) |-> 0]
    <3>1. \A s \in Sub(0) : s = {}
      <4> SUFFICES ASSUME NEW s \in Sub(0) PROVE s = {} OBVIOUS
      <4>1. Cardinality(s) = 0 BY <1>1
      <4> QED BY <1>1, <4>1, FS_EmptySet
    <3>2. \A s \in Sub(0) : Added(f, H, s) = 0 BY <3>1 DEF Added
    <3>3. Up(f, 0) BY <3>2
    <3> QED BY <2>3, <2>4, <3>3
  <2>5. CASE n # 0
    <3>1. n - 1 \in Nat /\ n - 1 \notin Bad
      <4> HIDE DEF Bad
      <4>1. n - 1 \in Nat /\ ~(n <= n - 1) BY <2>3, <2>5
      <4> QED BY <2>2, <4>1
    <3>2. PICK f : Up(f, n - 1) BY <3>1
    <3> DEFINE g == [s \in Sub(n) |-> Added(f, H, s)]
    <3>3. \A s \in Sub(n - 1) : s \in Sub(n) /\ f[s] = Added(f, H, s)
      <4>1. \A s \in Sub(n - 1) : s \in Sub(n) BY <1>1, <2>3
      <4>2. \A s \in Sub(n - 1) : f[s] = Added(f, H, s) BY <3>2
      <4> QED BY <4>1, <4>2
    <3>4. \A s \in Sub(n - 1) : g[s] = f[s] BY <3>3
    <3>5. ASSUME NEW s \in Sub(n) PROVE Added(g, H, s) = Added(f, H, s)
      <4>1. CASE s = {} BY <4>1 DEF Added
      <4>2. CASE s # {}
        <5>1. AnyOf(s) \in s BY <4>2, AnyOfIn
        <5>2. Cardinality(s \ {AnyOf(s)}) = Cardinality(s) - 1
          BY <1>1, <5>1, Smaller
        <5>3. s \ {AnyOf(s)} \in Sub(n - 1) BY <1>1, <2>3, <5>2
        <5>4. g[s \ {AnyOf(s)}] = f[s \ {AnyOf(s)}] BY <3>4, <5>3
        <5> QED BY <4>2, <5>4 DEF Added
      <4> QED BY <4>1, <4>2
    <3>6. g = [s \in Sub(n) |-> Added(g, H, s)] BY <3>5
    <3> QED BY <2>3, <3>6
  <2> QED BY <2>4, <2>5
<1>3. Cardinality(S) \in Nat BY FS_CardinalityType
<1>4. PICK f : Up(f, Cardinality(S)) BY <1>2, <1>3
<1>5. Sub(Cardinality(S)) = SUBSET S BY FS_Subset
<1>6. IsSum(f, H, S) BY <1>4, <1>5 DEF IsSum
<1> QED BY <1>6 DEF Sum

\* Sums over the same sizes are the same number.
LEMMA SumAgrees ==
    ASSUME NEW H, NEW G, NEW S, NEW T, NEW f, NEW g,
           IsFiniteSet(T), S \subseteq T, IsSum(f, H, S), IsSum(g, G, T),
           \A x \in S : H[x].size \in Int /\ G[x].size = H[x].size
    PROVE  \A s \in SUBSET S : f[s] \in Int /\ g[s] = f[s]
<1> DEFINE Good(s) == f[s] \in Int /\ g[s] = f[s]
           Bad == {Cardinality(s) : s \in {s \in SUBSET S : ~Good(s)}}
<1>1. \A s \in SUBSET S : IsFiniteSet(s) /\ Cardinality(s) \in Nat
  BY FS_Subset, FS_CardinalityType
<1> SUFFICES ASSUME Bad # {} PROVE FALSE OBVIOUS
<1>2. Bad \subseteq Nat BY <1>1
<1>3. PICK n \in Bad : \A k \in Bad : n <= k BY <1>2, Least
<1>4. PICK s \in SUBSET S : ~Good(s) /\ Cardinality(s) = n BY <1>3
<1>5. f[s] = Added(f, H, s) /\ g[s] = Added(g, G, s)
  <2>1. s \in SUBSET T OBVIOUS
  <2> QED BY <2>1 DEF IsSum
<1>6. s # {} BY <1>4, <1>5 DEF Added
<1> DEFINE x == AnyOf(s)
<1>7. x \in s BY <1>6, AnyOfIn
<1>8. Cardinality(s \ {x}) < Cardinality(s) BY <1>1, <1>7, Smaller
<1>9. Good(s \ {x})
  <2> SUFFICES ASSUME ~Good(s \ {x}) PROVE FALSE OBVIOUS
  <2>1. Cardinality(s \ {x}) \in Bad OBVIOUS
  <2>2. n <= Cardinality(s \ {x}) BY <1>3, <2>1
  <2>3. n \in Nat /\ Cardinality(s \ {x}) \in Nat BY <1>1, <1>4
  <2> QED BY <1>4, <1>8, <2>2, <2>3
<1>10. H[x].size \in Int /\ G[x].size = H[x].size BY <1>7
<1>11. f[s] = H[x].size + f[s \ {x}] /\ g[s] = G[x].size + g[s \ {x}]
  BY <1>5, <1>6 DEF Added
<1> QED BY <1>4, <1>9, <1>10, <1>11

\* Whichever element is taken first, the sum is the same.
LEMMA SumTakes ==
    ASSUME NEW H, NEW S, IsFiniteSet(S), \A x \in S : H[x].size \in Int,
           NEW f, IsSum(f, H, S)
    PROVE  \A s \in SUBSET S : \A x \in s : f[s] = H[x].size + f[s \ {x}]
<1> DEFINE Good(s) == \A x \in s : f[s] = H[x].size + f[s \ {x}]
           Bad == {Cardinality(s) : s \in {s \in SUBSET S : ~Good(s)}}
<1>1. \A s \in SUBSET S : IsFiniteSet(s) /\ Cardinality(s) \in Nat
  BY FS_Subset, FS_CardinalityType
<1>int. \A s \in SUBSET S : f[s] \in Int BY SumAgrees
<1> SUFFICES ASSUME Bad # {} PROVE FALSE OBVIOUS
<1>2. Bad \subseteq Nat BY <1>1
<1>3. PICK n \in Bad : \A k \in Bad : n <= k BY <1>2, Least
<1>4. PICK s \in SUBSET S : ~Good(s) /\ Cardinality(s) = n BY <1>3
<1>5. PICK x \in s : f[s] # H[x].size + f[s \ {x}] BY <1>4
<1> DEFINE y == AnyOf(s)
<1>6. y \in s BY <1>5, AnyOfIn
<1>7. f[s] = H[y].size + f[s \ {y}] BY <1>6 DEF IsSum, Added
<1>8. x # y BY <1>5, <1>7
<1>9. \A z \in s : Good(s \ {z})
  <2> SUFFICES ASSUME NEW z \in s, ~Good(s \ {z}) PROVE FALSE OBVIOUS
  <2>1. Cardinality(s \ {z}) \in Bad OBVIOUS
  <2>2. n <= Cardinality(s \ {z}) BY <1>3, <2>1
  <2>3. n \in Nat /\ Cardinality(s \ {z}) \in Nat BY <1>1, <1>4
  <2>4. Cardinality(s \ {z}) < Cardinality(s) BY <1>1, Smaller
  <2> QED BY <1>4, <2>2, <2>3, <2>4
<1> DEFINE r == s \ {x, y}
<1> HIDE DEF y
<1>10. f[s \ {y}] = H[x].size + f[r]
  <2>1. x \in s \ {y} /\ (s \ {y}) \ {x} = r BY <1>8
  <2> QED BY <1>6, <1>9, <2>1
<1>11. f[s \ {x}] = H[y].size + f[r]
  <2>1. y \in s \ {x} /\ (s \ {x}) \ {y} = r BY <1>6, <1>8
  <2> QED BY <1>9, <2>1
<1>12. f[r] \in Int /\ H[x].size \in Int /\ H[y].size \in Int BY <1>6, <1>int
<1> HIDE DEF r
<1> QED BY <1>5, <1>7, <1>10, <1>11, <1>12

\* One more position adds its size.
LEMMA SumGrows ==
    ASSUME NEW H, NEW G, NEW S, IsFiniteSet(S), NEW x, x \notin S,
           \A i \in S : H[i].size \in Int /\ G[i].size = H[i].size,
           G[x].size \in Int
    PROVE  Sum(G, S \cup {x})[S \cup {x}] = Sum(H, S)[S] + G[x].size
<1> DEFINE T == S \cup {x}
           f == Sum(H, S)
           g == Sum(G, T)
<1>1. IsFiniteSet(T) BY FS_AddElement
<1>2. IsSum(f, H, S) /\ IsSum(g, G, T) BY <1>1, SumExists
<1> HIDE DEF f, g
<1>3. f[S] \in Int /\ g[S] = f[S]
  <2>1. S \in SUBSET S /\ S \subseteq T OBVIOUS
  <2> HIDE DEF T
  <2>2. \A s \in SUBSET S : f[s] \in Int /\ g[s] = f[s]
    <3>1. \A i \in S : H[i].size \in Int /\ G[i].size = H[i].size OBVIOUS
    <3> QED BY <1>1, <1>2, <2>1, <3>1, SumAgrees
  <2> QED BY <2>1, <2>2
<1>4. g[T] = G[x].size + g[T \ {x}]
  <2>1. \A i \in T : G[i].size \in Int OBVIOUS
  <2>2. x \in T /\ T \in SUBSET T OBVIOUS
  <2> HIDE DEF T
  <2> QED BY <1>1, <1>2, <2>1, <2>2, SumTakes
<1>5. T \ {x} = S OBVIOUS
<1> HIDE DEF T
<1>6. g[T] = f[S] + G[x].size
  <2>1. g[T \ {x}] = f[S] BY <1>3, <1>5, Zenon
  <2> DEFINE a == f[S]
             b == G[x].size
  <2>2. a \in Int /\ b \in Int BY <1>3
  <2>3. g[T] = b + a BY <1>4, <2>1, Zenon
  <2> HIDE DEF a, b
  <2>4. b + a = a + b BY <2>2
  <2> QED BY <2>3, <2>4 DEF a, b
<1> QED BY <1>6, Zenon DEF f, g, T

-----------------------------------------------------------------------------
(* The counters *)

\* countEntry adds one to the entry's outcome and to no other.
LEMMA CountEntry ==
    ASSUME NEW c, NEW e, Counter(c), e.outcome \in Outcomes
    PROVE  /\ Counter(countEntry(c, e))
           /\ countEntry(c, e)[e.outcome] = c[e.outcome] + 1
           /\ \A o \in Outcomes \ {e.outcome} : countEntry(c, e)[o] = c[o]
<1> DEFINE d == countEntry(c, e)
<1>1. d = [f \in Fields |-> d[f]]
  BY DEF countEntry, Counter, Fields, Outcomes
<1>2. d[e.outcome] = c[e.outcome] + 1
  BY DEF countEntry, Counter, Fields, Outcomes
<1>3. \A o \in Outcomes \ {e.outcome} : d[o] = c[o]
  BY DEF countEntry, Counter, Fields, Outcomes
<1>4. QED
  BY <1>1, <1>2, <1>3 DEF Counter

\* updateState counts an entry in its kind, and takes a reading of its scope.
LEMMA UpdateState ==
    ASSUME NEW s, NEW e \in Events, Shaped(s)
    PROVE  /\ updateState(s, e) = [f \in Parts |-> updateState(s, e)[f]]
           /\ updateState(s, e).count =
                  IF e.type = "entry"
                  THEN [s.count EXCEPT ![e.kind] = countEntry(@, e)]
                  ELSE s.count
           /\ updateState(s, e).io =
                  IF e.type = "iostats" THEN ioAfter(s.io, e) ELSE s.io
           /\ updateState(s, e).summary.files \in Nat
<1> DEFINE t == [s EXCEPT !.phase = PhaseAfter(s, e)]
<1>1. /\ t = [f \in Parts |-> t[f]] /\ t.count = s.count /\ t.io = s.io
      /\ t.summary = s.summary /\ s.summary.files \in Nat
  BY DEF Shaped, Parts
<1>2. e.type = "fs.summary" => e.files \in Nat
  BY EventsAssumption
<1> DEFINE u == updateState(s, e)
<1>3. CASE e.type = "entry"
  <2>1. u = [t EXCEPT !.count[e.kind] = countEntry(@, e),
                      !.recentPaths = recentPaths(@, e)]
    BY <1>3 DEF updateState
  <2>2. QED
    BY <1>1, <1>3, <2>1 DEF Parts
<1>4. CASE e.type = "iostats"
  <2>1. u = [t EXCEPT !.io = ioAfter(@, e)]
    BY <1>4 DEF updateState
  <2>2. QED
    BY <1>1, <1>4, <2>1 DEF Parts
<1>5. CASE e.type = "fs.summary"
  <2>1. u = [t EXCEPT !.summary = [exists |-> TRUE, files |-> e.files,
                                   size |-> e.size]]
    BY <1>5 DEF updateState
  <2>2. u.summary.files = e.files
    BY <1>1, <2>1 DEF Parts
  <2>3. /\ u = [f \in Parts |-> u[f]]
        /\ u.count = s.count /\ u.io = s.io
    BY <1>1, <2>1 DEF Parts
  <2> HIDE DEF u
  <2>4. QED
    BY <1>2, <1>5, <2>2, <2>3 DEF u
<1>6. CASE e.type \notin {"entry", "iostats", "fs.summary"}
  <2>1. \/ u = [t EXCEPT !.snapshotID = e.snapshot]
        \/ u = [t EXCEPT !.result = [size |-> e.size, errors |-> e.errors]]
        \/ u = t
    BY <1>6 DEF updateState
  <2>2. QED
    BY <1>1, <1>6, <2>1 DEF Parts
<1>7. QED
  BY <1>3, <1>4, <1>5, <1>6

\* The State keeps its shape.
LEMMA UpdateShape ==
    ASSUME NEW s, NEW e \in Events, Shaped(s)
    PROVE  /\ Shaped(updateState(s, e))
           /\ \A k \in Kinds, o \in Outcomes :
                 updateState(s, e).count[k][o] =
                     IF e.type = "entry" /\ e.kind = k /\ e.outcome = o
                     THEN s.count[k][o] + 1 ELSE s.count[k][o]
<1> DEFINE u == updateState(s, e)
<1>1. CASE e.type = "entry"
  <2>1. e.kind \in Kinds /\ e.outcome \in Outcomes
    BY <1>1, EventsAssumption
  <2>2. u.count = [s.count EXCEPT ![e.kind] = countEntry(@, e)]
    BY <1>1, UpdateState
  <2>3. /\ u.count = [k \in Kinds |-> u.count[k]]
        /\ u.count[e.kind] = countEntry(s.count[e.kind], e)
        /\ \A k \in Kinds \ {e.kind} : u.count[k] = s.count[k]
    BY <2>1, <2>2 DEF Shaped
  <2>4. Counter(s.count[e.kind])
    BY <2>1 DEF Shaped
  <2>5. /\ Counter(u.count[e.kind])
        /\ u.count[e.kind][e.outcome] = s.count[e.kind][e.outcome] + 1
        /\ \A o \in Outcomes \ {e.outcome} :
              u.count[e.kind][o] = s.count[e.kind][o]
    BY <2>1, <2>3, <2>4, CountEntry
  <2>6. Shaped(u)
    BY <2>3, <2>5, UpdateState DEF Shaped
  <2>7. QED
    <3> HIDE DEF u
    <3>1. SUFFICES ASSUME NEW k \in Kinds, NEW o \in Outcomes
                   PROVE  u.count[k][o] = IF e.kind = k /\ e.outcome = o
                                          THEN s.count[k][o] + 1
                                          ELSE s.count[k][o]
      BY <1>1, <2>6 DEF u
    <3>2. CASE k # e.kind
      BY <2>3, <3>2
    <3>3. CASE k = e.kind
      BY <2>5, <3>3
    <3>4. QED
      BY <3>2, <3>3
<1>2. CASE e.type # "entry"
  BY <1>2, UpdateState DEF Shaped
<1>3. QED
  BY <1>1, <1>2

\* A set of positions is finite.
LEMMA PositionsFinite ==
    ASSUME handled \in Seq(Events), NEW S, S \subseteq DOMAIN handled
    PROVE  IsFiniteSet(S) /\ Cardinality(S) \in Nat
<1>1. DOMAIN handled = 1..Len(handled) /\ Len(handled) \in Nat
  OBVIOUS
<1>2. IsFiniteSet(1..Len(handled))
  BY <1>1, FS_Interval
<1>3. QED
  BY <1>1, <1>2, FS_Subset, FS_CardinalityType

\* The history grows at its end.
LEMMA Grows ==
    ASSUME handled \in Seq(Events), NEW e \in Events,
           handled' = Append(handled, e), NEW n, n = Len(handled)
    PROVE  /\ n \in Nat /\ DOMAIN handled = 1..n
           /\ handled' \in Seq(Events) /\ Len(handled') = n + 1
           /\ DOMAIN handled' = 1..(n + 1)
           /\ \A i \in 1..n : handled'[i] = handled[i]
           /\ handled'[n + 1] = e
  BY AppendProperties

\* How many entries of a kind had an outcome.
Count(k, o) == Cardinality(Positions(k, {o}))

\* An entry adds its position to those of its kind and outcome.
LEMMA PositionsGrow ==
    ASSUME handled \in Seq(Events), NEW e \in Events,
           handled' = Append(handled, e), NEW k, NEW o
    PROVE  Count(k, o)' = IF e.type = "entry" /\ e.kind = k /\ e.outcome = o
                          THEN Count(k, o) + 1 ELSE Count(k, o)
<1> DEFINE n == Len(handled)
           P == Positions(k, {o})
<1>1. /\ n \in Nat /\ DOMAIN handled = 1..n
      /\ DOMAIN handled' = 1..(n + 1)
      /\ \A i \in 1..n : handled'[i] = handled[i]
      /\ handled'[n + 1] = e
  BY Grows
<1>2. IsFiniteSet(P)
  BY PositionsFinite DEF Positions
<1> HIDE DEF n
<1>3. CASE e.type = "entry" /\ e.kind = k /\ e.outcome = o
  <2>1. P' = P \cup {n + 1} /\ n + 1 \notin P
    BY <1>1, <1>3 DEF Positions
  <2>2. Cardinality(P \cup {n + 1}) = Cardinality(P) + 1
    BY <1>2, <2>1, FS_AddElement
  <2>3. QED
    BY <1>3, <2>1, <2>2 DEF Count
<1>4. CASE ~(e.type = "entry" /\ e.kind = k /\ e.outcome = o)
  <2>1. P' = P
    BY <1>1, <1>4 DEF Positions
  <2>2. QED
    BY <1>4, <2>1 DEF Count
<1>5. QED
  BY <1>3, <1>4

\* What was done among the first events stays what it was.
LEMMA DoneStays ==
    ASSUME handled \in Seq(Events), NEW e \in Events,
           handled' = Append(handled, e), NEW m \in 0..Len(handled)
    PROVE  FilesDone(m)' = FilesDone(m)
<1> DEFINE n == Len(handled)
           D == {i \in Positions("file", {"ok", "cached"}) : i <= m}
<1>1. /\ n \in Nat /\ DOMAIN handled = 1..n /\ m \in 0..n
      /\ DOMAIN handled' = 1..(n + 1)
      /\ \A i \in 1..n : handled'[i] = handled[i]
  BY Grows
<1> HIDE DEF n
<1>2. D' = D
  BY <1>1 DEF Positions
<1>3. QED
  BY <1>2 DEF FilesDone

\* All the files done are those read and those found in the cache.
LEMMA DoneSplits ==
    ASSUME handled \in Seq(Events)
    PROVE  /\ FilesDone(Len(handled)) = Cardinality(Positions("file", {"ok"}))
                                           + Cardinality(Positions("file", {"cached"}))
           /\ Cardinality(Positions("file", {"ok"})) \in Nat
           /\ Cardinality(Positions("file", {"cached"})) \in Nat
<1> DEFINE A == Positions("file", {"ok"})
           B == Positions("file", {"cached"})
           D == {i \in Positions("file", {"ok", "cached"}) : i <= Len(handled)}
<1>1. /\ IsFiniteSet(A) /\ IsFiniteSet(B)
      /\ Cardinality(A) \in Nat /\ Cardinality(B) \in Nat
  BY PositionsFinite DEF Positions
<1>2. D = A \cup B /\ A \cap B = {}
  BY DEF Positions
<1>3. FilesDone(Len(handled)) = Cardinality(D)
  BY DEF FilesDone
<1> HIDE DEF A, B, D
<1>4. Cardinality(A \cup B) = Cardinality(A) + Cardinality(B) - Cardinality({})
  BY <1>1, <1>2, FS_Union
<1>5. Cardinality({}) = 0
  BY FS_EmptySet
<1>6. QED
  BY <1>1, <1>2, <1>3, <1>4, <1>5 DEF A, B

\* The listener starts with nothing counted and nothing handled.
LEMMA InitInv == Init => Inv
<1> SUFFICES ASSUME Init PROVE Inv
  OBVIOUS
<1>1. handled \in Seq(Events) /\ DOMAIN handled = {} /\ Len(handled) = 0
  BY DEF Init
<1>2. /\ Shaped(state) /\ DOMAIN state.io = {}
      /\ state.count = [k \in Kinds |-> NoCount]
  <2>1. /\ state = [f \in Parts |-> state[f]]
        /\ state.count = [k \in Kinds |-> NoCount]
        /\ state.io = <<>> /\ state.summary.files = 0
    BY DEF Init, NewState, Parts
  <2>2. Counter(NoCount)
    BY DEF NoCount, Counter, Fields
  <2>3. QED
    BY <2>1, <2>2 DEF Shaped
<1>3. CountsMatch
  <2>1. \A k \in Kinds, o \in Outcomes : Positions(k, {o}) = {}
    BY <1>1 DEF Positions
  <2>2. \A k \in Kinds, o \in Outcomes : state.count[k][o] = 0
    BY <1>2 DEF NoCount, Outcomes
  <2>3. QED
    BY <2>1, <2>2, FS_EmptySet DEF CountsMatch
<1>4. Dated /\ ReadoutRuns
  BY DEF Init, Dated, ReadoutRuns
<1>5. QED
  BY <1>1, <1>2, <1>3, <1>4 DEF Inv, Latest, Scoped

\* Handling an event keeps the counts, the readings and the reads true.
LEMMA HandleInv == Inv /\ handleEvent => Inv'
<1> SUFFICES ASSUME Inv, handleEvent PROVE Inv'
  OBVIOUS
<1>1. PICK e \in Events : /\ state' = updateState(state, e)
                          /\ handled' = Append(handled, e)
  BY DEF handleEvent
<1>2. UNCHANGED reads
  BY DEF handleEvent
<1> DEFINE n == Len(handled)
<1>3. /\ handled \in Seq(Events) /\ Shaped(state) /\ Dated
  BY DEF Inv
<1>4. /\ n \in Nat /\ DOMAIN handled = 1..n
      /\ handled' \in Seq(Events) /\ Len(handled') = n + 1
      /\ DOMAIN handled' = 1..(n + 1)
      /\ \A i \in 1..n : handled'[i] = handled[i]
      /\ handled'[n + 1] = e
  BY <1>1, <1>3, Grows
<1>5. /\ Shaped(state')
      /\ \A k \in Kinds, o \in Outcomes :
            state'.count[k][o] =
                IF e.type = "entry" /\ e.kind = k /\ e.outcome = o
                THEN state.count[k][o] + 1 ELSE state.count[k][o]
  BY <1>1, <1>3, UpdateShape
<1>io. state'.io = IF e.type = "iostats" THEN ioAfter(state.io, e) ELSE state.io
  BY <1>1, <1>3, UpdateState
<1>6. CountsMatch'
  <2>1. SUFFICES ASSUME NEW k \in Kinds, NEW o \in Outcomes
                 PROVE  state'.count[k][o] = Count(k, o)'
    BY DEF CountsMatch, Count, Kinds, Outcomes
  <2>2. state.count[k][o] = Count(k, o)
    BY DEF Inv, CountsMatch, Count
  <2>3. Count(k, o)' = IF e.type = "entry" /\ e.kind = k /\ e.outcome = o
                       THEN Count(k, o) + 1 ELSE Count(k, o)
    BY <1>1, <1>3, PositionsGrow
  <2>4. QED
    BY <1>5, <2>2, <2>3
<1>7. Dated' /\ ReadoutRuns'
  <2>1. Dated'
    BY <1>2, <1>3, <1>4 DEF Dated
  <2>2. \A i \in DOMAIN reads : FilesDone(reads[i].after)' = FilesDone(reads[i].after)
    BY <1>1, <1>2, <1>3, DoneStays DEF Dated
  <2>3. QED
    BY <1>2, <2>1, <2>2 DEF Inv, ReadoutRuns
<1> HIDE DEF n
<1>8. /\ "" \notin DOMAIN state.io
      /\ \A sc \in DOMAIN state.io :
            \E i \in Readings(sc) : /\ \A j \in Readings(sc) : j <= i
                                    /\ state.io[sc] = handled[i].stats
      /\ \A i \in 1..n : (handled[i].type = "iostats" /\ handled[i].scope # "")
                              => handled[i].scope \in DOMAIN state.io
  BY <1>4 DEF Inv, Latest, Scoped
<1>9. \A sc : Readings(sc)' = IF e.type = "iostats" /\ e.scope = sc
                             THEN Readings(sc) \cup {n + 1} ELSE Readings(sc)
  BY <1>4 DEF Readings
<1>10. \A sc : Readings(sc) \subseteq 1..n
  BY <1>4 DEF Readings
<1>11. CASE ~(e.type = "iostats" /\ e.scope # "")
  <2>1. state'.io = state.io
    BY <1>io, <1>11 DEF ioAfter
  <2>2. \A sc \in DOMAIN state.io : Readings(sc)' = Readings(sc)
    BY <1>8, <1>9, <1>11
  <2>3. Latest'
    <3>1. "" \notin DOMAIN state'.io
      BY <1>8, <2>1
    <3>2. ASSUME NEW sc \in DOMAIN state'.io
          PROVE  \E i \in Readings(sc)' : /\ \A j \in Readings(sc)' : j <= i
                                         /\ state'.io[sc] = handled'[i].stats
      <4>1. Readings(sc)' = Readings(sc)
        BY <2>1, <2>2, <3>2
      <4>2. PICK i \in Readings(sc) : /\ \A j \in Readings(sc) : j <= i
                                      /\ state.io[sc] = handled[i].stats
        BY <1>8, <2>1, <3>2
      <4>3. handled'[i] = handled[i]
        BY <1>4, <1>10, <4>2
      <4>4. QED
        BY <2>1, <4>1, <4>2, <4>3
    <3>3. QED
      BY <3>1, <3>2 DEF Latest
  <2>4. Scoped'
    <3>1. SUFFICES ASSUME NEW i \in 1..(n + 1), handled'[i].type = "iostats",
                          handled'[i].scope # ""
                   PROVE  handled'[i].scope \in DOMAIN state.io
      BY <1>4, <2>1 DEF Scoped
    <3>2. i # n + 1
      BY <1>4, <1>11, <3>1
    <3>3. i \in 1..n
      BY <1>4, <3>2
    <3>4. QED
      BY <1>4, <1>8, <3>1, <3>3
  <2>5. QED
    BY <1>4, <1>5, <1>6, <1>7, <2>3, <2>4 DEF Inv
<1>12. CASE e.type = "iostats" /\ e.scope # ""
  <2>1. /\ DOMAIN state'.io = DOMAIN state.io \cup {e.scope}
        /\ state'.io[e.scope] = e.stats
        /\ \A sc \in DOMAIN state.io \ {e.scope} : state'.io[sc] = state.io[sc]
    BY <1>io, <1>12 DEF ioAfter
  <2>2. \A sc \in DOMAIN state.io \ {e.scope} : Readings(sc)' = Readings(sc)
    BY <1>9
  <2>3. /\ n + 1 \in Readings(e.scope)'
        /\ \A j \in Readings(e.scope)' : j <= n + 1
    <3>1. Readings(e.scope)' = Readings(e.scope) \cup {n + 1}
      BY <1>9, <1>12
    <3>2. \A j \in Readings(e.scope) : j <= n + 1
      BY <1>4, <1>10
    <3>3. QED
      BY <1>4, <3>1, <3>2
  <2>4. Latest'
    <3>1. "" \notin DOMAIN state'.io
      BY <1>8, <1>12, <2>1
    <3>2. ASSUME NEW sc \in DOMAIN state'.io
          PROVE  \E i \in Readings(sc)' : /\ \A j \in Readings(sc)' : j <= i
                                         /\ state'.io[sc] = handled'[i].stats
      <4>1. CASE sc = e.scope
        <5>1. state'.io[sc] = handled'[n + 1].stats
          BY <1>4, <2>1, <4>1
        <5>2. QED
          BY <2>3, <4>1, <5>1
      <4>2. CASE sc # e.scope
        <5>1. sc \in DOMAIN state.io /\ state'.io[sc] = state.io[sc]
          BY <2>1, <3>2, <4>2
        <5>2. Readings(sc)' = Readings(sc)
          BY <2>2, <4>2, <5>1
        <5>3. PICK i \in Readings(sc) : /\ \A j \in Readings(sc) : j <= i
                                        /\ state.io[sc] = handled[i].stats
          BY <1>8, <5>1
        <5>4. handled'[i] = handled[i]
          BY <1>4, <1>10, <5>3
        <5>5. QED
          BY <5>1, <5>2, <5>3, <5>4
      <4>3. QED
        BY <4>1, <4>2
    <3>3. QED
      BY <3>1, <3>2 DEF Latest
  <2>5. Scoped'
    <3>1. SUFFICES ASSUME NEW i \in 1..(n + 1), handled'[i].type = "iostats",
                          handled'[i].scope # ""
                   PROVE  handled'[i].scope \in DOMAIN state.io \cup {e.scope}
      BY <1>4, <2>1 DEF Scoped
    <3>2. CASE i = n + 1
      BY <1>4, <3>2
    <3>3. CASE i # n + 1
      <4>1. i \in 1..n
        BY <1>4, <3>3
      <4>2. QED
        BY <1>4, <1>8, <3>1, <4>1
    <3>4. QED
      BY <3>2, <3>3
  <2>6. QED
    BY <1>4, <1>5, <1>6, <1>7, <2>4, <2>5 DEF Inv
<1>13. QED
  BY <1>11, <1>12

\* What is said of the State and the history depends on nothing else.
LEMMA Kept ==
    ASSUME Inv, UNCHANGED <<state, handled>>
    PROVE  /\ Latest' /\ Scoped' /\ CountsMatch' /\ Shaped(state')
           /\ handled' \in Seq(Events)
           /\ \A m : FilesDone(m)' = FilesDone(m)
<1>1. \A sc : Readings(sc)' = Readings(sc)
  BY DEF Readings
<1>2. Latest' /\ Scoped'
  BY <1>1 DEF Inv, Latest, Scoped
<1>3. \A k, outcomes : Positions(k, outcomes)' = Positions(k, outcomes)
  BY DEF Positions
<1>4. CountsMatch' /\ \A m : FilesDone(m)' = FilesDone(m)
  BY <1>3 DEF Inv, CountsMatch, FilesDone, Kinds, Outcomes
<1>5. QED
  BY <1>2, <1>4 DEF Inv

\* A read shows the files done so far, once there are any.
LEMMA ReadInv == Inv /\ State => Inv'
<1> SUFFICES ASSUME Inv, State PROVE Inv'
  OBVIOUS
<1> DEFINE n == Len(reads)
           r == [items |-> processed(state).items, after |-> Len(handled)]
           done == FilesDone(Len(handled))
<1>1. reads' = Append(reads, r) /\ UNCHANGED <<state, handled>>
  BY DEF State
<1>2. /\ handled \in Seq(Events) /\ Len(handled) \in Nat
      /\ Shaped(state) /\ CountsMatch /\ Dated /\ ReadoutRuns
  BY DEF Inv
<1>3. state.count["file"].ok + state.count["file"].cached = done /\ done \in Nat
  <2>1. /\ state.count["file"]["ok"] = Cardinality(Positions("file", {"ok"}))
        /\ state.count["file"]["cached"] = Cardinality(Positions("file", {"cached"}))
    BY <1>2 DEF CountsMatch, Kinds, Outcomes
  <2>2. QED
    BY <1>2, <2>1, DoneSplits
<1>4. /\ r.items \in Nat /\ r.after = Len(handled)
      /\ done > 0 => r.items = done
  BY <1>2, <1>3 DEF processed, Shaped
<1>5. r \in [items : Nat, after : Nat]
  BY <1>2, <1>4
<1> HIDE DEF r
<1>6. /\ reads' \in Seq([items : Nat, after : Nat])
      /\ n \in Nat /\ DOMAIN reads = 1..n /\ DOMAIN reads' = 1..(n + 1)
      /\ \A i \in 1..n : reads'[i] = reads[i]
      /\ reads'[n + 1] = r
  BY <1>1, <1>2, <1>5, AppendProperties DEF Dated
<1> HIDE DEF n
<1>7. Dated'
  BY <1>1, <1>2, <1>4, <1>6 DEF Dated
<1>8. \A m : FilesDone(m)' = FilesDone(m)
  BY <1>1, Kept
<1>9. ReadoutRuns'
  <2>1. SUFFICES ASSUME NEW i \in 1..(n + 1), FilesDone(reads'[i].after) > 0
                 PROVE  reads'[i].items = FilesDone(reads'[i].after)
    BY <1>6, <1>8 DEF ReadoutRuns
  <2>2. CASE i \in 1..n
    BY <1>2, <1>6, <2>1, <2>2 DEF ReadoutRuns
  <2>3. CASE i = n + 1
    BY <1>4, <1>6, <2>1, <2>3
  <2>4. QED
    BY <1>6, <2>2, <2>3
<1>10. /\ Latest' /\ Scoped' /\ CountsMatch' /\ Shaped(state')
       /\ handled' \in Seq(Events)
  BY <1>1, Kept DEF Inv
<1>11. QED
  BY <1>7, <1>9, <1>10 DEF Inv

\* The invariant holds in every reachable state.
LEMMA Invariance == Spec => []Inv
<1>1. ASSUME Inv, UNCHANGED vars PROVE Inv'
  BY <1>1, Kept DEF Inv, vars, Dated, ReadoutRuns
<1>2. Inv /\ [Next]_vars => Inv'
  BY <1>1, HandleInv, ReadInv DEF Next, Done
<1>3. QED
  BY InitInv, <1>2, PTL DEF Spec

(***************************************************************************)
(* Whatever events arrive and in whatever order, each entry event is       *)
(* counted once, in its own kind and outcome (listener.go, updateState).   *)
(***************************************************************************)
THEOREM CountsAreHistory == Spec => []CountsMatch
<1>1. Inv => CountsMatch
  BY DEF Inv
<1>2. QED
  BY <1>1, Invariance, PTL

(***************************************************************************)
(* Each I/O scope shows its latest reading, however many there were, and a *)
(* reading without a scope is ignored (listener.go, updateState).          *)
(***************************************************************************)
THEOREM ReadingsAreLatest == Spec => []ReadingsMatch
<1>1. ASSUME Inv PROVE ReadingsMatch
  <2>1. SUFFICES ASSUME NEW sc \in DOMAIN state.io
                 PROVE  state.io[sc] = handled[Max(Readings(sc))].stats
    BY <1>1 DEF Inv, Scoped, ReadingsMatch
  <2>2. PICK i \in Readings(sc) : /\ \A j \in Readings(sc) : j <= i
                                  /\ state.io[sc] = handled[i].stats
    BY <1>1 DEF Inv, Latest
  <2>3. Readings(sc) \subseteq Nat
    BY <1>1 DEF Inv, Readings
  <2>4. Max(Readings(sc)) = i
    <3>1. \A x \in Readings(sc) : (\A y \in Readings(sc) : x >= y) => x = i
      BY <2>2, <2>3
    <3>2. \A y \in Readings(sc) : i >= y
      BY <2>2, <2>3
    <3>3. QED
      BY <3>1, <3>2 DEF Max
  <2>5. QED
    BY <2>2, <2>4
<1>2. QED
  BY <1>1, Invariance, PTL

(***************************************************************************)
(* Every State that was handed out, once a file was done, shows the number *)
(* of files done when it was read, so that a later one never shows less    *)
(* (state.go:60-61, 177-187).                                              *)
(***************************************************************************)
THEOREM ReadoutIsCount == Spec => []ReadoutRuns
<1>1. Inv => ReadoutRuns
  BY DEF Inv
<1>2. QED
  BY <1>1, Invariance, PTL

-----------------------------------------------------------------------------
(* The sizes *)

\* The event is an entry of this kind and outcome whose size counts.
Adds(k, o, e) == e.type = "entry" /\ e.kind = k /\ e.outcome = o /\ k \in Sized

\* The sizes of a kind with an outcome, over the history.
SizeSum(k, o) ==
    IF k \in Sized THEN MapThenSumSet(SizeOf, Positions(k, {o})) ELSE 0

\* A number has one remainder.
LEMMA OneRemainder ==
    ASSUME NEW w \in Nat \ {0}, NEW p \in Int, NEW q \in Int,
           NEW r \in 0..(w - 1), NEW s \in 0..(w - 1), w * p + r = w * q + s
    PROVE  r = s
<1>1. w * (p - q) = s - r OBVIOUS
<1>2. CASE p = q BY <1>2
<1>3. CASE p > q
  <2>1. w * (p - q) >= w BY <1>3
  <2> QED BY <1>1, <2>1
<1>4. CASE p < q
  <2>1. w * (p - q) <= -w BY <1>4
  <2> QED BY <1>1, <2>1
<1> QED BY <1>2, <1>3, <1>4

\* What a remainder is.
LEMMA Remainder ==
    ASSUME NEW a \in Int, NEW w \in Nat \ {0}
    PROVE  a % w \in 0..(w - 1) /\ \E q \in Int : a = w * q + (a % w)
<1>1. a % w \in 0..(w - 1) OBVIOUS
<1>2. a = w * (a \div w) + (a % w) /\ (a \div w) \in Int OBVIOUS
<1> QED BY <1>1, <1>2

\* Wrapping at every addition or once at the end is the same.
LEMMA WrapOnce ==
    ASSUME NEW a \in Int, NEW x \in Int, NEW w \in Nat \ {0}
    PROVE  ((a % w) + x) % w = (a + x) % w
<1> DEFINE r == a % w
           s == (r + x) % w
           u == (a + x) % w
<1>1. PICK q \in Int : r \in 0..(w - 1) /\ a = w * q + r BY Remainder
<1>2. r + x \in Int /\ a + x \in Int BY <1>1
<1> HIDE DEF r
<1>3. PICK p \in Int : s \in 0..(w - 1) /\ r + x = w * p + s BY <1>2, Remainder
<1>4. PICK t \in Int : u \in 0..(w - 1) /\ a + x = w * t + u BY <1>2, Remainder
<1> HIDE DEF s, u
<1>5. w * (q + p) + s = w * t + u
  <2>1. w * (q + p) = w * q + w * p OBVIOUS
  <2>2. w * q \in Int /\ w * p \in Int /\ w * t \in Int OBVIOUS
  <2> QED BY <1>1, <1>3, <1>4, <2>1, <2>2
<1>6. q + p \in Int OBVIOUS
<1>7. s = u BY <1>3, <1>4, <1>5, <1>6, OneRemainder
<1> QED BY <1>7 DEF s, u, r

\* What the entry adds to the sizes of a kind with an outcome.
Gain(k, o, e) == IF Adds(k, o, e) THEN e.size ELSE 0

\* countEntry adds the size of what was read or found in the cache.
LEMMA EntrySizes ==
    ASSUME NEW c, NEW e, NEW k \in Kinds, Counter(c), e.outcome \in Outcomes,
           e.type = "entry", e.kind = k
    PROVE  /\ countEntry(c, e).size = AddSize(c.size, Gain(k, "ok", e))
           /\ countEntry(c, e).cachedSize =
                  AddSize(c.cachedSize, Gain(k, "cached", e))
<1> DEFINE d == countEntry(c, e)
<1>1. /\ d.size = AddSize(c.size, SizeIf(e, {"ok"}))
      /\ d.cachedSize = AddSize(c.cachedSize, SizeIf(e, {"cached"}))
  BY DEF countEntry, Counter, Fields, Outcomes
<1>2. /\ SizeIf(e, {"ok"}) = Gain(k, "ok", e)
      /\ SizeIf(e, {"cached"}) = Gain(k, "cached", e)
  BY DEF SizeIf, Gain, Adds
<1> HIDE DEF d
<1> QED BY <1>1, <1>2 DEF d

\* A total that is a sum, wrapped, stays one.
LEMMA Wraps ==
    ASSUME NEW a \in Int, NEW x \in Int
    PROVE  /\ AddSize(a % Word, x) = (a + x) % Word
           /\ AddSize(a % Word, 0) = a % Word
<1>1. Word \in Nat \ {0} BY WordAssumption
<1>2. a + 0 = a OBVIOUS
<1>3. ((a % Word) + x) % Word = (a + x) % Word BY <1>1, WrapOnce
<1> DEFINE z == 0
<1>z. z \in Int OBVIOUS
<1> HIDE DEF z
<1>4. ((a % Word) + z) % Word = (a + z) % Word BY <1>1, <1>z, WrapOnce
<1> QED BY <1>2, <1>3, <1>4 DEF AddSize, z

\* updateState changes the sizes of the entry's kind only.
LEMMA UpdateSizes ==
    ASSUME NEW s, NEW e \in Events, Shaped(s), NEW k \in Kinds,
           NEW a \in Int, s.count[k].size = a % Word,
           NEW b \in Int, s.count[k].cachedSize = b % Word
    PROVE  LET d == updateState(s, e).count[k] IN
           /\ d.size = AddSize(a % Word, Gain(k, "ok", e))
           /\ d.cachedSize = AddSize(b % Word, Gain(k, "cached", e))
<1> DEFINE c == s.count[k]
           d == updateState(s, e).count[k]
<1>1. CASE e.type = "entry" /\ e.kind = k
  <2>1. e.outcome \in Outcomes BY <1>1, EventsAssumption
  <2>2. updateState(s, e).count = [s.count EXCEPT ![e.kind] = countEntry(@, e)]
    BY <1>1, UpdateState
  <2>3. d = countEntry(c, e) /\ Counter(c) BY <1>1, <2>2 DEF Shaped
  <2> HIDE DEF c, d
  <2> QED BY <1>1, <2>1, <2>3, EntrySizes DEF c, d
<1>2. CASE ~(e.type = "entry" /\ e.kind = k)
  <2>1. d = c
    <3>1. CASE e.type = "entry"
      <4>1. updateState(s, e).count = [s.count EXCEPT ![e.kind] = countEntry(@, e)]
        BY <3>1, UpdateState
      <4> QED BY <1>2, <3>1, <4>1 DEF Shaped
    <3>2. CASE e.type # "entry" BY <3>2, UpdateState
    <3> QED BY <3>1, <3>2
  <2>2. Gain(k, "ok", e) = 0 /\ Gain(k, "cached", e) = 0
    BY <1>2 DEF Adds, Gain
  <2>3. AddSize(a % Word, 0) = a % Word /\ AddSize(b % Word, 0) = b % Word
    BY Wraps
  <2> HIDE DEF c, d
  <2> QED BY <2>1, <2>2, <2>3 DEF c, d
<1> QED BY <1>1, <1>2

\* The sums are numbers.
LEMMA SizeSumInt ==
    ASSUME handled \in Seq(Events), NEW k, NEW o
    PROVE  SizeSum(k, o) \in Int
<1> DEFINE P == Positions(k, {o})
<1>1. \A i \in P : handled[i].size \in Int
  BY EventsAssumption DEF Positions
<1>2. IsFiniteSet(P) BY PositionsFinite DEF Positions
<1>3. MapThenSumSet(SizeOf, P) = Sum(handled, P)[P] BY SumIs
<1> HIDE DEF P
<1>4. IsSum(Sum(handled, P), handled, P) BY <1>2, SumExists
<1>5. \A s \in SUBSET P : Sum(handled, P)[s] \in Int BY <1>1, <1>2, <1>4, SumAgrees
<1>6. Sum(handled, P)[P] \in Int BY <1>5
<1> QED BY <1>3, <1>6 DEF SizeSum, P

\* An entry adds its size to the sum of its kind and outcome.
LEMMA SizesGrow ==
    ASSUME handled \in Seq(Events), NEW e \in Events,
           handled' = Append(handled, e), NEW k, NEW o
    PROVE  SizeSum(k, o)' = SizeSum(k, o) + Gain(k, o, e)
<1> DEFINE n == Len(handled)
           P == Positions(k, {o})
<1>1. /\ n \in Nat /\ DOMAIN handled = 1..n
      /\ DOMAIN handled' = 1..(n + 1)
      /\ \A i \in 1..n : handled'[i] = handled[i]
      /\ handled'[n + 1] = e
  BY Grows
<1>2. IsFiniteSet(P) BY PositionsFinite DEF Positions
<1>3. \A i \in P : handled[i].size \in Int
  BY EventsAssumption DEF Positions
<1>4. MapThenSumSet(SizeOf, P) = Sum(handled, P)[P] BY SumIs
<1>5. MapThenSumSet(SizeOf, P)' = Sum(handled', P')[P']
  BY DEF MapThenSumSet, MapThenFoldSet, SizeOf, Sum, IsSum, Added, AnyOf
<1> HIDE DEF n
<1>6. \A i \in P : handled'[i].size = handled[i].size BY <1>1 DEF Positions
<1>int. SizeSum(k, o) \in Int BY SizeSumInt
<1>gain. Gain(k, o, e) = IF Adds(k, o, e) THEN e.size ELSE 0 BY DEF Gain
<1>7. CASE k \notin Sized BY <1>7 DEF SizeSum, Adds, Gain
<1>8. CASE k \in Sized /\ Adds(k, o, e)
  <2>1. P' = P \cup {n + 1} /\ n + 1 \notin P
    BY <1>1, <1>8 DEF Positions, Adds
  <2>2. handled'[n + 1].size = e.size /\ e.size \in Int
    BY <1>1, <1>8, EventsAssumption DEF Adds
  <2> DEFINE H == handled
             G == handled'
  <2> HIDE DEF P, H, G
  <2>3. \A i \in P : H[i].size \in Int /\ G[i].size = H[i].size
    BY <1>3, <1>6 DEF H, G
  <2>4. Sum(G, P \cup {n + 1})[P \cup {n + 1}] = Sum(H, P)[P] + G[n + 1].size
    <3>1. n + 1 \notin P /\ G[n + 1].size \in Int BY <2>1, <2>2 DEF G
    <3> DEFINE x == n + 1
    <3> HIDE DEF x
    <3>2. x \notin P /\ G[x].size \in Int BY <3>1 DEF x
    <3>3. Sum(G, P \cup {x})[P \cup {x}] = Sum(H, P)[P] + G[x].size
      BY <1>2, <2>3, <3>2, SumGrows
    <3> QED BY <3>3 DEF x
  <2>5. SizeSum(k, o)' = Sum(G, P')[P'] BY <1>5, <1>8 DEF SizeSum, G, P
  <2>6. SizeSum(k, o) = Sum(H, P)[P] BY <1>4, <1>8 DEF SizeSum, H, P
  <2> QED BY <1>8, <1>gain, <2>1, <2>2, <2>4, <2>5, <2>6 DEF G
<1>9. CASE k \in Sized /\ ~Adds(k, o, e)
  <2>1. P' = P BY <1>1, <1>9 DEF Positions, Adds
  <2> DEFINE H == handled
             G == handled'
  <2> HIDE DEF P, H, G
  <2>2. IsSum(Sum(H, P), H, P) /\ IsSum(Sum(G, P), G, P) BY <1>2, SumExists
  <2>3. \A i \in P : H[i].size \in Int /\ G[i].size = H[i].size
    BY <1>3, <1>6 DEF H, G
  <2>4. \A s \in SUBSET P : Sum(G, P)[s] = Sum(H, P)[s]
    BY <1>2, <2>2, <2>3, SumAgrees
  <2>5. SizeSum(k, o)' = Sum(G, P')[P'] BY <1>5, <1>9 DEF SizeSum, G, P
  <2>6. SizeSum(k, o) = Sum(H, P)[P] BY <1>4, <1>9 DEF SizeSum, H, P
  <2>7. SizeSum(k, o)' = SizeSum(k, o) BY <2>1, <2>4, <2>5, <2>6
  <2> QED BY <1>9, <1>int, <1>gain, <2>7
<1> QED BY <1>7, <1>8, <1>9

\* Every step keeps the sizes.
LEMMA SizesStep == Inv /\ SizesMatch /\ [Next]_vars => SizesMatch'
<1> SUFFICES ASSUME Inv, SizesMatch, [Next]_vars PROVE SizesMatch'
  OBVIOUS
<1>1. \A k \in Kinds : /\ state.count[k].size = SizeSum(k, "ok") % Word
                       /\ state.count[k].cachedSize = SizeSum(k, "cached") % Word
  BY DEF SizesMatch, SizeSum
<1>2. SUFFICES ASSUME NEW k \in Kinds
               PROVE  /\ state'.count[k].size = SizeSum(k, "ok")' % Word
                      /\ state'.count[k].cachedSize = SizeSum(k, "cached")' % Word
  BY DEF SizesMatch, SizeSum
<1>3. handled \in Seq(Events) /\ Shaped(state) BY DEF Inv
<1>4. CASE handleEvent
  <2>1. PICK e \in Events : /\ state' = updateState(state, e)
                            /\ handled' = Append(handled, e)
    BY <1>4 DEF handleEvent
  <2> DEFINE a == SizeSum(k, "ok")
             b == SizeSum(k, "cached")
             x == Gain(k, "ok", e)
             y == Gain(k, "cached", e)
  <2>2. a \in Int /\ b \in Int BY <1>3, SizeSumInt
  <2>3. x \in Int /\ y \in Int BY EventsAssumption DEF Gain, Adds
  <2>4. a' = a + x /\ b' = b + y BY <1>3, <2>1, SizesGrow
  <2>5. state.count[k].size = a % Word /\ state.count[k].cachedSize = b % Word
    BY <1>1
  <2> HIDE DEF a, b
  <2>6. /\ state'.count[k].size = AddSize(a % Word, x)
        /\ state'.count[k].cachedSize = AddSize(b % Word, y)
    BY <1>3, <2>1, <2>2, <2>5, UpdateSizes
  <2> HIDE DEF x, y
  <2>7. AddSize(a % Word, x) = (a + x) % Word /\ AddSize(b % Word, y) = (b + y) % Word
    BY <2>2, <2>3, Wraps
  <2> QED BY <2>4, <2>6, <2>7 DEF a, b
<1>5. CASE UNCHANGED <<state, handled>>
  <2>1. Positions(k, {"ok"})' = Positions(k, {"ok"})
    BY <1>5 DEF Positions
  <2>2. Positions(k, {"cached"})' = Positions(k, {"cached"})
    BY <1>5 DEF Positions
  <2>3. \A S : MapThenSumSet(SizeOf, S)' = MapThenSumSet(SizeOf, S)
    BY <1>5 DEF MapThenSumSet, MapThenFoldSet, SizeOf
  <2>4. /\ SizeSum(k, "ok")' = SizeSum(k, "ok")
        /\ SizeSum(k, "cached")' = SizeSum(k, "cached")
    BY <2>1, <2>2, <2>3 DEF SizeSum
  <2> QED BY <1>1, <1>5, <2>4
<1> QED BY <1>4, <1>5 DEF Next, State, Done, vars

\* Nothing has a size at the start.
LEMMA SizesInit == Init => SizesMatch
<1> SUFFICES ASSUME Init, NEW k \in Kinds
             PROVE  /\ state.count[k].size = SizeSum(k, "ok") % Word
                    /\ state.count[k].cachedSize = SizeSum(k, "cached") % Word
  BY DEF SizesMatch, SizeSum
<1>1. \A o : Positions(k, {o}) = {} BY DEF Init, Positions
<1>2. MapThenSumSet(SizeOf, {}) = 0
  <2>1. MapThenSumSet(SizeOf, {}) = Sum(handled, {})[{}] BY SumIs
  <2>2. IsSum(Sum(handled, {}), handled, {}) BY FS_EmptySet, SumExists
  <2>3. Sum(handled, {})[{}] = Added(Sum(handled, {}), handled, {})
    BY <2>2 DEF IsSum
  <2> QED BY <2>1, <2>3 DEF Added
<1>3. SizeSum(k, "ok") = 0 /\ SizeSum(k, "cached") = 0
  BY <1>1, <1>2 DEF SizeSum
<1>4. state.count[k].size = 0 /\ state.count[k].cachedSize = 0
  BY DEF Init, NewState, NoCount
<1>5. 0 % Word = 0 BY WordAssumption
<1> QED BY <1>3, <1>4, <1>5

(***************************************************************************)
(* The whole fold is that of the history: every entry counted once in its  *)
(* own kind and outcome, its size once and on the right side of the cache, *)
(* negative ones included, modulo the word of a uint64; each I/O scope     *)
(* with its latest reading (listener.go, updateState).                     *)
(***************************************************************************)
THEOREM FoldIsHistory == Spec => []FoldMatchesHistory
<1>1. Spec => []SizesMatch
  BY SizesInit, SizesStep, Invariance, PTL DEF Spec
<1>2. CountsMatch /\ SizesMatch /\ ReadingsMatch => FoldMatchesHistory
  BY DEF FoldMatchesHistory
<1> QED BY <1>1, <1>2, CountsAreHistory, ReadingsAreLatest, PTL

-----------------------------------------------------------------------------
(* Indices in their order *)

\* How many of a set of indices are not above one.
Rank(K, j) == Cardinality({k \in K : k <= j})

\* Ranks of a finite set are distinct and grow with the indices.
LEMMA RankGrows ==
    ASSUME NEW K, K \subseteq Nat, IsFiniteSet(K)
    PROVE  /\ \A j \in K : Rank(K, j) \in 1..Cardinality(K)
           /\ \A j, l \in K : j < l => Rank(K, j) < Rank(K, l)
<1> DEFINE U(j) == {k \in K : k <= j}
<1>1. ASSUME NEW j \in K
      PROVE  /\ IsFiniteSet(U(j)) /\ Cardinality(U(j)) \in Nat
             /\ Cardinality(U(j)) <= Cardinality(K) /\ Cardinality(U(j)) # 0
             /\ Rank(K, j) = Cardinality(U(j))
  <2>1. U(j) \in SUBSET K /\ j \in U(j) OBVIOUS
  <2>2. Rank(K, j) = Cardinality(U(j)) BY DEF Rank
  <2> HIDE DEF U
  <2>3. IsFiniteSet(U(j)) /\ Cardinality(U(j)) <= Cardinality(K)
    BY <2>1, FS_Subset
  <2>4. Cardinality(U(j)) \in Nat BY <2>3, FS_CardinalityType
  <2>5. Cardinality(U(j)) # 0 BY <2>1, <2>3, FS_EmptySet
  <2> QED BY <2>2, <2>3, <2>4, <2>5
<1>2. Cardinality(K) \in Nat BY FS_CardinalityType
<1>3. ASSUME NEW j \in K, NEW l \in K, j < l
      PROVE  Cardinality(U(j)) < Cardinality(U(l))
  <2>1. U(j) \in SUBSET (U(l) \ {l}) /\ l \in U(l)
    <3>1. j \in Nat /\ l \in Nat OBVIOUS
    <3>2. ASSUME NEW k \in U(j) PROVE k \in U(l) \ {l}
      <4>1. k \in K /\ k \in Nat /\ k <= j OBVIOUS
      <4>2. k <= l /\ k # l BY <1>3, <3>1, <4>1
      <4> QED BY <4>1, <4>2
    <3>3. l \in U(l) BY <3>1
    <3> QED BY <3>2, <3>3
  <2>2. IsFiniteSet(U(l)) /\ Cardinality(U(l)) \in Nat /\ Cardinality(U(j)) \in Nat
    BY <1>1
  <2> HIDE DEF U
  <2>3. IsFiniteSet(U(l) \ {l}) /\ Cardinality(U(l) \ {l}) = Cardinality(U(l)) - 1
    BY <2>1, <2>2, FS_RemoveElement
  <2>4. Cardinality(U(j)) <= Cardinality(U(l) \ {l}) BY <2>1, <2>3, FS_Subset
  <2> QED BY <2>2, <2>3, <2>4
<1> HIDE DEF U
<1> QED BY <1>1, <1>2, <1>3

\* The i-th index is the one of rank i.
LEMMA NthRank ==
    ASSUME NEW K, K \subseteq Nat, IsFiniteSet(K), NEW j \in K
    PROVE  Nth(K, Rank(K, j)) = j
<1>1. \A k \in K : Rank(K, k) = Rank(K, j) => k = j
  <2> SUFFICES ASSUME NEW k \in K, Rank(K, k) = Rank(K, j), k # j PROVE FALSE
    OBVIOUS
  <2>1. k < j \/ j < k OBVIOUS
  <2>2. Rank(K, k) \in Nat /\ Rank(K, j) \in Nat
    <3>1. Cardinality(K) \in Nat BY FS_CardinalityType
    <3>2. Rank(K, k) \in 1..Cardinality(K) /\ Rank(K, j) \in 1..Cardinality(K)
      BY RankGrows
    <3> QED BY <3>1, <3>2
  <2>3. Rank(K, k) < Rank(K, j) \/ Rank(K, j) < Rank(K, k) BY <2>1, RankGrows
  <2> QED BY <2>2, <2>3
<1> QED BY <1>1, Zenon DEF Nth, Rank

\* There is an index of each rank, in the order of the ranks.
LEMMA NthIs ==
    ASSUME NEW K, K \subseteq Nat, IsFiniteSet(K)
    PROVE  /\ \A i \in 1..Cardinality(K) : Nth(K, i) \in K
           /\ \A i, j \in 1..Cardinality(K) : i < j => Nth(K, i) < Nth(K, j)
           /\ \A k \in K : \E i \in 1..Cardinality(K) : Nth(K, i) = k
<1> DEFINE c == Cardinality(K)
           f == [j \in K |-> Rank(K, j)]
<1>1. c \in Nat BY FS_CardinalityType
<1>2. \A j \in K : Rank(K, j) \in 1..c BY RankGrows
<1>3. \A j, l \in K : j < l => Rank(K, j) < Rank(K, l) BY RankGrows
<1>4. f \in Injection(K, 1..c)
  <2>1. f \in [K -> 1..c] BY <1>2
  <2>2. ASSUME NEW j \in K, NEW l \in K, f[j] = f[l] PROVE j = l
    <3>1. Rank(K, j) = Rank(K, l) BY <2>2
    <3>2. Nth(K, Rank(K, j)) = j /\ Nth(K, Rank(K, l)) = l BY NthRank
    <3> QED BY <3>1, <3>2
  <2> QED BY <2>1, <2>2 DEF Injection, IsInjective
<1>5. IsFiniteSet(1..c) /\ Cardinality(1..c) = c BY <1>1, FS_Interval
<1>6. f \in Surjection(K, 1..c) BY <1>4, <1>5, FS_Injection
<1>7. \A i \in 1..c : \E j \in K : Rank(K, j) = i BY <1>6 DEF Surjection
<1>8. \A i \in 1..c : Nth(K, i) \in K /\ Rank(K, Nth(K, i)) = i
  <2> SUFFICES ASSUME NEW i \in 1..c
               PROVE  Nth(K, i) \in K /\ Rank(K, Nth(K, i)) = i
    OBVIOUS
  <2>1. PICK j \in K : Rank(K, j) = i BY <1>7
  <2>2. Nth(K, Rank(K, j)) = j BY NthRank
  <2> QED BY <2>1, <2>2
<1>9. ASSUME NEW i \in 1..c, NEW j \in 1..c, i < j PROVE Nth(K, i) < Nth(K, j)
  <2> DEFINE a == Nth(K, i)
             b == Nth(K, j)
  <2>1. a \in K /\ b \in K /\ Rank(K, a) = i /\ Rank(K, b) = j BY <1>8
  <2> HIDE DEF a, b
  <2>2. a # b BY <1>9, <2>1
  <2>3. ~(b < a)
    <3> SUFFICES ASSUME b < a PROVE FALSE OBVIOUS
    <3>1. j < i BY <1>3, <2>1
    <3> QED BY <1>1, <1>9, <3>1
  <2>4. a \in Nat /\ b \in Nat BY <2>1
  <2>5. a < b BY <2>2, <2>3, <2>4
  <2> QED BY <2>5 DEF a, b
<1>10. \A k \in K : \E i \in 1..c : Nth(K, i) = k BY <1>2, NthRank
<1> QED BY <1>1, <1>8, <1>9, <1>10

\* Of an interval the i-th is the i-th.
LEMMA NthInterval ==
    ASSUME NEW a \in Nat, NEW b \in Nat, a <= b + 1
    PROVE  /\ IsFiniteSet(a..b) /\ Cardinality(a..b) = b + 1 - a
           /\ \A i \in 1..b + 1 - a : Nth(a..b, i) = a + i - 1
<1> DEFINE K == a..b
           c == b + 1 - a
<1>1. IsFiniteSet(K) /\ Cardinality(K) = c
  <2>1. CASE a > b BY <2>1, FS_Interval
  <2>2. CASE a <= b BY <2>2, FS_Interval
  <2> QED BY <2>1, <2>2
<1>2. K \subseteq Nat OBVIOUS
<1>3. ASSUME NEW i \in 1..c PROVE Nth(K, i) = a + i - 1
  <2> DEFINE j == a + i - 1
  <2>1. j \in K /\ {k \in K : k <= j} = a..j /\ a \in Int /\ j \in Int /\ ~(a > j)
        /\ j - a + 1 = i
    OBVIOUS
  <2> HIDE DEF j, K
  <2>2. Cardinality(a..j) = i BY <2>1, FS_Interval
  <2>3. Rank(K, j) = i BY <2>1, <2>2 DEF Rank
  <2>4. Nth(K, i) = j BY <1>1, <1>2, <2>1, <2>3, NthRank
  <2> QED BY <2>4 DEF j
<1> QED BY <1>1, <1>3

\* Positions that go down, and above which nothing of the set is left out.
Falls(g, lo, hi, S) ==
    /\ \A i \in lo..hi : g[i] \in S
    /\ \A i, j \in lo..hi : i < j => g[i] > g[j]
    /\ \A i \in lo..hi, k \in S : k > g[i] => \E j \in lo..hi : g[j] = k

\* Nothing of the set is left out.
Complete(g, m, S) == \A k \in S : \E i \in 1..m : g[i] = k

\* The positions are those of the set.
Exactly(g, m, S) == (\A i \in 1..m : g[i] \in S) /\ Complete(g, m, S)

\* As many as there are, such positions are the last ones of the set.
LEMMA FallCount ==
    ASSUME NEW S, S \subseteq Nat, IsFiniteSet(S), NEW m \in Nat, NEW g,
           \A i \in 1..m : g[i] \in S,
           \A i, j \in 1..m : i < j => g[i] > g[j]
    PROVE  /\ Cardinality(S) \in Nat /\ m <= Cardinality(S)
           /\ Complete(g, m, S) => m = Cardinality(S)
<1> DEFINE f == [i \in 1..m |-> g[i]]
<1>1. IsFiniteSet(1..m) /\ Cardinality(1..m) = m BY FS_Interval
<1>2. f \in [1..m -> S] OBVIOUS
<1>3. ASSUME NEW i \in 1..m, NEW j \in 1..m, f[i] = f[j] PROVE i = j
  <2>1. g[i] = g[j] /\ g[i] \in Nat /\ g[j] \in Nat BY <1>3
  <2>2. ~(i < j) /\ ~(j < i) BY <2>1
  <2> QED BY <2>2
<1>4. f \in Injection(1..m, S) BY <1>2, <1>3 DEF Injection, IsInjective
<1>5. /\ Cardinality(1..m) <= Cardinality(S)
      /\ Cardinality(1..m) = Cardinality(S) <=> f \in Surjection(1..m, S)
  BY <1>4, FS_Injection
<1>6. Cardinality(S) \in Nat BY FS_CardinalityType
<1>7. Complete(g, m, S) => f \in Surjection(1..m, S)
  BY <1>2 DEF Surjection, Complete
<1> QED BY <1>1, <1>5, <1>6, <1>7

\* The position is the i-th of the set from its end.
IsFromEnd(S, i, x) ==
    /\ x \in S
    /\ Rank(S, x) = Cardinality(S) + 1 - i
    /\ Nth(S, Cardinality(S) + 1 - i) = x

\* The i-th of them is the i-th from the end.
LEMMA FallNth ==
    ASSUME NEW S, S \subseteq Nat, IsFiniteSet(S), NEW m \in Nat, NEW g,
           Falls(g, 1, m, S), NEW i \in 1..m
    PROVE  IsFromEnd(S, i, g[i])
<1> DEFINE V == {g[j] : j \in 1..i - 1}
           f == [j \in 1..i - 1 |-> g[j]]
           c == Cardinality(S)
<1>1. /\ \A j \in 1..m : g[j] \in S
      /\ \A j, l \in 1..m : j < l => g[j] > g[l]
      /\ \A j \in 1..m, k \in S : k > g[j] => \E l \in 1..m : g[l] = k
  BY DEF Falls
<1>2. c \in Nat BY FS_CardinalityType
<1>3. i - 1 \in Nat /\ 1..i - 1 \subseteq 1..m OBVIOUS
<1>4. IsFiniteSet(1..i - 1) /\ Cardinality(1..i - 1) = i - 1
  <2>1. 1 \in Int /\ i - 1 \in Int BY <1>3
  <2> QED BY <1>3, <2>1, FS_Interval
<1>5. f \in Injection(1..i - 1, V) /\ f \in Surjection(1..i - 1, V)
  <2>1. f \in [1..i - 1 -> V] OBVIOUS
  <2>2. ASSUME NEW j \in 1..i - 1, NEW l \in 1..i - 1, f[j] = f[l] PROVE j = l
    <3>1. g[j] = g[l] /\ j \in 1..m /\ l \in 1..m BY <1>3, <2>2
    <3>2. g[j] \in Nat BY <1>1, <3>1
    <3>3. ~(j < l) /\ ~(l < j) BY <1>1, <3>1, <3>2
    <3> QED BY <3>3
  <2> QED BY <2>1, <2>2 DEF Injection, IsInjective, Surjection
<1>6. IsFiniteSet(V) /\ Cardinality(V) = i - 1
  <2> HIDE DEF V, f
  <2> QED BY <1>4, <1>5, FS_Surjection
<1>7. V \subseteq S BY <1>1, <1>3
<1>8. {k \in S : k <= g[i]} = S \ V
  <2>1. ASSUME NEW k \in S, k <= g[i], k \in V PROVE FALSE
    <3>1. PICK j \in 1..i - 1 : k = g[j] BY <2>1
    <3>2. g[j] > g[i] BY <1>1, <1>3, <3>1
    <3>3. k \in Nat /\ g[i] \in Nat BY <1>1
    <3> QED BY <2>1, <3>1, <3>2, <3>3
  <2>2. ASSUME NEW k \in S, ~(k <= g[i]) PROVE k \in V
    <3>1. k \in Nat /\ g[i] \in Nat BY <1>1
    <3>2. k > g[i] BY <2>2, <3>1
    <3>3. PICK l \in 1..m : g[l] = k BY <1>1, <3>2
    <3>4. l < i
      <4> SUFFICES ASSUME l >= i PROVE FALSE OBVIOUS
      <4>1. CASE l = i BY <3>1, <3>2, <3>3, <4>1
      <4>2. CASE l > i
        <5>1. g[i] > g[l] BY <1>1, <4>2
        <5> QED BY <3>1, <3>2, <3>3, <5>1
      <4> QED BY <4>1, <4>2
    <3>5. l \in 1..i - 1 BY <3>4
    <3> QED BY <3>3, <3>5
  <2> QED BY <2>1, <2>2
<1> HIDE DEF V
<1>9. Cardinality(S \ V) = c - (i - 1)
  <2>1. S \cap V = V BY <1>7
  <2>2. Cardinality(S \ V) = Cardinality(S) - Cardinality(S \cap V) BY FS_Difference
  <2> QED BY <1>6, <2>1, <2>2
<1>10. Rank(S, g[i]) = c + 1 - i BY <1>2, <1>8, <1>9 DEF Rank
<1>11. g[i] \in S BY <1>1
<1> HIDE DEF c
<1>12. Nth(S, Rank(S, g[i])) = g[i] BY <1>11, NthRank
<1>13. Nth(S, c + 1 - i) = g[i] BY <1>10, <1>12
<1> QED BY <1>10, <1>11, <1>13 DEF c, IsFromEnd

\* How many of a set of positions are not below one.
FromOn(S, x) == {k \in S : k >= x}

\* With the i-th of them there are i positions from it on.
LEMMA FallAbove ==
    ASSUME NEW S, S \subseteq Nat, IsFiniteSet(S), NEW m \in Nat, NEW g,
           Falls(g, 1, m, S), NEW i \in 1..m
    PROVE  Cardinality(FromOn(S, g[i])) = i
<1> DEFINE x == g[i]
           U == {k \in S : k <= x}
           c == Cardinality(S)
<1>1. IsFromEnd(S, i, x) BY FallNth
<1>2. x \in S /\ Cardinality(U) = c + 1 - i BY <1>1 DEF IsFromEnd, Rank
<1> HIDE DEF x
<1>3. FromOn(S, x) = (S \ U) \cup {x} /\ x \notin S \ U
  <2>1. x \in Nat BY <1>2
  <2>2. \A k \in S : k >= x <=> ~(k <= x) \/ k = x BY <2>1
  <2>3. x \in U BY <1>2, <2>1
  <2>4. FromOn(S, x) \subseteq (S \ U) \cup {x} BY <2>2 DEF FromOn
  <2>5. (S \ U) \cup {x} \subseteq FromOn(S, x) BY <1>2, <2>1, <2>2 DEF FromOn
  <2> QED BY <2>3, <2>4, <2>5
<1>4. S \cap U = U OBVIOUS
<1> HIDE DEF U
<1>5. Cardinality(S \ U) = c - Cardinality(U)
  <2>1. Cardinality(S \ U) = Cardinality(S) - Cardinality(S \cap U) BY FS_Difference
  <2> QED BY <1>4, <2>1
<1>6. IsFiniteSet(S \ U) BY FS_Difference
<1>7. Cardinality((S \ U) \cup {x}) = Cardinality(S \ U) + 1
  BY <1>3, <1>6, FS_AddElement
<1>8. c \in Nat /\ i \in Nat BY FS_CardinalityType
<1> HIDE DEF c
<1>9. Cardinality(S \ U) + 1 = i BY <1>2, <1>5, <1>8
<1> QED BY <1>3, <1>7, <1>9 DEF x

\* The first of them alone.
LEMMA FallsCut ==
    ASSUME NEW S, S \subseteq Nat, NEW g, NEW lo \in Nat, NEW hi \in Nat,
           NEW cut \in Nat, cut <= hi, Falls(g, lo, hi, S)
    PROVE  Falls(g, lo, cut, S)
<1>1. lo..cut \subseteq lo..hi OBVIOUS
<1>2. /\ \A i \in lo..hi : g[i] \in S
      /\ \A i, j \in lo..hi : i < j => g[i] > g[j]
      /\ \A i \in lo..hi, k \in S : k > g[i] => \E j \in lo..hi : g[j] = k
  BY DEF Falls
<1>3. ASSUME NEW i \in lo..cut, NEW k \in S, k > g[i]
      PROVE  \E j \in lo..cut : g[j] = k
  <2>1. i \in lo..hi BY <1>1
  <2>2. PICK j \in lo..hi : g[j] = k BY <1>2, <1>3, <2>1
  <2>3. k \in Nat /\ g[i] \in Nat BY <1>2, <2>1
  <2>4. ~(i < j)
    <3> SUFFICES ASSUME i < j PROVE FALSE OBVIOUS
    <3>1. g[i] > g[j] BY <1>2, <2>1
    <3> QED BY <1>3, <2>2, <2>3, <3>1
  <2>5. j \in lo..cut BY <2>4
  <2> QED BY <2>2, <2>5
<1> QED BY <1>1, <1>2, <1>3 DEF Falls

\* The same, moved by one.
LEMMA FallsShift ==
    ASSUME NEW S, NEW g, NEW f, NEW lo \in Nat, NEW hi \in Nat,
           Falls(g, lo, hi, S), \A i \in lo..hi : f[i + 1] = g[i]
    PROVE  Falls(f, lo + 1, hi + 1, S)
<1>1. \A i \in lo + 1..hi + 1 : i - 1 \in lo..hi /\ f[i] = g[i - 1]
  <2> SUFFICES ASSUME NEW i \in lo + 1..hi + 1
               PROVE  i - 1 \in lo..hi /\ f[i] = g[i - 1]
    OBVIOUS
  <2>1. i - 1 \in lo..hi /\ (i - 1) + 1 = i OBVIOUS
  <2> QED BY <2>1
<1>2. /\ \A i \in lo..hi : g[i] \in S
      /\ \A i, j \in lo..hi : i < j => g[i] > g[j]
      /\ \A i \in lo..hi, k \in S : k > g[i] => \E j \in lo..hi : g[j] = k
  BY DEF Falls
<1>3. \A i \in lo + 1..hi + 1 : f[i] \in S BY <1>1, <1>2
<1>4. ASSUME NEW i \in lo + 1..hi + 1, NEW j \in lo + 1..hi + 1, i < j
      PROVE  f[i] > f[j]
  <2>1. i - 1 < j - 1 BY <1>4
  <2> QED BY <1>1, <1>2, <2>1
<1>5. ASSUME NEW i \in lo + 1..hi + 1, NEW k \in S, k > f[i]
      PROVE  \E j \in lo + 1..hi + 1 : f[j] = k
  <2>1. PICK j \in lo..hi : g[j] = k BY <1>1, <1>2, <1>5
  <2>2. j + 1 \in lo + 1..hi + 1 /\ f[j + 1] = k BY <2>1
  <2> QED BY <2>2
<1> QED BY <1>3, <1>4, <1>5 DEF Falls

\* One above all others put in front.
LEMMA FallsPut ==
    ASSUME NEW S, S \subseteq Nat, NEW g, NEW f, NEW lo \in Nat, NEW hi \in Nat,
           lo <= hi + 1, Falls(g, lo, hi, S), \A i \in lo..hi : f[i + 1] = g[i],
           f[lo] \in Nat, \A k \in S : k < f[lo]
    PROVE  Falls(f, lo, hi + 1, S \cup {f[lo]})
<1> DEFINE new == f[lo]
<1>1. Falls(f, lo + 1, hi + 1, S) BY FallsShift
<1>2. /\ \A i \in lo + 1..hi + 1 : f[i] \in S
      /\ \A i, j \in lo + 1..hi + 1 : i < j => f[i] > f[j]
      /\ \A i \in lo + 1..hi + 1, k \in S :
            k > f[i] => \E j \in lo + 1..hi + 1 : f[j] = k
  BY <1>1 DEF Falls
<1>3. \A i \in lo..hi + 1 : i = lo \/ i \in lo + 1..hi + 1 OBVIOUS
<1>4. \A i \in lo + 1..hi + 1 : i \in lo..hi + 1 OBVIOUS
<1>lo. lo \in lo..hi + 1 OBVIOUS
<1>5. \A i \in lo..hi + 1 : f[i] \in S \cup {new} BY <1>2, <1>3
<1>6. ASSUME NEW i \in lo..hi + 1, NEW j \in lo..hi + 1, i < j PROVE f[i] > f[j]
  <2>1. j \in lo + 1..hi + 1 BY <1>6
  <2>2. CASE i = lo
    <3>1. f[j] < new /\ f[j] \in Nat BY <1>2, <2>1
    <3> QED BY <2>2, <3>1
  <2>3. CASE i \in lo + 1..hi + 1 BY <1>2, <1>6, <2>1, <2>3
  <2> QED BY <1>3, <2>2, <2>3
<1>7. ASSUME NEW i \in lo..hi + 1, NEW k \in S \cup {new}, k > f[i]
      PROVE  \E j \in lo..hi + 1 : f[j] = k
  <2>1. CASE k = new BY <1>lo, <2>1
  <2>2. CASE k \in S
    <3>1. i # lo
      <4> SUFFICES ASSUME i = lo PROVE FALSE OBVIOUS
      <4>1. k < new /\ k > new /\ k \in Nat BY <1>7, <2>2
      <4> QED BY <4>1
    <3>2. i \in lo + 1..hi + 1 BY <1>3, <3>1
    <3>3. PICK j \in lo + 1..hi + 1 : f[j] = k BY <1>2, <1>7, <2>2, <3>2
    <3> QED BY <1>4, <3>3
  <2> QED BY <2>1, <2>2
<1> QED BY <1>5, <1>6, <1>7 DEF Falls

\* Some of them, picked out in their order.
Selects(h, g, lo, hi, f, lo2, hi2, T) ==
    /\ \A i \in lo2..hi2 : /\ h[i] \in lo..hi /\ f[i] = g[h[i]]
                           /\ g[h[i]] \in T
    /\ \A i, j \in lo2..hi2 : i < j => h[i] < h[j]
    /\ \A l \in lo..hi : g[l] \in T => \E i \in lo2..hi2 : h[i] = l

\* A selection of positions that go down goes down.
LEMMA FallsPick ==
    ASSUME NEW S, NEW T, T \subseteq S, NEW g, NEW f, NEW h,
           NEW lo, NEW hi, NEW lo2, NEW hi2,
           Falls(g, lo, hi, S), Selects(h, g, lo, hi, f, lo2, hi2, T)
    PROVE  Falls(f, lo2, hi2, T)
<1>1. /\ \A i \in lo2..hi2 : /\ h[i] \in lo..hi /\ f[i] = g[h[i]]
                             /\ g[h[i]] \in T
      /\ \A i, j \in lo2..hi2 : i < j => h[i] < h[j]
      /\ \A l \in lo..hi : g[l] \in T => \E i \in lo2..hi2 : h[i] = l
  BY DEF Selects
<1>2. /\ \A i, j \in lo..hi : i < j => g[i] > g[j]
      /\ \A i \in lo..hi, k \in S : k > g[i] => \E j \in lo..hi : g[j] = k
  BY DEF Falls
<1>3. \A i \in lo2..hi2 : f[i] \in T BY <1>1
<1>4. \A i, j \in lo2..hi2 : i < j => f[i] > f[j] BY <1>1, <1>2
<1>5. ASSUME NEW i \in lo2..hi2, NEW k \in T, k > f[i]
      PROVE  \E j \in lo2..hi2 : f[j] = k
  <2>1. k \in S /\ k > g[h[i]] /\ h[i] \in lo..hi BY <1>1, <1>5
  <2>2. PICK l \in lo..hi : g[l] = k BY <1>2, <2>1
  <2>3. PICK j \in lo2..hi2 : h[j] = l BY <1>1, <2>2
  <2> QED BY <1>1, <2>2, <2>3
<1> QED BY <1>3, <1>4, <1>5 DEF Falls

-----------------------------------------------------------------------------
(* RecentPaths and the history *)

StatusAt(H, i) == IF H[i].outcome = "error" THEN "error" ELSE "ok"

(***************************************************************************)
(* A list of n paths, m of them in progress, each the one of the event at  *)
(* a position g[i] of the history H: the last ones of Live, then the last  *)
(* ones of Ended.                                                           *)
(***************************************************************************)
Shows(R, n, m, g, H, Live, Ended) ==
    /\ m \in 0..n
    /\ \A i \in 1..n : R[i].path = H[g[i]].path
    /\ \A i \in 1..m : R[i].status = "in-progress"
    /\ \A i \in m + 1..n : R[i].status = StatusAt(H, g[i])
    /\ Falls(g, 1, m, Live) /\ Falls(g, m + 1, n, Ended)

\* A list is the part of another from one index to another.
Slice(q, R, a, b, S) ==
    /\ q \in Seq(S) /\ Len(q) = b + 1 - a
    /\ \A i \in 1..b + 1 - a : q[i] = R[a + i - 1]

\* What is kept of a list at an interval of its indices.
LEMMA KeepInterval ==
    ASSUME NEW S, NEW R \in Seq(S), NEW a \in Nat \ {0}, NEW b \in Nat,
           a <= b + 1, b <= Len(R)
    PROVE  Slice(Keep(R, a..b), R, a, b, S)
<1> DEFINE c == b + 1 - a
           q == [i \in 1..c |-> R[a + i - 1]]
<1>1. c \in Nat OBVIOUS
<1>2. Cardinality(a..b) = c /\ \A i \in 1..c : Nth(a..b, i) = a + i - 1
  BY NthInterval
<1>3. Keep(R, a..b) = q BY <1>2 DEF Keep
<1>4. \A i \in 1..c : R[a + i - 1] \in S
  <2> SUFFICES ASSUME NEW i \in 1..c PROVE R[a + i - 1] \in S OBVIOUS
  <2>1. Len(R) \in Nat OBVIOUS
  <2>2. a + i - 1 \in 1..Len(R) BY <2>1
  <2> QED BY <2>2
<1>5. q \in Seq(S) /\ Len(q) = c
  <2> HIDE DEF c
  <2> QED BY <1>1, <1>4
<1> HIDE DEF q, c
<1>6. \A i \in 1..c : q[i] = R[a + i - 1] BY DEF q
<1>7. Slice(q, R, a, b, S) BY <1>5, <1>6 DEF c, Slice
<1> QED BY <1>3, <1>7

\* Such a list in its two parts.
LEMMA Parted ==
    ASSUME NEW S, NEW R \in Seq(S), NEW n, n = Len(R), NEW m, NEW g, NEW H,
           NEW Live, NEW Ended, Shows(R, n, m, g, H, Live, Ended)
    PROVE  /\ n \in Nat /\ m \in Nat /\ m <= n
           /\ InProgress(R) \in Seq(S) /\ Len(InProgress(R)) = m
           /\ \A i \in 1..m : InProgress(R)[i] = R[i]
           /\ Settled(R) \in Seq(S) /\ Len(Settled(R)) = n - m
           /\ \A i \in 1..n - m : Settled(R)[i] = R[m + i]
<1>1. n \in Nat /\ DOMAIN R = 1..n OBVIOUS
<1>2. m \in 0..n /\ m \in Nat /\ m <= n BY <1>1 DEF Shows
<1>3. \A i \in 1..m : R[i].status = "in-progress" BY DEF Shows
<1>4. \A i \in m + 1..n : R[i].status # "in-progress" BY DEF Shows, StatusAt
<1>5. \A i \in 1..n : i \in 1..m \/ i \in m + 1..n BY <1>1, <1>2
<1>6. 1..m \subseteq 1..n /\ m + 1..n \subseteq 1..n BY <1>1, <1>2
<1>7. {i \in DOMAIN R : R[i].status = "in-progress"} = 1..m
  BY <1>1, <1>3, <1>4, <1>5, <1>6
<1>8. {i \in DOMAIN R : R[i].status # "in-progress"} = m + 1..n
  BY <1>1, <1>3, <1>4, <1>5, <1>6
<1>9. InProgress(R) = Keep(R, 1..m) BY <1>7 DEF InProgress
<1>10. Settled(R) = Keep(R, m + 1..n) BY <1>8 DEF Settled
<1>11. /\ InProgress(R) \in Seq(S) /\ Len(InProgress(R)) = m
       /\ \A i \in 1..m : InProgress(R)[i] = R[i]
  <2> DEFINE a == 1
  <2>1. a \in Nat \ {0} /\ a <= m + 1 /\ m <= Len(R) /\ m + 1 - a = m BY <1>2
  <2>2. \A i \in 1..m : a + i - 1 = i BY <1>2
  <2> HIDE DEF a
  <2>3. Slice(Keep(R, a..m), R, a, m, S) BY <1>2, <2>1, KeepInterval
  <2>4. /\ Keep(R, a..m) \in Seq(S) /\ Len(Keep(R, a..m)) = m + 1 - a
        /\ \A i \in 1..m + 1 - a : Keep(R, a..m)[i] = R[a + i - 1]
    BY <2>3 DEF Slice
  <2> QED BY <1>9, <2>1, <2>2, <2>4 DEF a
<1>12. /\ Settled(R) \in Seq(S) /\ Len(Settled(R)) = n - m
       /\ \A i \in 1..n - m : Settled(R)[i] = R[m + i]
  <2> DEFINE a == m + 1
  <2>1. a \in Nat \ {0} /\ a <= n + 1 /\ n <= Len(R) /\ n + 1 - a = n - m
    BY <1>1, <1>2
  <2>2. \A i \in 1..n - m : a + i - 1 = m + i BY <1>1, <1>2
  <2> HIDE DEF a
  <2>3. Slice(Keep(R, a..n), R, a, n, S) BY <1>1, <2>1, KeepInterval
  <2>4. /\ Keep(R, a..n) \in Seq(S) /\ Len(Keep(R, a..n)) = n + 1 - a
        /\ \A i \in 1..n + 1 - a : Keep(R, a..n)[i] = R[a + i - 1]
    BY <2>3 DEF Slice
  <2> QED BY <1>10, <2>1, <2>2, <2>4 DEF a
<1> QED BY <1>1, <1>2, <1>11, <1>12

\* Three lists put together.
Join(s, t, u) == s \o t \o u

Joins(q, s, a, t, b, u, c, S) ==
    /\ q \in Seq(S) /\ Len(q) = a + b + c
    /\ \A i \in 1..a : q[i] = s[i]
    /\ \A i \in 1..b : q[a + i] = t[i]
    /\ \A i \in 1..c : q[a + b + i] = u[i]

\* Such a list has the elements of the three, one after the other.
LEMMA Joined ==
    ASSUME NEW S, NEW s \in Seq(S), NEW t \in Seq(S), NEW u \in Seq(S)
    PROVE  Joins(Join(s, t, u), s, Len(s), t, Len(t), u, Len(u), S)
<1> DEFINE st == s \o t
           q == Join(s, t, u)
           a == Len(s)
           b == Len(t)
           c == Len(u)
<1>1. a \in Nat /\ b \in Nat /\ c \in Nat OBVIOUS
<1>2. /\ st \in Seq(S) /\ Len(st) = a + b
      /\ \A i \in 1..a + b : st[i] = IF i <= a THEN s[i] ELSE t[i - a]
  BY ConcatProperties
<1>3. q = st \o u BY DEF Join
<1> HIDE DEF st, q
<1>4. /\ q \in Seq(S) /\ Len(q) = (a + b) + c
      /\ \A i \in 1..(a + b) + c : q[i] = IF i <= a + b THEN st[i] ELSE u[i - (a + b)]
  <2>0. st \in Seq(S) BY <1>2
  <2>1. Len(st) = a + b BY <1>2
  <2>2. /\ st \o u \in Seq(S) /\ Len(st \o u) = Len(st) + Len(u)
        /\ \A i \in 1..Len(st) + Len(u) :
              (st \o u)[i] = IF i <= Len(st) THEN st[i] ELSE u[i - Len(st)]
    BY <2>0, ConcatProperties
  <2> QED BY <1>3, <2>1, <2>2
<1> HIDE DEF a, b, c
<1>5. ASSUME NEW i \in 1..a PROVE q[i] = s[i]
  <2>1. i \in 1..a + b /\ i \in 1..(a + b) + c /\ i <= a + b /\ i <= a BY <1>1
  <2> QED BY <1>2, <1>4, <2>1
<1>6. ASSUME NEW i \in 1..b PROVE q[a + i] = t[i]
  <2>1. /\ a + i \in 1..a + b /\ a + i \in 1..(a + b) + c /\ a + i <= a + b
        /\ ~(a + i <= a) /\ (a + i) - a = i
    BY <1>1
  <2> QED BY <1>2, <1>4, <2>1
<1>7. ASSUME NEW i \in 1..c PROVE q[a + b + i] = u[i]
  <2>1. /\ a + b + i \in 1..(a + b) + c /\ ~(a + b + i <= a + b)
        /\ (a + b + i) - (a + b) = i
    BY <1>1
  <2> QED BY <1>4, <2>1
<1> QED BY <1>4, <1>5, <1>6, <1>7 DEF q, a, b, c, Joins

\* The same positions, by whatever function.
LEMMA FallsSame ==
    ASSUME NEW S, NEW g, NEW f, NEW lo, NEW hi, Falls(g, lo, hi, S),
           \A i \in lo..hi : f[i] = g[i]
    PROVE  Falls(f, lo, hi, S)
  BY DEF Falls

\* A path that starts comes first, and everything else follows as it was.
Started(Q, n, m, g, H, Live, Ended, new, S) ==
    /\ Q \in Seq(S) /\ Len(Q) = n + 1
    /\ \E f : /\ Shows(Q, n + 1, m + 1, f, H, Live \cup {new}, Ended)
              /\ f[1] = new /\ \A i \in 1..n : f[i + 1] = g[i]

\* startRecentPath keeps the list one of the history.
LEMMA ShowsStart ==
    ASSUME NEW S, NEW R \in Seq(S), NEW m, NEW g, NEW H, NEW Live, NEW Ended,
           Shows(R, Len(R), m, g, H, Live, Ended),
           Live \subseteq Nat, NEW new \in Nat, \A k \in Live : k < new,
           NEW x \in S, x.path = H[new].path, x.status = "in-progress"
    PROVE  Started(Join(<<x>>, InProgress(R), Settled(R)),
                   Len(R), m, g, H, Live, Ended, new, S)
<1> SUFFICES ASSUME NEW n, n = Len(R), NEW Q,
                    Q = Join(<<x>>, InProgress(R), Settled(R))
             PROVE  Started(Q, n, m, g, H, Live, Ended, new, S)
  OBVIOUS
<1>s. Shows(R, n, m, g, H, Live, Ended) OBVIOUS
<1> DEFINE A == InProgress(R)
           B == Settled(R)
           X == <<x>>
           f == [i \in 1..n + 1 |-> IF i = 1 THEN new ELSE g[i - 1]]
<1>1. /\ n \in Nat /\ m \in Nat /\ m <= n
      /\ A \in Seq(S) /\ Len(A) = m /\ \A i \in 1..m : A[i] = R[i]
      /\ B \in Seq(S) /\ Len(B) = n - m /\ \A i \in 1..n - m : B[i] = R[m + i]
  BY <1>s, Parted
<1>2. X \in Seq(S) /\ Len(X) = 1 /\ X[1] = x OBVIOUS
<1> HIDE DEF A, B, X
<1>3. /\ Q \in Seq(S) /\ Len(Q) = 1 + m + (n - m)
      /\ \A i \in 1..1 : Q[i] = X[i]
      /\ \A i \in 1..m : Q[1 + i] = A[i]
      /\ \A i \in 1..n - m : Q[1 + m + i] = B[i]
  <2>1. Q = Join(X, A, B) BY DEF A, B, X
  <2>m. X \in Seq(S) /\ A \in Seq(S) /\ B \in Seq(S) BY <1>1, <1>2
  <2>2. Joins(Join(X, A, B), X, Len(X), A, Len(A), B, Len(B), S)
    BY <2>m, Joined
  <2>3. Len(X) = 1 /\ Len(A) = m /\ Len(B) = n - m BY <1>1, <1>2
  <2>4. Joins(Q, X, 1, A, m, B, n - m, S) BY <2>1, <2>2, <2>3
  <2> QED BY <2>4 DEF Joins
<1>4. Len(Q) = n + 1 BY <1>1, <1>3
<1>5. Q[1] = x BY <1>2, <1>3
<1>6. ASSUME NEW i \in 1..n PROVE Q[i + 1] = R[i]
  <2>1. CASE i <= m
    <3>1. i \in 1..m /\ 1 + i = i + 1 BY <1>1, <2>1
    <3> QED BY <1>1, <1>3, <3>1
  <2>2. CASE ~(i <= m)
    <3> DEFINE l == i - m
    <3>1. l \in 1..n - m /\ 1 + m + l = i + 1 /\ m + l = i BY <1>1, <2>2
    <3> HIDE DEF l
    <3>2. Q[1 + m + l] = R[m + l] BY <1>1, <1>3, <3>1
    <3> QED BY <3>1, <3>2
  <2> QED BY <2>1, <2>2
<1>7. f[1] = new /\ \A i \in 1..n : f[i + 1] = g[i]
  <2>1. 1 \in 1..n + 1 BY <1>1
  <2>2. \A i \in 1..n : i + 1 \in 1..n + 1 /\ i + 1 # 1 /\ (i + 1) - 1 = i BY <1>1
  <2> QED BY <2>1, <2>2
<1> HIDE DEF f
<1>8. /\ \A i \in 1..n : R[i].path = H[g[i]].path
      /\ \A i \in 1..m : R[i].status = "in-progress"
      /\ \A i \in m + 1..n : R[i].status = StatusAt(H, g[i])
      /\ Falls(g, 1, m, Live) /\ Falls(g, m + 1, n, Ended)
  BY <1>s DEF Shows
<1>9. \A i \in 1..n + 1 : i = 1 \/ \E l \in 1..n : i = l + 1
  <2> SUFFICES ASSUME NEW i \in 1..n + 1, i # 1 PROVE \E l \in 1..n : i = l + 1
    OBVIOUS
  <2>1. i - 1 \in 1..n /\ i = (i - 1) + 1 BY <1>1
  <2> QED BY <2>1
<1>10. ASSUME NEW i \in 1..n + 1 PROVE Q[i].path = H[f[i]].path
  <2>1. CASE i = 1 BY <1>5, <1>7, <2>1
  <2>2. CASE \E l \in 1..n : i = l + 1
    <3>1. PICK l \in 1..n : i = l + 1 BY <2>2
    <3>2. Q[i] = R[l] /\ f[i] = g[l] BY <1>6, <1>7, <3>1
    <3> QED BY <1>8, <3>2
  <2> QED BY <1>9, <2>1, <2>2
<1>11. ASSUME NEW i \in 1..m + 1 PROVE Q[i].status = "in-progress"
  <2>1. CASE i = 1 BY <1>5, <2>1
  <2>2. CASE i # 1
    <3> DEFINE l == i - 1
    <3>1. l \in 1..m /\ l \in 1..n /\ i = l + 1 BY <1>1, <2>2
    <3> HIDE DEF l
    <3> QED BY <1>6, <1>8, <3>1
  <2> QED BY <2>1, <2>2
<1>12. ASSUME NEW i \in (m + 1) + 1..n + 1 PROVE Q[i].status = StatusAt(H, f[i])
  <2> DEFINE l == i - 1
  <2>1. l \in m + 1..n /\ l \in 1..n /\ i = l + 1 BY <1>1
  <2> HIDE DEF l
  <2> QED BY <1>6, <1>7, <1>8, <2>1
<1>13. Falls(f, 1, m + 1, Live \cup {new})
  <2> DEFINE one == 1
  <2>1. one \in Nat /\ one <= m + 1 /\ f[one] = new /\ Falls(g, one, m, Live)
    BY <1>1, <1>7, <1>8
  <2>2. \A i \in one..m : f[i + 1] = g[i] BY <1>1, <1>7
  <2> HIDE DEF one
  <2>4. f[one] \in Nat /\ \A k \in Live : k < f[one] BY <2>1
  <2>5. Live \subseteq Nat /\ m \in Nat BY <1>1
  <2>3. Falls(f, one, m + 1, Live \cup {f[one]})
    BY <2>1, <2>2, <2>4, <2>5, FallsPut, Zenon
  <2> QED BY <2>1, <2>3 DEF one
<1>14. Falls(f, (m + 1) + 1, n + 1, Ended)
  <2> DEFINE lo == m + 1
  <2>1. lo \in Nat /\ Falls(g, lo, n, Ended) BY <1>1, <1>8
  <2>2. \A i \in lo..n : f[i + 1] = g[i] BY <1>1, <1>7
  <2> HIDE DEF lo
  <2>3. Falls(f, lo + 1, n + 1, Ended) BY <1>1, <2>1, <2>2, FallsShift
  <2> QED BY <2>3 DEF lo
<1>15. m + 1 \in 0..n + 1 BY <1>1
<1>16. Shows(Q, n + 1, m + 1, f, H, Live \cup {new}, Ended)
  BY <1>10, <1>11, <1>12, <1>13, <1>14, <1>15 DEF Shows
<1> QED BY <1>3, <1>4, <1>7, <1>16 DEF Started

\* A path that settles comes first of the settled ones.
Ends(Q, n, m, g, H, Live, Ended, new, S) ==
    /\ Q \in Seq(S) /\ Len(Q) = n + 1
    /\ \E f : /\ Shows(Q, n + 1, m, f, H, Live, Ended \cup {new})
              /\ \A i \in 1..m : f[i] = g[i]

\* So does what settleRecentPath puts together.
LEMMA ShowsSettle ==
    ASSUME NEW S, NEW R \in Seq(S), NEW m, NEW g, NEW H, NEW Live, NEW Ended,
           Shows(R, Len(R), m, g, H, Live, Ended),
           Ended \subseteq Nat, NEW new \in Nat, \A k \in Ended : k < new,
           NEW x \in S, x.path = H[new].path, x.status = StatusAt(H, new)
    PROVE  Ends(Join(InProgress(R), <<x>>, Settled(R)),
                Len(R), m, g, H, Live, Ended, new, S)
<1> SUFFICES ASSUME NEW n, n = Len(R), NEW Q,
                    Q = Join(InProgress(R), <<x>>, Settled(R))
             PROVE  Ends(Q, n, m, g, H, Live, Ended, new, S)
  OBVIOUS
<1>s. Shows(R, n, m, g, H, Live, Ended) OBVIOUS
<1> DEFINE A == InProgress(R)
           B == Settled(R)
           X == <<x>>
           f == [i \in 1..n + 1 |-> IF i <= m THEN g[i]
                                    ELSE IF i = m + 1 THEN new ELSE g[i - 1]]
<1>1. /\ n \in Nat /\ m \in Nat /\ m <= n
      /\ A \in Seq(S) /\ Len(A) = m /\ \A i \in 1..m : A[i] = R[i]
      /\ B \in Seq(S) /\ Len(B) = n - m /\ \A i \in 1..n - m : B[i] = R[m + i]
  BY <1>s, Parted
<1>2. X \in Seq(S) /\ Len(X) = 1 /\ X[1] = x OBVIOUS
<1> HIDE DEF A, B, X
<1>3. /\ Q \in Seq(S) /\ Len(Q) = m + 1 + (n - m)
      /\ \A i \in 1..m : Q[i] = A[i]
      /\ \A i \in 1..1 : Q[m + i] = X[i]
      /\ \A i \in 1..n - m : Q[m + 1 + i] = B[i]
  <2>1. Q = Join(A, X, B) BY DEF A, B, X
  <2>m. A \in Seq(S) /\ X \in Seq(S) /\ B \in Seq(S) BY <1>1, <1>2
  <2>2. Joins(Join(A, X, B), A, Len(A), X, Len(X), B, Len(B), S)
    BY <2>m, Joined
  <2>3. Len(X) = 1 /\ Len(A) = m /\ Len(B) = n - m BY <1>1, <1>2
  <2>4. Joins(Q, A, m, X, 1, B, n - m, S) BY <2>1, <2>2, <2>3
  <2> QED BY <2>4 DEF Joins
<1>4. Len(Q) = n + 1 BY <1>1, <1>3
<1>5. Q[m + 1] = x
  <2>1. 1 \in 1..1 OBVIOUS
  <2> QED BY <1>2, <1>3, <2>1
<1>6. ASSUME NEW i \in m + 1..n PROVE Q[i + 1] = R[i]
  <2> DEFINE l == i - m
  <2>1. l \in 1..n - m /\ m + 1 + l = i + 1 /\ m + l = i BY <1>1
  <2> HIDE DEF l
  <2>2. Q[m + 1 + l] = B[l] BY <1>3, <2>1
  <2>3. B[l] = R[m + l] BY <1>1, <2>1
  <2> QED BY <2>1, <2>2, <2>3
<1>7. /\ \A i \in 1..m : f[i] = g[i]
      /\ f[m + 1] = new /\ \A i \in m + 1..n : f[i + 1] = g[i]
  <2>1. \A i \in 1..m : i \in 1..n + 1 /\ i <= m BY <1>1
  <2>2. m + 1 \in 1..n + 1 /\ ~(m + 1 <= m) BY <1>1
  <2>3. \A i \in m + 1..n : /\ i + 1 \in 1..n + 1 /\ ~(i + 1 <= m)
                            /\ i + 1 # m + 1 /\ (i + 1) - 1 = i
    BY <1>1
  <2> QED BY <2>1, <2>2, <2>3
<1> HIDE DEF f
<1>8. /\ \A i \in 1..n : R[i].path = H[g[i]].path
      /\ \A i \in 1..m : R[i].status = "in-progress"
      /\ \A i \in m + 1..n : R[i].status = StatusAt(H, g[i])
      /\ Falls(g, 1, m, Live) /\ Falls(g, m + 1, n, Ended)
  BY <1>s DEF Shows
<1>9. \A i \in 1..n + 1 : i \in 1..m \/ i = m + 1 \/ \E l \in m + 1..n : i = l + 1
  <2> SUFFICES ASSUME NEW i \in 1..n + 1, ~(i \in 1..m), i # m + 1
               PROVE \E l \in m + 1..n : i = l + 1
    OBVIOUS
  <2>1. i - 1 \in m + 1..n /\ i = (i - 1) + 1 BY <1>1
  <2> QED BY <2>1
<1>10. ASSUME NEW i \in 1..n + 1 PROVE Q[i].path = H[f[i]].path
  <2>1. CASE i \in 1..m
    <3>1. i \in 1..n BY <1>1, <2>1
    <3>2. Q[i] = R[i] BY <1>1, <1>3, <2>1
    <3>3. f[i] = g[i] BY <1>7, <2>1
    <3> QED BY <1>8, <3>1, <3>2, <3>3
  <2>2. CASE i = m + 1 BY <1>5, <1>7, <2>2
  <2>3. CASE \E l \in m + 1..n : i = l + 1
    <3>1. PICK l \in m + 1..n : i = l + 1 BY <2>3
    <3>2. l \in 1..n BY <1>1
    <3> QED BY <1>6, <1>7, <1>8, <3>1, <3>2
  <2> QED BY <1>9, <2>1, <2>2, <2>3
<1>11. \A i \in 1..m : Q[i].status = "in-progress"
  <2>1. \A i \in 1..m : Q[i] = R[i] BY <1>1, <1>3
  <2> QED BY <1>8, <2>1
<1>12. ASSUME NEW i \in m + 1..n + 1 PROVE Q[i].status = StatusAt(H, f[i])
  <2>1. CASE i = m + 1 BY <1>5, <1>7, <2>1
  <2>2. CASE i # m + 1
    <3> DEFINE l == i - 1
    <3>1. l \in m + 1..n /\ i = l + 1 BY <1>1, <2>2
    <3> HIDE DEF l
    <3> QED BY <1>6, <1>7, <1>8, <3>1
  <2> QED BY <2>1, <2>2
<1>13. Falls(f, 1, m, Live) BY <1>7, <1>8, FallsSame
<1>14. Falls(f, m + 1, n + 1, Ended \cup {new})
  <2> DEFINE lo == m + 1
  <2>1. lo \in Nat /\ lo <= n + 1 /\ f[lo] = new /\ Falls(g, lo, n, Ended)
    BY <1>1, <1>7, <1>8
  <2>2. \A i \in lo..n : f[i + 1] = g[i] BY <1>1, <1>7
  <2> HIDE DEF lo
  <2>4. f[lo] \in Nat /\ \A k \in Ended : k < f[lo] BY <2>1
  <2>5. Ended \subseteq Nat /\ n \in Nat BY <1>1
  <2>3. Falls(f, lo, n + 1, Ended \cup {f[lo]})
    BY <2>1, <2>2, <2>4, <2>5, FallsPut, Zenon
  <2> QED BY <2>1, <2>3 DEF lo
<1>15. m \in 0..n + 1 BY <1>1
<1>16. Shows(Q, n + 1, m, f, H, Live, Ended \cup {new})
  BY <1>10, <1>11, <1>12, <1>13, <1>14, <1>15 DEF Shows
<1> QED BY <1>3, <1>4, <1>7, <1>16 DEF Ends

\* What is kept of a list is picked out of it in its order.
Picks(q, h, R, K) ==
    /\ \A i \in 1..Len(q) : h[i] \in K /\ q[i] = R[h[i]]
    /\ \A i, j \in 1..Len(q) : i < j => h[i] < h[j]
    /\ \A k \in K : \E i \in 1..Len(q) : h[i] = k

\* What Keep returns is such a list.
LEMMA KeepPicks ==
    ASSUME NEW S, NEW R \in Seq(S), NEW K, K \subseteq 1..Len(R)
    PROVE  /\ Keep(R, K) \in Seq(S) /\ Len(Keep(R, K)) \in 0..Len(R)
           /\ \E h : Picks(Keep(R, K), h, R, K)
<1> DEFINE n == Len(R)
           c == Cardinality(K)
           h == [i \in 1..c |-> Nth(K, i)]
           q == [i \in 1..c |-> R[h[i]]]
<1>1. n \in Nat OBVIOUS
<1>2. IsFiniteSet(1..n) /\ Cardinality(1..n) = n
  <2> HIDE DEF n
  <2>1. 1 \in Int /\ n \in Int BY <1>1
  <2>2. /\ IsFiniteSet(1..n)
        /\ Cardinality(1..n) = IF 1 > n THEN 0 ELSE n - 1 + 1
    BY <2>1, FS_Interval
  <2> QED BY <1>1, <2>2
<1>3. IsFiniteSet(K) /\ c <= n /\ K \subseteq Nat
  <2>1. K \in SUBSET (1..n) OBVIOUS
  <2>2. IsFiniteSet(K) /\ Cardinality(K) <= Cardinality(1..n) BY <1>2, <2>1, FS_Subset
  <2> QED BY <1>1, <1>2, <2>1, <2>2
<1>4. c \in Nat BY <1>3, FS_CardinalityType
<1>5. /\ \A i \in 1..c : Nth(K, i) \in K
      /\ \A i, j \in 1..c : i < j => Nth(K, i) < Nth(K, j)
      /\ \A k \in K : \E i \in 1..c : Nth(K, i) = k
  BY <1>3, NthIs
<1>6. Keep(R, K) = q BY DEF Keep
<1> HIDE DEF c
<1>7. /\ \A i \in 1..c : h[i] \in K
      /\ \A i, j \in 1..c : i < j => h[i] < h[j]
      /\ \A k \in K : \E i \in 1..c : h[i] = k
  BY <1>5
<1> HIDE DEF h
<1>r. \A k \in K : R[k] \in S OBVIOUS
<1>8. \A i \in 1..c : R[h[i]] \in S BY <1>r, <1>7
<1>9. q \in Seq(S) /\ Len(q) = c BY <1>4, <1>8
<1>10. \A i \in 1..c : q[i] = R[h[i]] OBVIOUS
<1> HIDE DEF q
<1>11. c \in 0..n BY <1>1, <1>3, <1>4
<1>12. Picks(q, h, R, K) BY <1>7, <1>9, <1>10 DEF Picks
<1> QED BY <1>6, <1>9, <1>11, <1>12

\* Indices that go up pass a mark at one place.
LEMMA Passes ==
    ASSUME NEW c \in Nat, NEW m \in Nat, NEW h, \A i \in 1..c : h[i] \in Nat,
           \A i, j \in 1..c : i < j => h[i] < h[j]
    PROVE  \E l \in 0..c : /\ \A i \in 1..l : h[i] <= m
                           /\ \A i \in l + 1..c : h[i] > m
<1> DEFINE P == {i \in 1..c + 1 : i = c + 1 \/ h[i] > m}
<1>1. c + 1 \in P /\ P \subseteq Nat OBVIOUS
<1>2. PICK a \in P : \A j \in P : a <= j
  <2> HIDE DEF P
  <2> QED BY <1>1, Least
<1>3. a \in 1..c + 1 /\ a - 1 \in 0..c OBVIOUS
<1>4. ASSUME NEW i \in 1..a - 1 PROVE h[i] <= m
  <2>1. i \in 1..c /\ i \in 1..c + 1 /\ i # c + 1 /\ ~(a <= i) BY <1>3
  <2>2. ~(i \in P) BY <1>2, <2>1
  <2>3. ~(h[i] > m) BY <2>1, <2>2
  <2>4. h[i] \in Nat BY <2>1
  <2> QED BY <2>3, <2>4
<1>5. ASSUME NEW i \in (a - 1) + 1..c PROVE h[i] > m
  <2>1. i \in 1..c /\ a <= i /\ a \in 1..c BY <1>3
  <2>2. h[a] > m BY <2>1
  <2>3. h[a] \in Nat /\ h[i] \in Nat BY <2>1
  <2>4. CASE a = i BY <2>2, <2>4
  <2>5. CASE a < i
    <3>1. h[a] < h[i] BY <2>1, <2>5
    <3> QED BY <2>2, <2>3, <3>1
  <2> QED BY <2>1, <2>4, <2>5
<1> WITNESS a - 1 \in 0..c
<1> QED BY <1>4, <1>5

\* What is left of a list without a path.
LEMMA WithoutList ==
    ASSUME NEW S, NEW R \in Seq(S), NEW p
    PROVE  /\ Without(R, p) \in Seq(S)
           /\ Len(Without(R, p)) \in Nat /\ Len(Without(R, p)) <= Len(R)
<1> DEFINE K == {i \in DOMAIN R : R[i].path # p}
<1>1. Len(R) \in Nat /\ K \subseteq 1..Len(R) OBVIOUS
<1>2. Without(R, p) = Keep(R, K) BY DEF Without
<1> HIDE DEF K
<1>3. Keep(R, K) \in Seq(S) /\ Len(Keep(R, K)) \in 0..Len(R) BY <1>1, KeepPicks
<1> QED BY <1>1, <1>2, <1>3

\* A path that is taken out leaves the others as they were.
Rest(H, A, p) == {k \in A : H[k].path # p}

Leaves(W, p, m, g, H, Live, Ended, F) ==
    \E a, b : /\ Shows(W, Len(W), a, b, H, Rest(H, Live, p), Rest(H, Ended, p))
              /\ Exactly(g, m, F) => Exactly(b, a, Rest(H, F, p))

\* Without the path, the list shows the rest of the history.
LEMMA ShowsWithout ==
    ASSUME NEW S, NEW R \in Seq(S), NEW m, NEW g, NEW H, NEW Live, NEW Ended,
           Shows(R, Len(R), m, g, H, Live, Ended), NEW p, NEW F, F \subseteq Live
    PROVE  Leaves(Without(R, p), p, m, g, H, Live, Ended, F)
<1> SUFFICES ASSUME NEW n, n = Len(R),
                    NEW Live2, Live2 = {k \in Live : H[k].path # p},
                    NEW Ended2, Ended2 = {k \in Ended : H[k].path # p},
                    NEW F2, F2 = {k \in F : H[k].path # p}
             PROVE  \E a, b :
                       /\ Shows(Without(R, p), Len(Without(R, p)), a, b, H, Live2,
                                Ended2)
                       /\ Exactly(g, m, F) => Exactly(b, a, F2)
  BY Zenon DEF Leaves, Rest
<1>s. Shows(R, n, m, g, H, Live, Ended) OBVIOUS
<1> DEFINE K == {i \in DOMAIN R : R[i].path # p}
           W == Without(R, p)
           c == Len(W)
<1>1. n \in Nat /\ DOMAIN R = 1..n /\ K \subseteq 1..Len(R) OBVIOUS
<1>2. W = Keep(R, K) BY DEF Without
<1>k. \A i \in 1..n : i \in K <=> R[i].path # p BY <1>1
<1> HIDE DEF K, W
<1>3. /\ W \in Seq(S) /\ c \in 0..n
      /\ \E h : Picks(W, h, R, K)
  BY <1>1, <1>2, KeepPicks
<1> HIDE DEF c
<1>4. PICK h : /\ \A i \in 1..c : h[i] \in K /\ W[i] = R[h[i]]
               /\ \A i, j \in 1..c : i < j => h[i] < h[j]
               /\ \A k \in K : \E i \in 1..c : h[i] = k
  BY <1>3 DEF c, Picks
<1>5. c \in Nat /\ c <= n BY <1>1, <1>3
<1>6. /\ m \in Nat /\ m <= n
      /\ \A i \in 1..n : R[i].path = H[g[i]].path
      /\ \A i \in 1..m : R[i].status = "in-progress"
      /\ \A i \in m + 1..n : R[i].status = StatusAt(H, g[i])
      /\ Falls(g, 1, m, Live) /\ Falls(g, m + 1, n, Ended)
  BY <1>1, <1>s DEF Shows
<1>7. \A i \in 1..c : h[i] \in 1..n /\ h[i] \in Nat
  <2>1. \A k \in K : k \in 1..n /\ k \in Nat BY <1>1
  <2>2. \A i \in 1..c : h[i] \in K BY <1>4
  <2> QED BY <2>1, <2>2
<1>8. PICK l \in 0..c : /\ \A i \in 1..l : h[i] <= m
                        /\ \A i \in l + 1..c : h[i] > m
  <2>1. \A i \in 1..c : h[i] \in Nat BY <1>7
  <2>2. \A i, j \in 1..c : i < j => h[i] < h[j] BY <1>4
  <2> QED BY <1>5, <1>6, <2>1, <2>2, Passes
<1>9. l \in Nat /\ l <= c /\ 1..l \subseteq 1..c /\ l + 1..c \subseteq 1..c BY <1>5
<1>10. \A i \in 1..l : h[i] \in 1..m
  <2> SUFFICES ASSUME NEW i \in 1..l PROVE h[i] \in 1..m OBVIOUS
  <2>1. h[i] \in 1..n /\ h[i] <= m BY <1>7, <1>8, <1>9
  <2> QED BY <1>1, <1>6, <2>1
<1>11. \A i \in l + 1..c : h[i] \in m + 1..n
  <2> SUFFICES ASSUME NEW i \in l + 1..c PROVE h[i] \in m + 1..n OBVIOUS
  <2>1. h[i] \in 1..n /\ h[i] > m BY <1>7, <1>8, <1>9
  <2> QED BY <1>1, <1>6, <2>1
<1> DEFINE f == [i \in 1..c |-> g[h[i]]]
<1>12. \A i \in 1..c : f[i] = g[h[i]] OBVIOUS
<1> HIDE DEF f
<1>13. \A i \in 1..c : H[g[h[i]]].path # p
  <2> SUFFICES ASSUME NEW i \in 1..c PROVE H[g[h[i]]].path # p OBVIOUS
  <2>1. h[i] \in 1..n /\ h[i] \in K BY <1>4, <1>7
  <2>2. R[h[i]].path # p BY <1>k, <2>1
  <2> QED BY <1>6, <2>1, <2>2
<1>14. \A k \in 1..n : H[g[k]].path # p => \E i \in 1..c : h[i] = k
  <2> SUFFICES ASSUME NEW k \in 1..n, H[g[k]].path # p
               PROVE  \E i \in 1..c : h[i] = k
    OBVIOUS
  <2>1. R[k].path # p BY <1>6
  <2>2. k \in K BY <1>k, <2>1
  <2> QED BY <1>4, <2>2
<1>15. \A i \in 1..m : i \in 1..n BY <1>1, <1>6
<1>16. \A i \in m + 1..n : i \in 1..n BY <1>1, <1>6
<1>17. \A k \in 1..m : g[k] \in Live2 => \E i \in 1..l : h[i] = k
  <2> SUFFICES ASSUME NEW k \in 1..m, g[k] \in Live2 PROVE \E i \in 1..l : h[i] = k
    OBVIOUS
  <2>1. k \in 1..n /\ H[g[k]].path # p BY <1>15
  <2>2. PICK i \in 1..c : h[i] = k BY <1>14, <2>1
  <2>3. ~(i \in l + 1..c)
    <3> SUFFICES ASSUME i \in l + 1..c PROVE FALSE OBVIOUS
    <3>1. h[i] > m BY <1>8
    <3> QED BY <1>6, <2>2, <3>1
  <2>4. i \in 1..l BY <1>5, <1>9, <2>3
  <2> QED BY <2>2, <2>4
<1>18. \A k \in m + 1..n : g[k] \in Ended2 => \E i \in l + 1..c : h[i] = k
  <2> SUFFICES ASSUME NEW k \in m + 1..n, g[k] \in Ended2
               PROVE  \E i \in l + 1..c : h[i] = k
    OBVIOUS
  <2>1. k \in 1..n /\ H[g[k]].path # p BY <1>16
  <2>2. PICK i \in 1..c : h[i] = k BY <1>14, <2>1
  <2>3. ~(i \in 1..l)
    <3> SUFFICES ASSUME i \in 1..l PROVE FALSE OBVIOUS
    <3>1. h[i] <= m BY <1>8
    <3> QED BY <1>1, <1>6, <2>2, <3>1
  <2>4. i \in l + 1..c BY <1>5, <1>9, <2>3
  <2> QED BY <2>2, <2>4
<1>19. \A i \in 1..l : /\ h[i] \in 1..m /\ f[i] = g[h[i]] /\ g[h[i]] \in Live2
  <2> SUFFICES ASSUME NEW i \in 1..l
               PROVE h[i] \in 1..m /\ f[i] = g[h[i]] /\ g[h[i]] \in Live2
    OBVIOUS
  <2>1. i \in 1..c /\ h[i] \in 1..m BY <1>9, <1>10
  <2>2. g[h[i]] \in Live BY <1>6, <2>1 DEF Falls
  <2>3. H[g[h[i]]].path # p BY <1>13, <2>1
  <2> QED BY <1>12, <2>1, <2>2, <2>3
<1>20. \A i \in l + 1..c : /\ h[i] \in m + 1..n /\ f[i] = g[h[i]]
                           /\ g[h[i]] \in Ended2
  <2> SUFFICES ASSUME NEW i \in l + 1..c
               PROVE h[i] \in m + 1..n /\ f[i] = g[h[i]] /\ g[h[i]] \in Ended2
    OBVIOUS
  <2>1. i \in 1..c /\ h[i] \in m + 1..n BY <1>9, <1>11
  <2>2. g[h[i]] \in Ended BY <1>6, <2>1 DEF Falls
  <2>3. H[g[h[i]]].path # p BY <1>13, <2>1
  <2> QED BY <1>12, <2>1, <2>2, <2>3
<1>21. /\ \A i, j \in 1..l : i < j => h[i] < h[j]
       /\ \A i, j \in l + 1..c : i < j => h[i] < h[j]
  BY <1>4, <1>9
<1>22. Live2 \subseteq Live /\ Ended2 \subseteq Ended OBVIOUS
<1>23. Falls(f, 1, l, Live2)
  <2>1. Selects(h, g, 1, m, f, 1, l, Live2) BY <1>17, <1>19, <1>21 DEF Selects
  <2> QED BY <1>6, <1>22, <2>1, FallsPick, Zenon
<1>24. Falls(f, l + 1, c, Ended2)
  <2>1. Selects(h, g, m + 1, n, f, l + 1, c, Ended2)
    BY <1>18, <1>20, <1>21 DEF Selects
  <2> QED BY <1>6, <1>22, <2>1, FallsPick, Zenon
<1>25. \A i \in 1..c : W[i].path = H[f[i]].path
  BY <1>4, <1>6, <1>7, <1>12
<1>26. \A i \in 1..l : W[i].status = "in-progress"
  BY <1>4, <1>6, <1>9, <1>10
<1>27. \A i \in l + 1..c : W[i].status = StatusAt(H, f[i])
  BY <1>4, <1>6, <1>9, <1>11, <1>12
<1>28. Shows(W, c, l, f, H, Live2, Ended2)
  BY <1>8, <1>23, <1>24, <1>25, <1>26, <1>27 DEF Shows
<1>29. Exactly(g, m, F) => Exactly(f, l, F2)
  <2> SUFFICES ASSUME \A k \in F : \E i \in 1..m : g[i] = k,
                      \A i \in 1..m : g[i] \in F
               PROVE  /\ \A i \in 1..l : f[i] \in F2
                      /\ \A k \in F2 : \E i \in 1..l : f[i] = k
    BY DEF Exactly, Complete
  <2>1. ASSUME NEW i \in 1..l PROVE f[i] \in F2
    <3>1. i \in 1..c /\ h[i] \in 1..m BY <1>9, <1>10
    <3>2. f[i] = g[h[i]] /\ g[h[i]] \in F /\ H[g[h[i]]].path # p
      BY <1>12, <1>13, <3>1
    <3> QED BY <3>2
  <2>2. ASSUME NEW k \in F2 PROVE \E i \in 1..l : f[i] = k
    <3>1. k \in F /\ k \in Live2 OBVIOUS
    <3>2. PICK j \in 1..m : g[j] = k BY <3>1
    <3>3. PICK i \in 1..l : h[i] = j BY <1>17, <3>1, <3>2
    <3> QED BY <1>9, <1>12, <3>2, <3>3
  <2> QED BY <2>1, <2>2
<1>31. \E a, b :
                  /\ Shows(W, c, a, b, H, Live2, Ended2)
                  /\ Exactly(g, m, F) => Exactly(b, a, F2)
  BY <1>28, <1>29, Zenon
<1> QED BY <1>31, Zenon DEF c, W

\* The cap takes the last ones away.
Cuts(C, m, g, H, Live, Ended) ==
    \E a : /\ Shows(C, Len(C), a, g, H, Live, Ended)
           /\ a = IF m <= maxRecentPaths THEN m ELSE maxRecentPaths

\* A list that is cut shows the same history.
LEMMA ShowsCap ==
    ASSUME NEW S, NEW R \in Seq(S), NEW m, NEW g, NEW H,
           NEW Live, NEW Ended, Live \subseteq Nat, Ended \subseteq Nat,
           Shows(R, Len(R), m, g, H, Live, Ended)
    PROVE  Cuts(capRecentPaths(R), m, g, H, Live, Ended)
<1> SUFFICES ASSUME NEW n, n = Len(R)
             PROVE \E a : /\ Shows(capRecentPaths(R), Len(capRecentPaths(R)), a, g, H,
                                    Live, Ended)
                          /\ a = IF m <= maxRecentPaths THEN m ELSE maxRecentPaths
  BY DEF Cuts
<1>s. Shows(R, n, m, g, H, Live, Ended) OBVIOUS
<1> DEFINE C == capRecentPaths(R)
           cap == maxRecentPaths
<1>1. n \in Nat /\ cap \in Nat BY maxRecentPathsAssumption
<1>2. /\ m \in 0..n /\ m \in Nat /\ m <= n
      /\ \A i \in 1..n : R[i].path = H[g[i]].path
      /\ \A i \in 1..m : R[i].status = "in-progress"
      /\ \A i \in m + 1..n : R[i].status = StatusAt(H, g[i])
      /\ Falls(g, 1, m, Live) /\ Falls(g, m + 1, n, Ended)
  BY <1>1, <1>s DEF Shows
<1>3. CASE ~(n > cap)
  <2>1. C = R BY <1>3 DEF capRecentPaths
  <2>2. Shows(C, Len(C), m, g, H, Live, Ended) BY <1>s, <2>1
  <2>3. m <= cap BY <1>1, <1>2, <1>3
  <2> QED BY <2>2, <2>3
<1>4. CASE n > cap
  <2>1. C = SubSeq(R, 1, cap) BY <1>4 DEF capRecentPaths
  <2>2. \A i \in 1..cap : i \in 1..n BY <1>1, <1>4
  <2>3. Len(C) = cap /\ \A i \in 1..cap : C[i] = R[i]
    <3> HIDE DEF C, cap
    <3>1. \A i \in 1..cap : R[i] \in S BY <2>2
    <3>2. Len(SubSeq(R, 1, cap)) = cap
      BY <1>1, <1>4
    <3>3. \A i \in 1..cap : SubSeq(R, 1, cap)[i] = R[i]
      BY <1>1, <1>4
    <3> QED BY <2>1, <3>2, <3>3
  <2> HIDE DEF C
  <2>4. \A i \in 1..cap : C[i].path = H[g[i]].path BY <1>2, <2>2, <2>3
  <2>5. CASE m <= cap
    <3>1. Falls(g, m + 1, cap, Ended)
      <4> DEFINE lo == m + 1
      <4>1. lo \in Nat /\ cap <= n /\ Falls(g, lo, n, Ended) BY <1>1, <1>2, <1>4
      <4> HIDE DEF lo, cap
      <4>2. Falls(g, lo, cap, Ended) BY <1>1, <4>1, FallsCut
      <4> QED BY <4>2 DEF lo
    <3>2. \A i \in 1..m : i \in 1..cap BY <1>1, <1>2, <2>5
    <3>3. \A i \in 1..m : C[i].status = "in-progress" BY <1>2, <2>3, <3>2
    <3>4. \A i \in m + 1..cap : i \in 1..cap /\ i \in m + 1..n
      BY <1>1, <1>2, <1>4
    <3>5. \A i \in m + 1..cap : C[i].status = StatusAt(H, g[i])
      BY <1>2, <2>3, <3>4
    <3>6. m \in 0..cap BY <1>1, <1>2, <2>5
    <3> HIDE DEF cap
    <3>7. Shows(C, cap, m, g, H, Live, Ended)
      BY <1>2, <2>4, <3>1, <3>3, <3>5, <3>6 DEF Shows
    <3> QED BY <2>3, <2>5, <3>7 DEF C, cap
  <2>6. CASE ~(m <= cap)
    <3>1. Falls(g, 1, cap, Live)
      <4> DEFINE one == 1
      <4>1. one \in Nat /\ cap <= m /\ Falls(g, one, m, Live) BY <1>1, <1>2, <2>6
      <4> HIDE DEF one, cap
      <4>2. Falls(g, one, cap, Live) BY <1>1, <1>2, <4>1, FallsCut
      <4> QED BY <4>2 DEF one
    <3>2. \A i \in cap + 1..cap : FALSE BY <1>1
    <3>3. Falls(g, cap + 1, cap, Ended) BY <3>2 DEF Falls
    <3>4. \A i \in 1..cap : i \in 1..m BY <1>1, <1>2, <2>6
    <3>5. \A i \in 1..cap : C[i].status = "in-progress" BY <1>2, <2>3, <3>4
    <3>6. \A i \in cap + 1..cap : C[i].status = StatusAt(H, g[i]) BY <3>2
    <3>7. cap \in 0..cap BY <1>1
    <3> HIDE DEF cap
    <3>8. Shows(C, cap, cap, g, H, Live, Ended)
      BY <2>4, <3>1, <3>3, <3>5, <3>6, <3>7 DEF Shows
    <3> QED BY <2>3, <2>6, <3>8 DEF C, cap
  <2> QED BY <2>5, <2>6
<1> QED BY <1>3, <1>4

\* The cap holds.
LEMMA CapList ==
    ASSUME NEW S, NEW R \in Seq(S)
    PROVE  /\ capRecentPaths(R) \in Seq(S)
           /\ Len(capRecentPaths(R)) <= maxRecentPaths
<1> DEFINE cap == maxRecentPaths
<1>1. Len(R) \in Nat /\ cap \in Nat BY maxRecentPathsAssumption
<1>2. CASE ~(Len(R) > cap)
  BY <1>1, <1>2 DEF capRecentPaths
<1>3. CASE Len(R) > cap
  <2>1. capRecentPaths(R) = SubSeq(R, 1, cap) BY <1>3 DEF capRecentPaths
  <2> HIDE DEF cap
  <2>2. SubSeq(R, 1, cap) \in Seq(S) /\ Len(SubSeq(R, 1, cap)) = cap
    BY <1>1, <1>3
  <2> QED BY <1>1, <2>1, <2>2 DEF cap
<1> QED BY <1>2, <1>3

\* The history of the positions shown is all that counts.
LEMMA ShowsLater ==
    ASSUME NEW R, NEW n \in Nat, NEW m, NEW g, NEW H, NEW J, NEW Live, NEW Ended,
           Shows(R, n, m, g, H, Live, Ended),
           \A k \in Live \cup Ended : J[k] = H[k]
    PROVE  Shows(R, n, m, g, J, Live, Ended)
<1>1. /\ m \in 0..n /\ m \in Nat /\ m <= n
      /\ \A i \in 1..n : R[i].path = H[g[i]].path
      /\ \A i \in 1..m : R[i].status = "in-progress"
      /\ \A i \in m + 1..n : R[i].status = StatusAt(H, g[i])
      /\ Falls(g, 1, m, Live) /\ Falls(g, m + 1, n, Ended)
  BY DEF Shows
<1>2. \A i \in 1..n : i \in 1..m \/ i \in m + 1..n BY <1>1
<1>3. (\A i \in 1..m : g[i] \in Live) /\ (\A i \in m + 1..n : g[i] \in Ended)
  BY <1>1 DEF Falls
<1>4. \A i \in 1..n : J[g[i]] = H[g[i]] BY <1>2, <1>3
<1>5. \A i \in m + 1..n : J[g[i]] = H[g[i]] BY <1>3
<1>6. \A i \in 1..n : R[i].path = J[g[i]].path BY <1>1, <1>4
<1>7. \A i \in m + 1..n : R[i].status = StatusAt(J, g[i])
  BY <1>1, <1>5 DEF StatusAt
<1> QED BY <1>1, <1>6, <1>7 DEF Shows

-----------------------------------------------------------------------------
(* The history that grows *)

Final == {"ok", "error", "cached"}

IsPath(e, outcomes) ==
    e.type = "entry" /\ e.kind = "path" /\ e.outcome \in outcomes

\* The positions of a history's paths, and those of them not settled later.
PathsIn(H, outcomes) == {i \in DOMAIN H : IsPath(H[i], outcomes)}

Open(H, A) ==
    {i \in A : ~ \E j \in PathsIn(H, Final) : j > i /\ H[j].path = H[i].path}

LiveIn(H) == Open(H, PathsIn(H, {"total"}))
EndedIn(H) == Open(H, PathsIn(H, Final))

\* One event more.
Longer(H, e, J) ==
    /\ Len(H) \in Nat /\ DOMAIN H = 1..Len(H) /\ DOMAIN J = 1..Len(H) + 1
    /\ Len(J) = Len(H) + 1
    /\ \A i \in 1..Len(H) : J[i] = H[i]
    /\ J[Len(H) + 1] = e

\* Append adds one event.
LEMMA AppendLonger ==
    ASSUME NEW S, NEW H \in Seq(S), NEW e \in S
    PROVE  Longer(H, e, Append(H, e))
  BY DEF Longer

\* The new position is one of a path if the event is.
LEMMA PathsInGrow ==
    ASSUME NEW H, NEW e, NEW J, Longer(H, e, J), NEW O
    PROVE  /\ IsPath(e, O) => PathsIn(J, O) = PathsIn(H, O) \cup {Len(H) + 1}
           /\ ~IsPath(e, O) => PathsIn(J, O) = PathsIn(H, O)
           /\ PathsIn(H, O) \subseteq 1..Len(H)
<1> DEFINE n == Len(H)
<1>1. /\ n \in Nat /\ DOMAIN H = 1..n /\ DOMAIN J = 1..n + 1
      /\ \A i \in 1..n : J[i] = H[i]
      /\ J[n + 1] = e
  BY DEF Longer
<1> HIDE DEF n
<1>2. \A i \in 1..n + 1 : i \in 1..n \/ i = n + 1 BY <1>1
<1>3. \A i \in 1..n : i \in 1..n + 1 BY <1>1
<1>4. n + 1 \in 1..n + 1 BY <1>1
<1>5. \A i : i \in PathsIn(J, O) <=> i \in 1..n + 1 /\ IsPath(J[i], O)
  BY <1>1 DEF PathsIn
<1>6. \A i : i \in PathsIn(H, O) <=> i \in 1..n /\ IsPath(H[i], O)
  BY <1>1 DEF PathsIn
<1>7. \A i : i \in PathsIn(H, O) => i \in PathsIn(J, O) BY <1>1, <1>3, <1>5, <1>6
<1>8. \A i : i \in PathsIn(J, O) => i \in PathsIn(H, O) \/ (i = n + 1 /\ IsPath(e, O))
  BY <1>1, <1>2, <1>5, <1>6
<1>9. IsPath(e, O) => n + 1 \in PathsIn(J, O) BY <1>1, <1>4, <1>5
<1>10. PathsIn(H, O) \subseteq 1..n BY <1>6
<1>11. IsPath(e, O) => PathsIn(J, O) = PathsIn(H, O) \cup {n + 1} BY <1>7, <1>8, <1>9
<1>12. ~IsPath(e, O) => PathsIn(J, O) = PathsIn(H, O) BY <1>7, <1>8
<1> QED BY <1>10, <1>11, <1>12 DEF n

\* A new event is not settled later, and it settles its own path alone.
Settling(H, e, J, A) ==
    /\ ~IsPath(e, Final) => Open(J, A) = Open(H, A)
    /\ IsPath(e, Final) => Open(J, A) = {k \in Open(H, A) : J[k].path # e.path}
    /\ Open(J, A \cup {Len(H) + 1}) = Open(J, A) \cup {Len(H) + 1}

\* Which positions are still open after one more event.
LEMMA OpenGrows ==
    ASSUME NEW H, NEW e, NEW J, Longer(H, e, J), NEW A, A \subseteq 1..Len(H)
    PROVE  Settling(H, e, J, A)
<1> DEFINE n == Len(H)
           P == PathsIn(H, Final)
           Q == PathsIn(J, Final)
           Later(X, D, i) == \E j \in D : j > i /\ X[j].path = X[i].path
<1>1. /\ n \in Nat /\ \A i \in 1..n : J[i] = H[i]
      /\ J[n + 1] = e
  BY DEF Longer
<1>2. /\ IsPath(e, Final) => Q = P \cup {n + 1}
      /\ ~IsPath(e, Final) => Q = P
      /\ P \subseteq 1..n
  BY PathsInGrow
<1>3. \A B : Open(J, B) = {i \in B : ~Later(J, Q, i)} BY DEF Open
<1>4. \A B : Open(H, B) = {i \in B : ~Later(H, P, i)} BY DEF Open
<1> HIDE DEF P, Q, n
<1>5. \A i \in 1..n : Later(J, P, i) <=> Later(H, P, i) BY <1>1, <1>2
<1>6. \A i \in 1..n : n + 1 > i BY <1>1
<1>7. IsPath(e, Final) =>
         \A i \in 1..n : Later(J, Q, i) <=> Later(J, P, i) \/ J[i].path = e.path
  BY <1>1, <1>2, <1>6
<1>8. ~Later(J, Q, n + 1)
  <2>1. \A j \in P \cup {n + 1} : ~(j > n + 1) BY <1>1, <1>2
  <2> QED BY <1>2, <2>1
<1> HIDE DEF Later
<1>a. A \subseteq 1..n BY DEF n
<1>9. ASSUME ~IsPath(e, Final) PROVE Open(J, A) = Open(H, A)
  <2>1. Open(J, A) = {i \in A : ~Later(J, P, i)} BY <1>2, <1>3, <1>9
  <2>2. Open(H, A) = {i \in A : ~Later(H, P, i)} BY <1>4
  <2>3. \A i \in A : Later(J, P, i) <=> Later(H, P, i) BY <1>5, <1>a
  <2> QED BY <2>1, <2>2, <2>3
<1>10. IsPath(e, Final) => Open(J, A) = {k \in Open(H, A) : J[k].path # e.path}
  BY <1>3, <1>4, <1>5, <1>7, <1>a
<1>11. Open(J, A \cup {n + 1}) = Open(J, A) \cup {n + 1}
  BY <1>3, <1>8
<1> QED BY <1>9, <1>10, <1>11 DEF n, Settling

\* What the three kinds of events do to the open ones.
LEMMA LiveGrows ==
    ASSUME NEW H, NEW e, NEW J, Longer(H, e, J)
    PROVE  /\ IsPath(e, {"total"}) =>
                 /\ LiveIn(J) = LiveIn(H) \cup {Len(H) + 1} /\ EndedIn(J) = EndedIn(H)
                 /\ PathsIn(J, {"total"}) = PathsIn(H, {"total"}) \cup {Len(H) + 1}
           /\ IsPath(e, Final) =>
                 /\ LiveIn(J) = {k \in LiveIn(H) : J[k].path # e.path}
                 /\ EndedIn(J) = {k \in EndedIn(H) : J[k].path # e.path}
                                     \cup {Len(H) + 1}
                 /\ PathsIn(J, {"total"}) = PathsIn(H, {"total"})
           /\ ~IsPath(e, {"total"}) /\ ~IsPath(e, Final) =>
                 /\ LiveIn(J) = LiveIn(H) /\ EndedIn(J) = EndedIn(H)
                 /\ PathsIn(J, {"total"}) = PathsIn(H, {"total"})
           /\ LiveIn(H) \subseteq PathsIn(H, {"total"})
           /\ LiveIn(H) \subseteq 1..Len(H) /\ EndedIn(H) \subseteq 1..Len(H)
           /\ PathsIn(H, {"total"}) \subseteq 1..Len(H)
<1> DEFINE n == Len(H)
           T == {"total"}
           A == PathsIn(H, T)
           B == PathsIn(H, Final)
<1>1. ~(IsPath(e, T) /\ IsPath(e, Final)) BY DEF IsPath, Final
<1> HIDE DEF T
<1>2. /\ IsPath(e, T) => PathsIn(J, T) = A \cup {n + 1}
      /\ ~IsPath(e, T) => PathsIn(J, T) = A
      /\ A \subseteq 1..n
  BY PathsInGrow
<1>3. /\ IsPath(e, Final) => PathsIn(J, Final) = B \cup {n + 1}
      /\ ~IsPath(e, Final) => PathsIn(J, Final) = B
      /\ B \subseteq 1..n
  BY PathsInGrow
<1> HIDE DEF A, B
<1>4. /\ ~IsPath(e, Final) => Open(J, A) = Open(H, A)
      /\ IsPath(e, Final) => Open(J, A) = {k \in Open(H, A) : J[k].path # e.path}
      /\ Open(J, A \cup {n + 1}) = Open(J, A) \cup {n + 1}
  <2>1. A \subseteq 1..Len(H) BY <1>2
  <2>2. Settling(H, e, J, A) BY <2>1, OpenGrows
  <2> QED BY <2>2 DEF Settling
<1>5. /\ ~IsPath(e, Final) => Open(J, B) = Open(H, B)
      /\ IsPath(e, Final) => Open(J, B) = {k \in Open(H, B) : J[k].path # e.path}
      /\ Open(J, B \cup {n + 1}) = Open(J, B) \cup {n + 1}
  <2>1. B \subseteq 1..Len(H) BY <1>3
  <2>2. Settling(H, e, J, B) BY <2>1, OpenGrows
  <2> QED BY <2>2 DEF Settling
<1>6. LiveIn(H) = Open(H, A) /\ EndedIn(H) = Open(H, B)
  BY DEF LiveIn, EndedIn, A, B, T
<1>7. LiveIn(J) = Open(J, PathsIn(J, T)) /\ EndedIn(J) = Open(J, PathsIn(J, Final))
  BY DEF LiveIn, EndedIn, T
<1>8. Open(H, A) \subseteq A /\ Open(H, B) \subseteq B BY DEF Open
<1> HIDE DEF n
<1>9. ASSUME IsPath(e, T)
      PROVE  /\ LiveIn(J) = LiveIn(H) \cup {n + 1} /\ EndedIn(J) = EndedIn(H)
             /\ PathsIn(J, T) = A \cup {n + 1}
  BY <1>1, <1>2, <1>3, <1>4, <1>5, <1>6, <1>7, <1>9
<1>10. ASSUME IsPath(e, Final)
       PROVE  /\ LiveIn(J) = {k \in LiveIn(H) : J[k].path # e.path}
              /\ EndedIn(J) = {k \in EndedIn(H) : J[k].path # e.path} \cup {n + 1}
              /\ PathsIn(J, T) = A
  BY <1>1, <1>2, <1>3, <1>4, <1>5, <1>6, <1>7, <1>10
<1>11. ASSUME ~IsPath(e, T), ~IsPath(e, Final)
       PROVE  /\ LiveIn(J) = LiveIn(H) /\ EndedIn(J) = EndedIn(H)
              /\ PathsIn(J, T) = A
  BY <1>2, <1>3, <1>4, <1>5, <1>6, <1>7, <1>11
<1>12. LiveIn(H) \subseteq A /\ LiveIn(H) \subseteq 1..n /\ EndedIn(H) \subseteq 1..n
  BY <1>2, <1>3, <1>6, <1>8
<1>13. A = PathsIn(H, {"total"}) /\ T = {"total"} /\ n = Len(H) BY DEF A, T, n
<1> QED BY <1>2, <1>9, <1>10, <1>11, <1>12, <1>13

\* The starts that had not settled after k events.
LiveUpTo(H, k) ==
    {i \in PathsIn(H, {"total"}) :
        /\ i <= k
        /\ ~\E j \in PathsIn(H, Final) : i < j /\ j <= k /\ H[j].path = H[i].path}

Room(S, i) == Cardinality(FromOn(S, i)) <= maxRecentPaths

\* The live ones for which there has been room since they started.
FittedIn(H) ==
    {i \in LiveIn(H) : \A k \in i..Len(H) : Room(LiveUpTo(H, k), i)}

\* After all events the live ones are those of the history.
LEMMA LiveAtEnd ==
    ASSUME NEW H, Len(H) \in Nat, DOMAIN H = 1..Len(H)
    PROVE  LiveUpTo(H, Len(H)) = LiveIn(H)
<1>1. \A O : PathsIn(H, O) \subseteq 1..Len(H) BY DEF PathsIn
<1>2. \A i \in 1..Len(H) : i <= Len(H) OBVIOUS
<1>3. \A i, j \in 1..Len(H) : j > i <=> i < j /\ j <= Len(H) OBVIOUS
<1>4. ASSUME NEW i \in PathsIn(H, {"total"})
      PROVE  i \in LiveUpTo(H, Len(H)) <=> i \in LiveIn(H)
  <2>1. i \in 1..Len(H) /\ i <= Len(H) BY <1>1, <1>2
  <2>2. \A j \in PathsIn(H, Final) : j > i <=> i < j /\ j <= Len(H)
    BY <1>1, <1>3, <2>1
  <2> QED BY <2>1, <2>2 DEF LiveUpTo, LiveIn, Open
<1> QED BY <1>4 DEF LiveUpTo, LiveIn, Open

\* What was live earlier stays what it was.
LEMMA LiveBefore ==
    ASSUME NEW H, NEW e, NEW J, Longer(H, e, J), NEW k \in 1..Len(H)
    PROVE  LiveUpTo(J, k) = LiveUpTo(H, k)
<1> DEFINE n == Len(H)
<1>1. /\ n \in Nat /\ DOMAIN H = 1..n /\ DOMAIN J = 1..n + 1
      /\ \A i \in 1..n : J[i] = H[i]
  BY DEF Longer
<1> HIDE DEF n
<1>2. k \in 1..n BY DEF n
<1>3. ASSUME NEW O, NEW i
      PROVE  i \in PathsIn(J, O) /\ i <= k <=> i \in PathsIn(H, O) /\ i <= k
  <2>1. i \in 1..n + 1 /\ i <= k => i \in 1..n BY <1>1, <1>2
  <2>2. i \in 1..n => i \in 1..n + 1 /\ J[i] = H[i] BY <1>1
  <2> QED BY <1>1, <2>1, <2>2 DEF PathsIn
<1>4. \A O, i : i \in PathsIn(H, O) => J[i] = H[i] BY <1>1 DEF PathsIn
<1>5. ASSUME NEW i PROVE i \in LiveUpTo(J, k) <=> i \in LiveUpTo(H, k)
  <2> DEFINE T == {"total"}
  <2>1. i \in LiveUpTo(J, k) <=>
           /\ i \in PathsIn(J, T) /\ i <= k
           /\ ~\E j : /\ j \in PathsIn(J, Final) /\ j <= k
                      /\ i < j /\ J[j].path = J[i].path
    BY DEF LiveUpTo
  <2>2. i \in LiveUpTo(H, k) <=>
           /\ i \in PathsIn(H, T) /\ i <= k
           /\ ~\E j : /\ j \in PathsIn(H, Final) /\ j <= k
                      /\ i < j /\ H[j].path = H[i].path
    BY DEF LiveUpTo
  <2> HIDE DEF T
  <2>3. \A j : j \in PathsIn(J, Final) /\ j <= k <=>
                   j \in PathsIn(H, Final) /\ j <= k
    BY <1>3
  <2>4. i \in PathsIn(J, T) /\ i <= k <=> i \in PathsIn(H, T) /\ i <= k BY <1>3
  <2> QED BY <1>4, <2>1, <2>2, <2>3, <2>4
<1> QED BY <1>5

\* One event later, those still fit that did before and do now.
Fitting(H, J) ==
    \A i : i \in FittedIn(J) <=>
               /\ i \in LiveIn(J) /\ Room(LiveIn(J), i)
               /\ (i \in FittedIn(H) \/ i = Len(H) + 1)

\* Which live ones fit after one more event.
LEMMA FittedGrows ==
    ASSUME NEW H, NEW e, NEW J, Longer(H, e, J)
    PROVE  /\ Fitting(H, J)
           /\ FittedIn(H) \subseteq LiveIn(H)
           /\ \A i \in FittedIn(H) : Room(LiveIn(H), i)
<1> DEFINE n == Len(H)
<1>1. /\ n \in Nat /\ DOMAIN H = 1..n /\ DOMAIN J = 1..n + 1 /\ Len(J) = n + 1
  BY DEF Longer
<1>2. /\ LiveIn(H) \subseteq 1..n
      /\ LiveIn(J) \subseteq LiveIn(H) \cup {n + 1}
  <2>1. \/ IsPath(e, {"total"}) \/ IsPath(e, Final)
        \/ ~IsPath(e, {"total"}) /\ ~IsPath(e, Final)
    OBVIOUS
  <2> QED BY <2>1, LiveGrows
<1>3. LiveUpTo(H, n) = LiveIn(H) BY <1>1, LiveAtEnd
<1>4. LiveUpTo(J, n + 1) = LiveIn(J)
  <2>1. n + 1 \in Nat BY <1>1
  <2> QED BY <1>1, <2>1, LiveAtEnd
<1>5. \A k \in 1..n : LiveUpTo(J, k) = LiveUpTo(H, k) BY LiveBefore
<1>6. FittedIn(H) \subseteq LiveIn(H) BY DEF FittedIn
<1>7. ASSUME NEW i \in FittedIn(H) PROVE Room(LiveIn(H), i)
  <2>1. i \in 1..n BY <1>2, <1>6
  <2>2. n \in i..n BY <1>1, <2>1
  <2> QED BY <1>3, <2>2 DEF FittedIn
<1>8. ASSUME NEW i \in LiveIn(J)
      PROVE  i \in FittedIn(J) <=> /\ Room(LiveIn(J), i)
                                  /\ (i \in FittedIn(H) \/ i = n + 1)
  <2>1. i \in FittedIn(J) <=> \A k \in i..n + 1 : Room(LiveUpTo(J, k), i)
    BY <1>1 DEF FittedIn
  <2> HIDE DEF n
  <2>2. CASE i = n + 1
    <3>1. \A k : k \in i..n + 1 <=> k = n + 1 BY <1>1, <2>2
    <3> QED BY <1>4, <2>1, <2>2, <3>1
  <2>3. CASE i # n + 1
    <3>1. i \in LiveIn(H) /\ i \in 1..n BY <1>2, <2>3
    <3>2. \A k : k \in i..n + 1 <=> k \in i..n \/ k = n + 1 BY <1>1, <3>1
    <3>3. \A k \in i..n : k \in 1..n BY <1>1, <3>1
    <3>4. i \in FittedIn(H) <=> \A k \in i..n : Room(LiveUpTo(H, k), i)
      BY <3>1 DEF FittedIn, n
    <3>5. \A k \in i..n : LiveUpTo(J, k) = LiveUpTo(H, k) BY <1>5, <3>3
    <3> QED BY <1>4, <2>1, <2>3, <3>2, <3>4, <3>5
  <2> QED BY <2>2, <2>3
<1>9. \A i : i \in FittedIn(J) => i \in LiveIn(J) BY DEF FittedIn
<1>10. Fitting(H, J) BY <1>8, <1>9 DEF Fitting
<1> QED BY <1>6, <1>7, <1>10

\* There is room for one if there is among more.
LEMMA RoomAmongFewer ==
    ASSUME NEW n \in Nat, NEW S, S \subseteq 1..n, NEW T, T \subseteq S, NEW i,
           Room(S, i)
    PROVE  Room(T, i)
<1>1. IsFiniteSet(1..n) BY FS_Interval
<1>2. FromOn(S, i) \in SUBSET (1..n) /\ FromOn(T, i) \in SUBSET FromOn(S, i)
  BY DEF FromOn
<1>3. IsFiniteSet(FromOn(S, i)) BY <1>1, <1>2, FS_Subset
<1>4. /\ IsFiniteSet(FromOn(T, i))
      /\ Cardinality(FromOn(T, i)) <= Cardinality(FromOn(S, i))
  BY <1>2, <1>3, FS_Subset
<1>5. Cardinality(FromOn(S, i)) \in Nat /\ Cardinality(FromOn(T, i)) \in Nat
  BY <1>3, <1>4, FS_CardinalityType
<1>6. maxRecentPaths \in Nat BY maxRecentPathsAssumption
<1> QED BY <1>4, <1>5, <1>6 DEF Room

-----------------------------------------------------------------------------
(* RecentPaths is what the history shows *)

Entries == {[path |-> e.path, status |-> s] :
               e \in Events, s \in {"in-progress", "ok", "error"}}

Begun == {"total"}

\* The live ones shown are those for which there has been room.
Shown(R, H, m, g) ==
    /\ Shows(R, Len(R), m, g, H, LiveIn(H), EndedIn(H))
    /\ Exactly(g, m, FittedIn(H))

PathsInv(R, H) ==
    /\ R \in Seq(Entries) /\ Len(R) <= maxRecentPaths
    /\ \E m, g : Shown(R, H, m, g)

\* Another event leaves the list and what it shows alone.
LEMMA OtherStep ==
    ASSUME NEW H, NEW e, NEW J, Longer(H, e, J), NEW R, PathsInv(R, H),
           ~IsPath(e, Begun), ~IsPath(e, Final)
    PROVE  PathsInv(R, J)
<1>1. PICK m, g : Shown(R, H, m, g) BY DEF PathsInv
<1>2. R \in Seq(Entries) /\ Len(R) \in Nat /\ Len(R) <= maxRecentPaths
  BY DEF PathsInv
<1>3. /\ LiveIn(J) = LiveIn(H) /\ EndedIn(J) = EndedIn(H)
      /\ PathsIn(J, Begun) = PathsIn(H, Begun)
      /\ LiveIn(H) \subseteq 1..Len(H) /\ EndedIn(H) \subseteq 1..Len(H)
  BY LiveGrows DEF Begun
<1>4. \A i \in LiveIn(H) \cup EndedIn(H) : J[i] = H[i] BY <1>3 DEF Longer
<1>5. Shows(R, Len(R), m, g, H, LiveIn(H), EndedIn(H)) BY <1>1 DEF Shown
<1>6. Shows(R, Len(R), m, g, J, LiveIn(H), EndedIn(H))
  BY <1>2, <1>4, <1>5, ShowsLater
<1>7. FittedIn(J) = FittedIn(H)
  <2>1. /\ Fitting(H, J) /\ FittedIn(H) \subseteq LiveIn(H)
        /\ \A i \in FittedIn(H) : Room(LiveIn(H), i)
    BY FittedGrows
  <2>2. Len(H) + 1 \notin LiveIn(H) BY <1>3 DEF Longer
  <2>3. \A i : i \in FittedIn(J) <=> i \in FittedIn(H)
    BY <1>3, <2>1, <2>2 DEF Fitting
  <2> QED BY <2>3
<1>8. Shown(R, J, m, g) BY <1>1, <1>3, <1>6, <1>7 DEF Shown
<1> QED BY <1>2, <1>8 DEF PathsInv

\* A path that starts.
LEMMA StartStep ==
    ASSUME NEW H, NEW e \in Events, NEW J, Longer(H, e, J), NEW R, PathsInv(R, H),
           IsPath(e, Begun)
    PROVE  PathsInv(startRecentPath(R, e.path), J)
<1> DEFINE n == Len(R)
           new == Len(H) + 1
           L == LiveIn(H)
           E == EndedIn(H)
           T == PathsIn(H, Begun)
           x == [path |-> e.path, status |-> "in-progress"]
           Q == Join(<<x>>, InProgress(R), Settled(R))
           C == capRecentPaths(Q)
<1>1. PICK m, g : Shown(R, H, m, g) BY DEF PathsInv
<1>2. R \in Seq(Entries) /\ n \in Nat BY DEF PathsInv
<1>3. /\ LiveIn(J) = L \cup {new} /\ EndedIn(J) = E
      /\ PathsIn(J, Begun) = T \cup {new}
      /\ L \subseteq T /\ T \subseteq 1..Len(H)
      /\ L \subseteq 1..Len(H) /\ E \subseteq 1..Len(H)
  BY LiveGrows DEF Begun
<1>4. /\ Len(H) \in Nat /\ new \in Nat /\ J[new] = e
      /\ \A i \in 1..Len(H) : J[i] = H[i]
  BY DEF Longer
<1>5. \A i \in L \cup E : J[i] = H[i] BY <1>3, <1>4
<1>6. Shows(R, n, m, g, H, L, E) BY <1>1 DEF Shown
<1>7. C = startRecentPath(R, e.path) BY DEF startRecentPath, Join
<1>8. x \in Entries /\ x.path = e.path /\ x.status = "in-progress" BY DEF Entries
<1> HIDE DEF n, new, L, E, T, x
<1>9. Shows(R, n, m, g, J, L, E) BY <1>2, <1>5, <1>6, ShowsLater
<1>10. L \subseteq Nat /\ E \subseteq Nat /\ \A k \in L : k < new
  BY <1>3, <1>4 DEF new
<1>11. x.path = J[new].path BY <1>4, <1>8
<1>12. /\ Q \in Seq(Entries) /\ Len(Q) = n + 1
       /\ \E f : /\ Shows(Q, n + 1, m + 1, f, J, L \cup {new}, E)
                 /\ f[1] = new /\ \A i \in 1..n : f[i + 1] = g[i]
  <2>1. Shows(R, Len(R), m, g, J, L, E) BY <1>9 DEF n
  <2>2. Started(Q, Len(R), m, g, J, L, E, new, Entries)
    BY <1>2, <1>4, <1>8, <1>10, <1>11, <2>1, ShowsStart
  <2> QED BY <2>2 DEF Started, n
<1> HIDE DEF Q
<1>13. PICK f : /\ Shows(Q, n + 1, m + 1, f, J, L \cup {new}, E)
                /\ f[1] = new /\ \A i \in 1..n : f[i + 1] = g[i]
  BY <1>12
<1>14. Q \in Seq(Entries) /\ n + 1 = Len(Q) BY <1>12
<1>15. L \cup {new} \subseteq Nat BY <1>4, <1>10
<1>16. PICK a : /\ Shows(C, Len(C), a, f, J, L \cup {new}, E)
                /\ a = IF m + 1 <= maxRecentPaths THEN m + 1 ELSE maxRecentPaths
  <2>1. Shows(Q, Len(Q), m + 1, f, J, L \cup {new}, E) BY <1>13, <1>14
  <2>2. Cuts(C, m + 1, f, J, L \cup {new}, E)
    BY <1>10, <1>14, <1>15, <2>1, ShowsCap
  <2> QED BY <2>2 DEF Cuts
<1>17. C \in Seq(Entries) /\ Len(C) <= maxRecentPaths BY <1>14, CapList
<1>18. m \in Nat /\ m <= n /\ Falls(g, 1, m, L) BY <1>2, <1>9 DEF Shows
<1>19. /\ a \in Nat /\ a <= m + 1 /\ 1 <= a
       /\ \A i \in 1..m + 1 : i <= maxRecentPaths <=> i \in 1..a
  <2>1. maxRecentPaths \in Nat /\ 1 <= maxRecentPaths BY maxRecentPathsAssumption
  <2> QED BY <1>16, <1>18, <2>1
<1>20. Exactly(f, a, FittedIn(J))
  <2> DEFINE N == L \cup {new}
  <2>1. /\ Fitting(H, J) /\ Exactly(g, m, FittedIn(H)) /\ LiveIn(J) = N
    BY <1>1, <1>3, FittedGrows DEF Shown
  <2>2. \A i : i \in FittedIn(J) <=> i \in N /\ Room(N, i)
                                    /\ (i \in FittedIn(H) \/ i = new)
    BY <2>1 DEF Fitting, new
  <2>3. IsFiniteSet(N) /\ N \subseteq Nat
    <3>1. IsFiniteSet(1..Len(H)) BY <1>4, FS_Interval
    <3>2. L \in SUBSET (1..Len(H)) BY <1>3
    <3>3. IsFiniteSet(L) BY <3>1, <3>2, FS_Subset
    <3> QED BY <1>15, <3>3, FS_AddElement
  <2>4. Falls(f, 1, m + 1, N) BY <1>13 DEF Shows
  <2> HIDE DEF N
  <2>5. \A i \in 1..m + 1 : f[i] \in N /\ (Room(N, f[i]) <=> i \in 1..a)
    <3> SUFFICES ASSUME NEW i \in 1..m + 1
                 PROVE  f[i] \in N /\ (Room(N, f[i]) <=> i \in 1..a)
      OBVIOUS
    <3>1. m + 1 \in Nat BY <1>18
    <3>2. Cardinality(FromOn(N, f[i])) = i BY <2>3, <2>4, <3>1, FallAbove
    <3>3. f[i] \in N BY <2>4 DEF Falls
    <3> QED BY <1>19, <3>2, <3>3 DEF Room
  <2>6. \A i \in 1..a : i \in 1..m + 1 BY <1>18, <1>19
  <2>7. \A i \in 1..m + 1 : f[i] \in FittedIn(H) \/ f[i] = new
    <3> SUFFICES ASSUME NEW i \in 1..m + 1, i # 1 PROVE f[i] \in FittedIn(H)
      BY <1>13
    <3> DEFINE j == i - 1
    <3>1. j \in 1..m /\ j \in 1..n /\ j + 1 = i BY <1>2, <1>18
    <3> HIDE DEF j
    <3>2. f[i] = g[j] BY <1>13, <3>1
    <3> QED BY <2>1, <3>1, <3>2 DEF Exactly
  <2>8. ASSUME NEW i \in 1..a PROVE f[i] \in FittedIn(J) BY <2>2, <2>5, <2>6, <2>7
  <2>9. ASSUME NEW k \in FittedIn(J) PROVE \E i \in 1..a : f[i] = k
    <3>1. \E i \in 1..m + 1 : f[i] = k
      <4>1. CASE k = new
        <5>1. 1 \in 1..m + 1 BY <1>18
        <5> QED BY <1>13, <4>1, <5>1
      <4>2. CASE k # new
        <5>1. k \in FittedIn(H) BY <2>2, <4>2
        <5>2. PICK i \in 1..m : g[i] = k BY <2>1, <5>1 DEF Exactly, Complete
        <5>3. i \in 1..n /\ i + 1 \in 1..m + 1 BY <1>2, <1>18
        <5> QED BY <1>13, <5>2, <5>3
      <4> QED BY <4>1, <4>2
    <3>2. PICK i \in 1..m + 1 : f[i] = k BY <3>1
    <3>3. Room(N, f[i]) BY <2>2, <3>2
    <3> QED BY <2>5, <3>2, <3>3
  <2> QED BY <2>8, <2>9 DEF Exactly, Complete
<1>21. Shown(C, J, a, f) BY <1>3, <1>16, <1>20 DEF Shown
<1>22. PathsInv(C, J) BY <1>17, <1>21 DEF PathsInv
<1> QED BY <1>7, <1>22

\* A path that settles.
LEMMA SettleStep ==
    ASSUME NEW H, NEW e \in Events, NEW J, Longer(H, e, J), NEW R, PathsInv(R, H),
           IsPath(e, Final), NEW st, st = IF e.outcome = "error" THEN "error" ELSE "ok"
    PROVE  PathsInv(settleRecentPath(R, e.path, st), J)
<1> DEFINE n == Len(R)
           new == Len(H) + 1
           L == LiveIn(H)
           E == EndedIn(H)
           L2 == {k \in L : J[k].path # e.path}
           E2 == {k \in E : J[k].path # e.path}
           F == FittedIn(H)
           F2 == {k \in F : J[k].path # e.path}
           x == [path |-> e.path, status |-> st]
           W == Without(R, e.path)
           Q == Join(InProgress(W), <<x>>, Settled(W))
           C == capRecentPaths(Q)
<1>1. PICK m, g : Shown(R, H, m, g) BY DEF PathsInv
<1>2. R \in Seq(Entries) /\ n \in Nat BY DEF PathsInv
<1>3. /\ LiveIn(J) = L2 /\ EndedIn(J) = E2 \cup {new}
      /\ L \subseteq 1..Len(H) /\ E \subseteq 1..Len(H)
  BY LiveGrows DEF Begun
<1>4. /\ Len(H) \in Nat /\ new \in Nat /\ J[new] = e
      /\ \A i \in 1..Len(H) : J[i] = H[i]
  BY DEF Longer
<1>5. \A i \in L \cup E : J[i] = H[i] BY <1>3, <1>4
<1>6. Shows(R, n, m, g, H, L, E) BY <1>1 DEF Shown
<1>7. C = settleRecentPath(R, e.path, st) BY DEF settleRecentPath, Join
<1>8. x \in Entries /\ x.path = e.path /\ x.status = st BY DEF Entries
<1> HIDE DEF n, new, L, E, F, x
<1>9. Shows(R, n, m, g, J, L, E) BY <1>2, <1>5, <1>6, ShowsLater
<1>10. /\ L2 \subseteq L /\ L2 \subseteq Nat /\ E2 \subseteq Nat
       /\ \A k \in E2 : k < new
  <2>1. \A k \in 1..Len(H) : k \in Nat /\ k < new BY <1>4 DEF new
  <2>2. L2 \subseteq L /\ E2 \subseteq E OBVIOUS
  <2> HIDE DEF L2, E2
  <2> QED BY <1>3, <2>1, <2>2
<1>11. x.path = J[new].path /\ x.status = StatusAt(J, new)
  BY <1>4, <1>8 DEF StatusAt
<1>12. W \in Seq(Entries) /\ Len(W) \in Nat BY <1>2, WithoutList
<1>13. \E a, b : /\ Shows(W, Len(W), a, b, J, L2, E2)
                 /\ Exactly(g, m, F) => Exactly(b, a, F2)
  <2>1. Shows(R, Len(R), m, g, J, L, E) BY <1>9 DEF n
  <2>2. F \subseteq L BY FittedGrows DEF L, F
  <2> HIDE DEF F
  <2>3. Leaves(W, e.path, m, g, J, L, E, F) BY <1>2, <2>1, <2>2, ShowsWithout
  <2> QED BY <2>3, Zenon DEF Leaves, Rest
<1>f. FittedIn(J) = F2
  <2>1. /\ Fitting(H, J) /\ F \subseteq L /\ \A i \in F : Room(L, i)
    BY FittedGrows DEF F, L
  <2>2. LiveIn(J) = L2 /\ L2 \subseteq L /\ L \subseteq 1..Len(H)
    BY <1>3, <1>10
  <2>3. new \notin L2 BY <1>4, <2>2 DEF new
  <2>4. \A i \in F : Room(L2, i) BY <1>4, <2>1, <2>2, RoomAmongFewer
  <2>5. \A i : i \in F2 <=> i \in F /\ i \in L2 BY <2>1
  <2> HIDE DEF L2, F2, F
  <2>6. \A i : i \in FittedIn(J) <=> i \in L2 /\ Room(L2, i)
                                    /\ (i \in F \/ i = new)
    BY <2>1, <2>2 DEF Fitting, F, new
  <2>7. \A i : i \in FittedIn(J) <=> i \in F2 BY <2>3, <2>4, <2>5, <2>6
  <2> QED BY <2>7
<1> HIDE DEF W, L2, E2, F2
<1>14. PICK l, h : /\ Shows(W, Len(W), l, h, J, L2, E2)
                   /\ Exactly(g, m, F) => Exactly(h, l, F2)
  BY <1>13, Zenon
<1>15. /\ Q \in Seq(Entries) /\ Len(Q) = Len(W) + 1
       /\ \E f : /\ Shows(Q, Len(W) + 1, l, f, J, L2, E2 \cup {new})
                 /\ \A i \in 1..l : f[i] = h[i]
  <2>1. Shows(W, Len(W), l, h, J, L2, E2) BY <1>14
  <2>2. Ends(Q, Len(W), l, h, J, L2, E2, new, Entries)
    BY <1>4, <1>8, <1>10, <1>11, <1>12, <2>1, ShowsSettle
  <2> QED BY <2>2 DEF Ends
<1> HIDE DEF Q
<1>16. PICK f : /\ Shows(Q, Len(W) + 1, l, f, J, L2, E2 \cup {new})
                /\ \A i \in 1..l : f[i] = h[i]
  BY <1>15
<1>17. Q \in Seq(Entries) /\ Len(W) + 1 = Len(Q) BY <1>15
<1>18. E2 \cup {new} \subseteq Nat BY <1>4, <1>10
<1>19. PICK a : /\ Shows(C, Len(C), a, f, J, L2, E2 \cup {new})
                /\ a = IF l <= maxRecentPaths THEN l ELSE maxRecentPaths
  <2>1. Shows(Q, Len(Q), l, f, J, L2, E2 \cup {new}) BY <1>16, <1>17
  <2>2. Cuts(C, l, f, J, L2, E2 \cup {new})
    BY <1>10, <1>17, <1>18, <2>1, ShowsCap
  <2> QED BY <2>2 DEF Cuts
<1>20. C \in Seq(Entries) /\ Len(C) <= maxRecentPaths BY <1>17, CapList
<1>21. a = l
  <2>1. l \in 0..Len(W) BY <1>14 DEF Shows
  <2>2. Len(W) <= n /\ n <= maxRecentPaths BY <1>2, WithoutList DEF W, PathsInv, n
  <2>3. maxRecentPaths \in Nat BY maxRecentPathsAssumption
  <2>4. l <= maxRecentPaths BY <1>2, <1>12, <2>1, <2>2, <2>3
  <2> QED BY <1>19, <2>4
<1>23. Exactly(f, a, FittedIn(J))
  <2>1. Exactly(g, m, F) BY <1>1 DEF Shown, F
  <2>2. Exactly(h, l, F2) BY <1>14, <2>1
  <2> QED BY <1>16, <1>21, <1>f, <2>2 DEF Exactly, Complete
<1>24. Shown(C, J, a, f) BY <1>3, <1>19, <1>23 DEF Shown
<1>25. PathsInv(C, J) BY <1>20, <1>24 DEF PathsInv
<1> QED BY <1>7, <1>25

\* updateState changes the recent paths for an entry that is a path only.
LEMMA UpdatePaths ==
    ASSUME NEW s, NEW e \in Events, Shaped(s)
    PROVE  updateState(s, e).recentPaths =
               IF e.type = "entry" THEN recentPaths(s.recentPaths, e)
                                   ELSE s.recentPaths
<1> DEFINE t == [s EXCEPT !.phase = PhaseAfter(s, e)]
           u == updateState(s, e)
<1>1. t = [f \in Parts |-> t[f]] /\ t.recentPaths = s.recentPaths
  BY DEF Shaped, Parts
<1> HIDE DEF t
<1>2. CASE e.type = "entry"
  <2>1. u = [t EXCEPT !.count[e.kind] = countEntry(@, e),
                      !.recentPaths = recentPaths(@, e)]
    BY <1>2 DEF updateState, t
  <2> QED BY <1>1, <1>2, <2>1 DEF Parts
<1>3. CASE e.type # "entry"
  <2>1. \/ u = [t EXCEPT !.io = ioAfter(@, e)]
        \/ u = [t EXCEPT !.summary = [exists |-> TRUE, files |-> e.files,
                                      size |-> e.size]]
        \/ u = [t EXCEPT !.snapshotID = e.snapshot]
        \/ u = [t EXCEPT !.result = [size |-> e.size, errors |-> e.errors]]
        \/ u = t
    BY <1>3 DEF updateState, t
  <2> QED BY <1>1, <1>3, <2>1 DEF Parts
<1> QED BY <1>2, <1>3

\* The event at hand keeps the recent paths those of the history.
LEMMA PathsFold ==
    ASSUME NEW H \in Seq(Events), NEW e \in Events, NEW s, Shaped(s),
           PathsInv(s.recentPaths, H)
    PROVE  PathsInv(updateState(s, e).recentPaths, Append(H, e))
<1> DEFINE J == Append(H, e)
           R == s.recentPaths
           Q == updateState(s, e).recentPaths
<1>1. Longer(H, e, J) BY AppendLonger
<1>2. Q = IF e.type = "entry" THEN recentPaths(R, e) ELSE R BY UpdatePaths
<1>3. e.type = "entry" => e.outcome \in Outcomes BY EventsAssumption
<1>4. PathsInv(R, H) OBVIOUS
<1> HIDE DEF J, R, Q
<1>5. CASE IsPath(e, Begun)
  <2>1. recentPaths(R, e) = startRecentPath(R, e.path)
    BY <1>5 DEF recentPaths, IsPath, Begun
  <2>2. Q = startRecentPath(R, e.path) BY <1>2, <1>5, <2>1 DEF IsPath
  <2>3. PathsInv(startRecentPath(R, e.path), J) BY <1>1, <1>4, <1>5, StartStep
  <2> QED BY <2>2, <2>3 DEF J, Q
<1>6. CASE IsPath(e, Final)
  <2> DEFINE st == IF e.outcome = "error" THEN "error" ELSE "ok"
  <2>1. recentPaths(R, e) = settleRecentPath(R, e.path, st)
    BY <1>6 DEF recentPaths, IsPath, Final
  <2>2. Q = settleRecentPath(R, e.path, st) BY <1>2, <1>6, <2>1 DEF IsPath
  <2>3. PathsInv(settleRecentPath(R, e.path, st), J)
    BY <1>1, <1>4, <1>6, SettleStep
  <2> QED BY <2>2, <2>3 DEF J, Q
<1>7. CASE ~IsPath(e, Begun) /\ ~IsPath(e, Final)
  <2>1. e.type = "entry" => e.kind # "path"
    BY <1>3, <1>7 DEF IsPath, Begun, Final, Outcomes
  <2>2. Q = R
    <3>1. CASE e.type = "entry"
      <4>1. e.kind # "path" BY <2>1, <3>1
      <4>2. recentPaths(R, e) = R
        BY <4>1 DEF recentPaths
      <4> QED BY <1>2, <3>1, <4>2
    <3>2. CASE e.type # "entry" BY <1>2, <3>2
    <3> QED BY <3>1, <3>2
  <2>3. PathsInv(R, J) BY <1>1, <1>4, <1>7, OtherStep
  <2> QED BY <2>2, <2>3 DEF J, Q
<1> QED BY <1>5, <1>6, <1>7

\* Nothing is shown at the start.
LEMMA PathsStart == Init => PathsInv(state.recentPaths, handled)
<1> SUFFICES ASSUME Init PROVE PathsInv(state.recentPaths, handled) OBVIOUS
<1> DEFINE R == state.recentPaths
<1>1. R = <<>> /\ handled = <<>> BY DEF Init, NewState
<1>2. PathsIn(handled, Begun) = {} /\ PathsIn(handled, Final) = {}
  BY <1>1 DEF PathsIn
<1>3. LiveIn(handled) = {} /\ EndedIn(handled) = {}
  BY <1>2 DEF LiveIn, EndedIn, Open, Begun
<1>4. R \in Seq(Entries) /\ Len(R) = 0 BY <1>1
<1>5. Len(R) <= maxRecentPaths BY <1>4, maxRecentPathsAssumption
<1> HIDE DEF R
<1>6. Shows(R, 0, 0, R, handled, {}, {}) BY DEF Shows, Falls
<1>7. Exactly(R, 0, FittedIn(handled)) BY <1>3 DEF Exactly, Complete, FittedIn
<1>8. Shown(R, handled, 0, R) BY <1>3, <1>4, <1>6, <1>7 DEF Shown
<1>9. PathsInv(R, handled) BY <1>4, <1>5, <1>8 DEF PathsInv
<1> QED BY <1>9 DEF R

\* Every step keeps the recent paths those of the history.
LEMMA PathsStep ==
    Inv /\ PathsInv(state.recentPaths, handled) /\ [Next]_vars
        => PathsInv(state.recentPaths, handled)'
<1> SUFFICES ASSUME Inv, PathsInv(state.recentPaths, handled), [Next]_vars
             PROVE  PathsInv(state'.recentPaths, handled')
  OBVIOUS
<1>1. CASE handleEvent
  <2>1. PICK e \in Events : /\ state' = updateState(state, e)
                            /\ handled' = Append(handled, e)
    BY <1>1 DEF handleEvent
  <2>2. handled \in Seq(Events) /\ Shaped(state) BY DEF Inv
  <2>3. PathsInv(updateState(state, e).recentPaths, Append(handled, e))
    BY <2>2, PathsFold
  <2> QED BY <2>1, <2>3
<1>2. CASE UNCHANGED <<state, handled>> BY <1>2
<1> QED BY <1>1, <1>2 DEF Next, State, Done, vars

\* RecentPaths is what the history shows in every reachable state.
LEMMA PathsAlways == Spec => []PathsInv(state.recentPaths, handled)
  BY PathsStart, PathsStep, Invariance, PTL DEF Spec

\* The model's words for the sets of positions.
LEMMA SameSets ==
    /\ Starts = PathsIn(handled, Begun) /\ Settles = PathsIn(handled, Final)
    /\ {i \in Starts : ~SettledAfter(i)} = LiveIn(handled)
    /\ {i \in Settles : ~SettledAfter(i)} = EndedIn(handled)
<1>1. Starts = PathsIn(handled, Begun) /\ Settles = PathsIn(handled, Final)
  BY DEF Starts, Settles, Positions, PathsIn, IsPath, Begun, Final
<1>2. \A A : Open(handled, A) = {i \in A : ~SettledAfter(i)}
  BY <1>1 DEF Open, SettledAfter
<1>3. /\ LiveIn(handled) = Open(handled, PathsIn(handled, Begun))
      /\ EndedIn(handled) = Open(handled, PathsIn(handled, Final))
  BY DEF LiveIn, EndedIn, Begun
<1> QED BY <1>1, <1>2, <1>3

\* Paths at positions that go down are the first of the latest.
LEMMA FallsPrefix ==
    ASSUME handled \in Seq(Events), NEW S, S \subseteq 1..Len(handled),
           NEW q \in Seq(Entries), NEW g, Falls(g, 1, Len(q), S),
           \A i \in 1..Len(q) : q[i].path = handled[g[i]].path
    PROVE  /\ IsPrefix(PathsOf(q), LatestFirst(S))
           /\ Complete(g, Len(q), S) => PathsOf(q) = LatestFirst(S)
<1> DEFINE k == Len(q)
           c == Cardinality(S)
           Z == {e.path : e \in Events}
           P == PathsOf(q)
           F == LatestFirst(S)
<1>1. k \in Nat /\ DOMAIN q = 1..k /\ \A i \in 1..k : q[i] \in Entries OBVIOUS
<1>2. Len(handled) \in Nat /\ \A i \in 1..Len(handled) : handled[i] \in Events
  OBVIOUS
<1>3. IsFiniteSet(S) /\ S \subseteq Nat
  <2>1. IsFiniteSet(1..Len(handled)) BY <1>2, FS_Interval
  <2>2. S \in SUBSET (1..Len(handled)) OBVIOUS
  <2>3. IsFiniteSet(S) BY <2>1, <2>2, FS_Subset
  <2> QED BY <2>2, <2>3
<1>4. (\A i \in 1..k : g[i] \in S) /\ (\A i, j \in 1..k : i < j => g[i] > g[j])
  BY DEF Falls
<1>5. c \in Nat /\ k <= c /\ (Complete(g, k, S) => k = c)
  <2> HIDE DEF k
  <2> QED BY <1>1, <1>3, <1>4, FallCount
<1>6. P = [i \in 1..k |-> q[i].path] BY <1>1 DEF PathsOf
<1>7. F = [i \in 1..c |-> handled[Nth(S, c + 1 - i)].path] BY DEF LatestFirst
<1>8. \A i \in 1..k : P[i] \in Z /\ P[i] = handled[g[i]].path
  BY <1>1, <1>6 DEF Entries
<1>9. \A i \in 1..c : F[i] \in Z
  <2> SUFFICES ASSUME NEW i \in 1..c PROVE F[i] \in Z OBVIOUS
  <2>1. c + 1 - i \in 1..c BY <1>5
  <2>2. Nth(S, c + 1 - i) \in S BY <1>3, <2>1, NthIs
  <2>3. handled[Nth(S, c + 1 - i)] \in Events BY <1>2, <2>2
  <2> QED BY <1>7, <2>3
<1>10. \A i \in 1..k : F[i] = P[i]
  <2> SUFFICES ASSUME NEW i \in 1..k PROVE F[i] = P[i] OBVIOUS
  <2>1. i \in 1..c BY <1>1, <1>5
  <2>2. Nth(S, c + 1 - i) = g[i]
    <3>1. Falls(g, 1, k, S) /\ i \in 1..k OBVIOUS
    <3> HIDE DEF k
    <3>2. IsFromEnd(S, i, g[i]) BY <1>1, <1>3, <3>1, FallNth
    <3> QED BY <3>2 DEF IsFromEnd
  <2> QED BY <1>7, <1>8, <2>1, <2>2
<1> HIDE DEF Z, P, F, c, k
<1>11. P \in Seq(Z) /\ Len(P) = k BY <1>1, <1>6, <1>8
<1>12. F \in Seq(Z) /\ Len(F) = c
  <2>1. F = [i \in 1..c |-> F[i]] BY <1>7
  <2>2. F \in [1..c -> Z] BY <1>9, <2>1
  <2> QED BY <1>5, <2>2
<1>13. SubSeq(P, 1, k) = SubSeq(F, 1, k)
  <2> DEFINE u == SubSeq(P, 1, k)
             v == SubSeq(F, 1, k)
  <2>1. \A i \in 1..k : F[i] \in Z BY <1>8, <1>10
  <2>2. /\ u \in Seq(Z) /\ Len(u) = IF 1 <= k THEN k - 1 + 1 ELSE 0
        /\ \A i \in 1..k - 1 + 1 : u[i] = P[1 + i - 1]
    <3> DEFINE one == 1
    <3>1. one \in Int /\ k \in Int /\ \A i \in one..k : P[i] \in Z BY <1>1, <1>8
    <3> HIDE DEF one
    <3>2. /\ SubSeq(P, one, k) \in Seq(Z)
          /\ Len(SubSeq(P, one, k)) = IF one <= k THEN k - one + 1 ELSE 0
          /\ \A i \in 1..k - one + 1 : SubSeq(P, one, k)[i] = P[one + i - 1]
      BY <3>1, SubSeqProperties
    <3> QED BY <3>2 DEF one
  <2>3. /\ v \in Seq(Z) /\ Len(v) = IF 1 <= k THEN k - 1 + 1 ELSE 0
        /\ \A i \in 1..k - 1 + 1 : v[i] = F[1 + i - 1]
    <3> DEFINE one == 1
    <3>1. one \in Int /\ k \in Int /\ \A i \in one..k : F[i] \in Z BY <1>1, <2>1
    <3> HIDE DEF one
    <3>2. /\ SubSeq(F, one, k) \in Seq(Z)
          /\ Len(SubSeq(F, one, k)) = IF one <= k THEN k - one + 1 ELSE 0
          /\ \A i \in 1..k - one + 1 : SubSeq(F, one, k)[i] = F[one + i - 1]
      BY <3>1, SubSeqProperties
    <3> QED BY <3>2 DEF one
  <2> HIDE DEF u, v
  <2>4. Len(u) = k /\ Len(v) = k BY <1>1, <2>2, <2>3
  <2>5. \A i \in 1..k : i \in 1..k - 1 + 1 /\ 1 + i - 1 = i BY <1>1
  <2>6. \A i \in 1..Len(u) : u[i] = v[i] BY <1>10, <2>2, <2>3, <2>4, <2>5
  <2>7. u = v BY <2>2, <2>3, <2>4, <2>6, SeqEqual
  <2> QED BY <2>7 DEF u, v
<1>14. IsPrefix(P, F) BY <1>5, <1>11, <1>12, <1>13 DEF IsPrefix
<1>15. k = c => P = F
  BY <1>10, <1>11, <1>12, SeqEqual
<1> QED BY <1>5, <1>14, <1>15 DEF P, F, k

\* The two parts of what is shown.
LEMMA PartsShown ==
    ASSUME handled \in Seq(Events), NEW R \in Seq(Entries), NEW m, NEW g,
           Shown(R, handled, m, g)
    PROVE  /\ R = InProgress(R) \o Settled(R)
           /\ IsPrefix(PathsOf(InProgress(R)), LivePaths)
           /\ IsPrefix(PathsOf(Settled(R)), SettledPaths)
           /\ \A i \in DOMAIN Settled(R) :
                 \E j \in EndedIn(handled) :
                     /\ Settled(R)[i].path = handled[j].path
                     /\ Settled(R)[i].status = StatusAt(handled, j)
           /\ PathsOf(InProgress(R)) = LatestFirst(FittedIn(handled))
<1> DEFINE n == Len(R)
           L == LiveIn(handled)
           E == EndedIn(handled)
           A == InProgress(R)
           B == Settled(R)
           h == [i \in 1..n - m |-> m + i]
           f == [i \in 1..n - m |-> g[m + i]]
<1>1. Shows(R, n, m, g, handled, L, E) BY DEF Shown
<1>2. /\ n \in Nat /\ m \in Nat /\ m <= n
      /\ A \in Seq(Entries) /\ Len(A) = m /\ \A i \in 1..m : A[i] = R[i]
      /\ B \in Seq(Entries) /\ Len(B) = n - m /\ \A i \in 1..n - m : B[i] = R[m + i]
  <2>1. n = Len(R) OBVIOUS
  <2>2. R \in Seq(Entries) OBVIOUS
  <2> HIDE DEF n, L, E, h, f, A, B
  <2>3. /\ n \in Nat /\ m \in Nat /\ m <= n
        /\ InProgress(R) \in Seq(Entries) /\ Len(InProgress(R)) = m
        /\ \A i \in 1..m : InProgress(R)[i] = R[i]
        /\ Settled(R) \in Seq(Entries) /\ Len(Settled(R)) = n - m
        /\ \A i \in 1..n - m : Settled(R)[i] = R[m + i]
    BY ONLY <1>1, <2>1, <2>2, Parted
  <2> QED BY <2>3, Zenon DEF A, B
<1>3. /\ \A i \in 1..n : R[i].path = handled[g[i]].path
      /\ \A i \in m + 1..n : R[i].status = StatusAt(handled, g[i])
      /\ Falls(g, 1, m, L) /\ Falls(g, m + 1, n, E)
  BY <1>1 DEF Shows
<1>4. Len(handled) \in Nat /\ DOMAIN handled = 1..Len(handled) OBVIOUS
<1>5. L \subseteq 1..Len(handled) /\ E \subseteq 1..Len(handled)
  BY <1>4 DEF LiveIn, EndedIn, Open, PathsIn
<1>6. LivePaths = LatestFirst(L) /\ SettledPaths = LatestFirst(E)
  BY SameSets DEF LivePaths, SettledPaths
<1>7. R = A \o B
  <2> HIDE DEF A, B, n
  <2> DEFINE q == A \o B
  <2>1. /\ q \in Seq(Entries) /\ Len(q) = Len(A) + Len(B)
        /\ \A i \in 1..Len(A) + Len(B) :
              q[i] = IF i <= Len(A) THEN A[i] ELSE B[i - Len(A)]
    BY <1>2, ConcatProperties
  <2> HIDE DEF q
  <2>2. Len(q) = n BY <1>2, <2>1
  <2>3. ASSUME NEW i \in 1..n PROVE R[i] = q[i]
    <3>1. q[i] = IF i <= m THEN A[i] ELSE B[i - m] BY <1>2, <2>1
    <3>2. CASE i <= m
      <4>1. i \in 1..m BY <1>2, <3>2
      <4> QED BY <1>2, <3>1, <3>2, <4>1
    <3>3. CASE ~(i <= m)
      <4> DEFINE j == i - m
      <4>1. j \in 1..n - m /\ m + j = i BY <1>2, <3>3
      <4>2. q[i] = B[j] BY <3>1, <3>3
      <4> HIDE DEF j
      <4>3. B[j] = R[m + j] BY <1>2, <4>1
      <4> QED BY <4>1, <4>2, <4>3
    <3> QED BY <3>2, <3>3
  <2>4. R \in Seq(Entries) /\ n = Len(R) BY DEF n
  <2>5. Len(R) = Len(q) /\ \A i \in 1..Len(R) : R[i] = q[i] BY <2>2, <2>3, <2>4
  <2>6. R = q BY <2>1, <2>4, <2>5, SeqEqual
  <2> QED BY <2>6 DEF q
<1>8. IsPrefix(PathsOf(A), LivePaths)
  <2>1. \A i \in 1..m : i \in 1..n BY <1>2
  <2>2. Falls(g, 1, Len(A), L)
        /\ \A i \in 1..Len(A) : A[i].path = handled[g[i]].path
    BY <1>2, <1>3, <2>1
  <2> HIDE DEF A, L
  <2>3. IsPrefix(PathsOf(A), LatestFirst(L)) BY <1>2, <1>5, <2>2, FallsPrefix
  <2> QED BY <1>2, <1>6, <2>3
<1>9. \A i \in 1..n - m : /\ m + i \in m + 1..n /\ m + i \in 1..n
                          /\ h[i] = m + i /\ f[i] = g[m + i]
  BY <1>2
<1>10. Falls(f, 1, n - m, E)
  <2>1. \A i \in m + 1..n : g[i] \in E BY <1>3 DEF Falls
  <2>2. \A i \in 1..n - m : h[i] \in m + 1..n /\ f[i] = g[h[i]] /\ g[h[i]] \in E
    BY <1>9, <2>1
  <2>3. \A i, j \in 1..n - m : i < j => h[i] < h[j]
    <3> HIDE DEF h, f
    <3> QED BY <1>2, <1>9
  <2>4. \A l \in m + 1..n : \E i \in 1..n - m : h[i] = l
    <3> SUFFICES ASSUME NEW l \in m + 1..n PROVE \E i \in 1..n - m : h[i] = l
      OBVIOUS
    <3>1. l - m \in 1..n - m /\ m + (l - m) = l BY <1>2
    <3> QED BY <1>9, <3>1
  <2> HIDE DEF h, f
  <2>5. Selects(h, g, m + 1, n, f, 1, n - m, E) BY <2>2, <2>3, <2>4 DEF Selects
  <2> QED BY <1>3, <2>5, FallsPick, Zenon
<1> HIDE DEF f, h
<1>11. \A i \in 1..n - m : /\ B[i].path = handled[f[i]].path
                           /\ B[i].status = StatusAt(handled, f[i])
                           /\ f[i] \in E
  <2>1. \A i \in 1..n - m : f[i] \in E BY <1>10 DEF Falls
  <2> QED BY <1>2, <1>3, <1>9, <2>1
<1>12. IsPrefix(PathsOf(B), SettledPaths)
  <2>1. Falls(f, 1, Len(B), E)
        /\ \A i \in 1..Len(B) : B[i].path = handled[f[i]].path
    BY <1>2, <1>10, <1>11
  <2> HIDE DEF B, E
  <2>3. IsPrefix(PathsOf(B), LatestFirst(E)) BY <1>2, <1>5, <2>1, FallsPrefix
  <2> QED BY <1>6, <2>3
<1>13. DOMAIN B = 1..n - m BY <1>2
<1>14. PathsOf(A) = LatestFirst(FittedIn(handled))
  <2> DEFINE F == FittedIn(handled)
  <2>1. Exactly(g, m, F) /\ F \subseteq L BY DEF Shown, FittedIn
  <2> HIDE DEF F, L, A
  <2>2. \A i \in 1..m : g[i] \in F BY <2>1 DEF Exactly
  <2>3. Falls(g, 1, m, F) BY <1>3, <2>1, <2>2 DEF Falls
  <2>4. \A i \in 1..m : i \in 1..n BY <1>2
  <2>5. Falls(g, 1, Len(A), F) /\ Complete(g, Len(A), F)
        /\ \A i \in 1..Len(A) : A[i].path = handled[g[i]].path
    BY <1>2, <1>3, <2>1, <2>3, <2>4 DEF Exactly
  <2>6. F \subseteq 1..Len(handled) BY <1>5, <2>1
  <2>7. PathsOf(A) = LatestFirst(F) BY <1>2, <2>5, <2>6, FallsPrefix
  <2> QED BY <2>7 DEF F
<1>15. \A i \in DOMAIN B : \E j \in E : /\ B[i].path = handled[j].path
                                       /\ B[i].status = StatusAt(handled, j)
  BY <1>11, <1>13
<1> QED BY <1>7, <1>8, <1>12, <1>14, <1>15

\* A settling with none of its path later is the last one of its path.
LEMMA LastSettling ==
    ASSUME handled \in Seq(Events), NEW j \in EndedIn(handled), NEW p,
           p = handled[j].path
    PROVE  Max({i \in Settles : handled[i].path = p}) = j
<1> DEFINE S == {i \in Settles : handled[i].path = p}
<1>1. DOMAIN handled \subseteq Nat OBVIOUS
<1>2. Settles = PathsIn(handled, Final) BY SameSets
<1>3. S \subseteq Nat BY <1>1, <1>2 DEF PathsIn
<1>4. j \in S /\ \A i \in S : ~(i > j) BY <1>2 DEF EndedIn, Open
<1> HIDE DEF S
<1>5. \A y \in S : j >= y BY <1>3, <1>4
<1>6. \A x \in S : (\A y \in S : x >= y) => x = j BY <1>3, <1>4, <1>5
<1>7. Max(S) = j BY <1>4, <1>5, <1>6 DEF Max
<1> QED BY <1>7 DEF S

(***************************************************************************)
(* In whatever order paths start and settle, again and again, and whatever *)
(* the cap: RecentPaths shows the latest paths in progress, then the       *)
(* latest settled ones with their last status (listener.go:313-347).       *)
(***************************************************************************)
THEOREM RecentPathsAreHistory == Spec => []RecentPathsMatchHistory
<1>1. ASSUME Inv, PathsInv(state.recentPaths, handled)
      PROVE  RecentPathsMatchHistory
  <2> DEFINE R == state.recentPaths
             B == Settled(R)
  <2>1. handled \in Seq(Events) BY <1>1 DEF Inv
  <2>2. R \in Seq(Entries) /\ Len(R) <= maxRecentPaths BY <1>1 DEF PathsInv
  <2>3. PICK m, g : Shown(R, handled, m, g) BY <1>1 DEF PathsInv
  <2> HIDE DEF R
  <2>4. /\ R = InProgress(R) \o B
        /\ IsPrefix(PathsOf(InProgress(R)), LivePaths)
        /\ IsPrefix(PathsOf(B), SettledPaths)
        /\ \A i \in DOMAIN B :
              \E j \in EndedIn(handled) : /\ B[i].path = handled[j].path
                                          /\ B[i].status = StatusAt(handled, j)
    BY <2>1, <2>2, <2>3, PartsShown
  <2> HIDE DEF B
  <2>5. ASSUME NEW i \in DOMAIN B
        PROVE  LET last == Max({j \in Settles : handled[j].path = B[i].path})
               IN  B[i].status = IF handled[last].outcome = "error" THEN "error"
                                                                     ELSE "ok"
    <3>1. PICK j \in EndedIn(handled) : /\ B[i].path = handled[j].path
                                        /\ B[i].status = StatusAt(handled, j)
      BY <2>4
    <3>2. Max({k \in Settles : handled[k].path = B[i].path}) = j
      BY <2>1, <3>1, LastSettling
    <3> QED BY <3>1, <3>2 DEF StatusAt
  <2> QED BY <2>2, <2>4, <2>5 DEF RecentPathsMatchHistory, R, B
<1> QED BY <1>1, Invariance, PathsAlways, PTL

\* The model's words for the paths that fit.
LEMMA SameFitted ==
    ASSUME handled \in Seq(Events) PROVE Fitted = FittedIn(handled)
<1>1. /\ Starts = PathsIn(handled, Begun) /\ Settles = PathsIn(handled, Final)
      /\ {i \in Starts : ~SettledAfter(i)} = LiveIn(handled)
  BY SameSets
<1>2. \A n : LiveAt(n) = LiveUpTo(handled, n)
  BY <1>1 DEF LiveAt, LiveUpTo, Begun
<1>3. \A i, n : Crowd(i, n) <= maxRecentPaths <=> Room(LiveUpTo(handled, n), i)
  BY <1>2 DEF Crowd, Room, FromOn
<1>4. \A i : i \in LiveIn(handled) <=> i \in Starts /\ ~SettledAfter(i) BY <1>1
<1> QED BY <1>3, <1>4 DEF Fitted, FittedIn

(***************************************************************************)
(* Whatever the cap, and however many paths are processed at once, in      *)
(* whatever order they start and settle: the paths shown as in progress    *)
(* are exactly those for which there has been room among the paths in      *)
(* progress ever since they started (listener.go:313-347).                 *)
(***************************************************************************)
THEOREM LivePathsAreShown == Spec => []LivePathsShown
<1>1. ASSUME Inv, PathsInv(state.recentPaths, handled) PROVE LivePathsShown
  <2> DEFINE R == state.recentPaths
  <2>1. handled \in Seq(Events) BY <1>1 DEF Inv
  <2>2. R \in Seq(Entries) BY <1>1 DEF PathsInv
  <2>3. PICK m, g : Shown(R, handled, m, g) BY <1>1 DEF PathsInv
  <2> HIDE DEF R
  <2>4. PathsOf(InProgress(R)) = LatestFirst(FittedIn(handled))
    BY <2>1, <2>2, <2>3, PartsShown
  <2>5. Fitted = FittedIn(handled) BY <2>1, SameFitted
  <2>6. PathsOf(InProgress(R)) = LatestFirst(Fitted) BY <2>4, <2>5
  <2> QED BY <2>6 DEF LivePathsShown, R
<1> QED BY <1>1, Invariance, PathsAlways, PTL
=============================================================================
