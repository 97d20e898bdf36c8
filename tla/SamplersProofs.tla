--------------------------- MODULE SamplersProofs ---------------------------
(***************************************************************************)
(* Proofs about the self-decimating buffers, for any even capacity and any *)
(* length of the run. A buffer and the readings it was offered are related *)
(* by Faithful: the readings number 1 + (n - 1) * stride + tick, and sample*)
(* i is reading 1 + (i - 1) * stride. It survives decimation because the   *)
(* capacity is even: an overflowing buffer then has an odd length, so the  *)
(* newest sample is one of those that are kept.                            *)
(***************************************************************************)
EXTENDS Samplers, SequenceTheorems, TLAPS

Buffer == [samples : Seq(Nat), stride : Nat \ {0}, tick : Nat]

Faithful(b, a) ==
    /\ b \in Buffer /\ a \in Seq(Nat)
    /\ Len(b.samples) <= MaxSamples
    /\ b.stride > 1 => 2 * Len(b.samples) > MaxSamples
    /\ b.tick < b.stride
    /\ Len(b.samples) = 0 => Len(a) = 0 /\ b.stride = 1
    /\ Len(b.samples) > 0 =>
          Len(a) = 1 + (Len(b.samples) - 1) * b.stride + b.tick
    /\ \A i \in 1..Len(b.samples) :
          /\ 1 + (i - 1) * b.stride \in 1..Len(a)
          /\ b.samples[i] = a[1 + (i - 1) * b.stride]

\* The little multiplication the invariant needs.
LEMMA Products ==
    /\ \A m, s \in Nat : m * s \in Nat
    /\ \A m, s \in Nat : (m + 1) * s = m * s + s
    /\ \A m, s \in Nat : (2 * m) * s = m * (2 * s)
    /\ \A m, n, s \in Nat : m <= n => m * s <= n * s
  OBVIOUS

\* Every other element, from the first: the length and the elements kept.
LEMMA KeptElements ==
    ASSUME NEW s \in Seq(Nat), NEW k \in Nat, Len(s) = 2 * k + 1
    PROVE  /\ Kept(s) \in Seq(Nat)
           /\ Len(Kept(s)) = k + 1
           /\ \A i \in 1..k + 1 : Kept(s)[i] = s[2 * i - 1]
<1>1. (Len(s) + 1) \div 2 = k + 1
  OBVIOUS
<1>2. ASSUME NEW i \in 1..k + 1 PROVE s[2 * i - 1] \in Nat
  <2>1. 2 * i - 1 \in 1..Len(s)
    OBVIOUS
  <2>2. QED
    BY <2>1, ElementOfSeq
<1>3. Kept(s) = [i \in 1..k + 1 |-> s[2 * i - 1]]
  BY <1>1 DEF Kept
<1>4. QED
  BY <1>2, <1>3, IsASeq

\* A reading that is only counted leaves the samples where they were.
LEMMA SkipFaithful ==
    ASSUME NEW b, NEW a, NEW at \in Nat, Faithful(b, a),
           b.tick + 1 < b.stride
    PROVE  Faithful([b EXCEPT !.tick = @ + 1], Append(a, at))
<1> DEFINE c == [b EXCEPT !.tick = @ + 1]
<1>0. b \in Buffer
  BY DEF Faithful
<1>1. /\ c \in Buffer /\ c.samples = b.samples /\ c.stride = b.stride
      /\ c.tick = b.tick + 1
  BY <1>0 DEF Buffer
<1>2. /\ Append(a, at) \in Seq(Nat) /\ Len(Append(a, at)) = Len(a) + 1
      /\ \A i \in 1..Len(a) : Append(a, at)[i] = a[i]
  BY DEF Faithful
<1>3. Len(b.samples) # 0
  BY DEF Faithful, Buffer
<1> HIDE DEF c
<1>4. Len(b.samples) \in Nat /\ b.stride \in Nat /\ b.tick \in Nat /\ Len(a) \in Nat
  BY DEF Faithful, Buffer
<1>5. Len(Append(a, at)) = 1 + (Len(c.samples) - 1) * c.stride + c.tick
  <2> DEFINE p == (Len(b.samples) - 1) * b.stride
  <2>1. p \in Nat
    BY <1>3, <1>4, Products
  <2>2. Len(a) = 1 + p + b.tick
    BY <1>3 DEF Faithful
  <2>3. (Len(c.samples) - 1) * c.stride = p
    BY <1>1
  <2> HIDE DEF p
  <2> QED
    BY <1>1, <1>2, <1>4, <2>1, <2>2, <2>3
<1>6. \A i \in 1..Len(c.samples) :
         /\ 1 + (i - 1) * c.stride \in 1..Len(Append(a, at))
         /\ c.samples[i] = Append(a, at)[1 + (i - 1) * c.stride]
  BY <1>1, <1>2, <1>4 DEF Faithful
<1>7. QED
  BY <1>1, <1>2, <1>3, <1>4, <1>5, <1>6 DEF Faithful, c

\* c and d are b and a with one more sample, stride readings after the last.
Extends(b, a, c, d) ==
    /\ c \in Buffer /\ d \in Seq(Nat)
    /\ Len(c.samples) = Len(b.samples) + 1
    /\ c.stride = b.stride /\ c.tick = 0
    /\ Len(d) = 1 + Len(b.samples) * b.stride
    /\ \A i \in 1..Len(c.samples) :
          /\ 1 + (i - 1) * b.stride \in 1..Len(d)
          /\ c.samples[i] = d[1 + (i - 1) * b.stride]

\* A stored reading is the next sample.
LEMMA AppendFaithful ==
    ASSUME NEW b, NEW a, NEW at \in Nat, Faithful(b, a),
           ~(b.tick + 1 < b.stride)
    PROVE  Extends(b, a, [samples |-> Append(b.samples, at),
                          stride |-> b.stride, tick |-> 0], Append(a, at))
<1> DEFINE c == [samples |-> Append(b.samples, at), stride |-> b.stride, tick |-> 0]
<1> DEFINE d == Append(a, at)
<1> DEFINE n == Len(b.samples)
<1>0. b \in Buffer /\ a \in Seq(Nat)
  BY DEF Faithful
<1>1. /\ c \in Buffer /\ c.samples = Append(b.samples, at)
      /\ c.stride = b.stride /\ c.tick = 0
  <2>1. /\ b.samples \in Seq(Nat) /\ b.stride \in Nat \ {0}
        /\ Append(b.samples, at) \in Seq(Nat)
    BY <1>0 DEF Buffer
  <2>2. QED
    BY <2>1 DEF Buffer
<1>2. n \in Nat /\ b.stride \in Nat /\ b.tick \in Nat /\ Len(a) \in Nat
  BY <1>0 DEF Buffer
<1>3. /\ Len(c.samples) = n + 1 /\ c.samples[n + 1] = at
      /\ \A i \in 1..n : c.samples[i] = b.samples[i]
  BY <1>0, <1>1 DEF Buffer
<1>4. /\ d \in Seq(Nat) /\ Len(d) = Len(a) + 1 /\ d[Len(a) + 1] = at
      /\ \A i \in 1..Len(a) : d[i] = a[i]
  BY <1>0
<1>5. Len(a) = n * b.stride
  <2>1. CASE n = 0
    BY <1>2, <2>1 DEF Faithful
  <2>2. CASE n # 0
    <3>1. b.tick + 1 = b.stride
      BY <1>2 DEF Faithful
    <3>2. Len(a) = 1 + (n - 1) * b.stride + b.tick
      BY <1>2, <2>2 DEF Faithful
    <3>3. n - 1 \in Nat /\ ((n - 1) + 1) * b.stride = (n - 1) * b.stride + b.stride
      BY <1>2, <2>2, Products
    <3>4. QED
      BY <1>2, <3>1, <3>2, <3>3
  <2>3. QED
    BY <2>1, <2>2
<1>6. ASSUME NEW i \in 1..n + 1
      PROVE  /\ 1 + (i - 1) * b.stride \in 1..Len(d)
             /\ c.samples[i] = d[1 + (i - 1) * b.stride]
  <2>1. CASE i = n + 1
    BY <1>2, <1>3, <1>4, <1>5, <2>1
  <2>2. CASE i # n + 1
    <3>1. i \in 1..n
      BY <1>2, <2>2
    <3>2. /\ 1 + (i - 1) * b.stride \in 1..Len(a)
          /\ b.samples[i] = a[1 + (i - 1) * b.stride]
      BY <3>1 DEF Faithful
    <3>3. QED
      BY <1>2, <1>3, <1>4, <3>1, <3>2
  <2>3. QED
    BY <2>1, <2>2
<1>7. QED
  <2> HIDE DEF c, d
  <2>1. Len(d) = 1 + n * b.stride
    BY <1>2, <1>4, <1>5, Products
  <2>2. Extends(b, a, c, d)
    BY <1>1, <1>3, <1>4, <1>6, <2>1 DEF Extends
  <2>3. QED
    BY <2>2 DEF c, d

\* Storing a reading, decimation included, keeps the relation.
LEMMA StoreFaithful ==
    ASSUME NEW b, NEW a, NEW at \in Nat, Faithful(b, a),
           ~(b.tick + 1 < b.stride)
    PROVE  Faithful(Store(b, at), Append(a, at))
<1> DEFINE c == [samples |-> Append(b.samples, at), stride |-> b.stride, tick |-> 0]
<1> DEFINE d == Append(a, at)
<1> DEFINE n == Len(b.samples)
<1>0. Extends(b, a, c, d)
  BY AppendFaithful
<1>1. /\ c \in Buffer /\ d \in Seq(Nat)
      /\ Len(c.samples) = n + 1
      /\ c.stride = b.stride /\ c.tick = 0
      /\ Len(d) = 1 + n * b.stride
      /\ \A i \in 1..Len(c.samples) :
            /\ 1 + (i - 1) * b.stride \in 1..Len(d)
            /\ c.samples[i] = d[1 + (i - 1) * b.stride]
  <2> HIDE DEF c, d
  <2>1. QED
    BY <1>0, Zenon DEF Extends
<1>2. /\ n \in Nat /\ b.stride \in Nat \ {0} /\ n <= MaxSamples
      /\ b.stride > 1 => 2 * n > MaxSamples
  BY DEF Faithful, Buffer
<1>3. Store(b, at) = IF Len(c.samples) > MaxSamples THEN Decimate(c) ELSE c
  BY DEF Store
<1> HIDE DEF c, d, n
<1>4. CASE Len(c.samples) <= MaxSamples
  <2>1. Len(d) = 1 + (Len(c.samples) - 1) * c.stride + c.tick
    <3>1. (n + 1) - 1 = n /\ n * b.stride \in Nat
      BY <1>2, Products
    <3>2. QED
      BY <1>1, <3>1
  <2>2. c.tick < c.stride /\ Len(c.samples) > 0
    BY <1>1, <1>2
  <2>3. c.stride > 1 => 2 * Len(c.samples) > MaxSamples
    BY <1>1, <1>2, MaxSamplesAssumption
  <2>4. Faithful(c, d)
    BY <1>1, <1>4, <2>1, <2>2, <2>3 DEF Faithful
  <2>5. QED
    BY <1>1, <1>2, <1>3, <1>4, <2>4, MaxSamplesAssumption DEF d
<1>5. CASE Len(c.samples) > MaxSamples
  <2>1. n = MaxSamples
    BY <1>1, <1>2, <1>5, MaxSamplesAssumption
  <2>2. PICK k \in Nat : n = 2 * k
    <3>1. (n \div 2) \in Nat /\ n = 2 * (n \div 2)
      BY <1>2, <2>1, MaxSamplesAssumption
    <3>2. QED
      BY <3>1
  <2> DEFINE e == Decimate(c)
  <2>3. c.samples \in Seq(Nat) /\ Len(c.samples) = 2 * k + 1
    BY <1>1, <2>2 DEF Buffer
  <2>4. /\ Kept(c.samples) \in Seq(Nat) /\ Len(Kept(c.samples)) = k + 1
        /\ \A i \in 1..k + 1 : Kept(c.samples)[i] = c.samples[2 * i - 1]
    BY <2>3, KeptElements
  <2>5. /\ e \in Buffer /\ e.samples = Kept(c.samples)
        /\ e.stride = 2 * b.stride /\ e.tick = 0
    <3>1. e = [samples |-> Kept(c.samples), stride |-> 2 * b.stride, tick |-> 0]
      BY <1>1 DEF Decimate
    <3>2. 2 * b.stride \in Nat \ {0}
      BY <1>2
    <3>3. QED
      BY <3>1, <3>2, <2>4 DEF Buffer
  <2> HIDE DEF e
  <2>6. Len(d) = 1 + ((k + 1) - 1) * e.stride + e.tick
    BY <1>1, <1>2, <2>2, <2>5, Products
  <2>7. ASSUME NEW i \in 1..k + 1
        PROVE  /\ 1 + (i - 1) * e.stride \in 1..Len(d)
               /\ e.samples[i] = d[1 + (i - 1) * e.stride]
    <3>1. 2 * i - 1 \in 1..Len(c.samples)
      BY <2>3
    <3>2. ((2 * i - 1) - 1) * b.stride = (i - 1) * e.stride
      <4>1. i - 1 \in Nat /\ (2 * i - 1) - 1 = 2 * (i - 1)
        OBVIOUS
      <4>2. QED
        BY <4>1, <1>2, <2>5, Products
    <3>3. /\ 1 + ((2 * i - 1) - 1) * b.stride \in 1..Len(d)
          /\ c.samples[2 * i - 1] = d[1 + ((2 * i - 1) - 1) * b.stride]
      BY <1>1, <3>1
    <3>4. QED
      BY <2>4, <2>5, <3>2, <3>3
  <2>8. 2 * (k + 1) > MaxSamples /\ k + 1 <= MaxSamples /\ k + 1 > 0
    BY <2>1, <2>2, MaxSamplesAssumption
  <2>9. Faithful(e, d)
    <3>1. Len(e.samples) = k + 1
      BY <2>4, <2>5
    <3>2. e.tick < e.stride
      BY <1>2, <2>5
    <3>3. QED
      BY <1>1, <2>5, <2>6, <2>7, <2>8, <3>1, <3>2 DEF Faithful
  <2>10. QED
    BY <1>3, <1>5, <2>9 DEF e, d
<1>6. QED
  BY <1>1, <1>2, <1>4, <1>5, MaxSamplesAssumption

\* record, whatever it does with the reading, keeps the relation.
LEMMA RecordFaithful ==
    ASSUME NEW b, NEW a, NEW at \in Nat, Faithful(b, a)
    PROVE  Faithful(Record(b, at), Append(a, at))
  BY SkipFaithful, StoreFaithful DEF Record

-----------------------------------------------------------------------------
Inv == TypeOK /\ \A k \in Buffers : Faithful(buf[k], admitted[k])

\* Empty buffers are faithful to no readings.
LEMMA InitInv == Init => Inv
<1> SUFFICES ASSUME Init PROVE Inv
  OBVIOUS
<1>1. NewBuffer \in Buffer /\ <<>> \in Seq(Nat) /\ Len(<<>>) = 0
  BY DEF NewBuffer, Buffer
<1>2. Faithful(NewBuffer, <<>>)
  BY <1>1, MaxSamplesAssumption DEF Faithful, NewBuffer
<1>3. TypeOK
  BY <1>1 DEF Init, TypeOK, Buffer
<1>4. QED
  BY <1>2, <1>3 DEF Init, Inv

\* A call of emit offers its reading to every buffer that takes it.
LEMMA SampleInv ==
    ASSUME Inv, NEW cpuRead \in BOOLEAN, Sample(cpuRead), op' = op,
           running' \in BOOLEAN, observed' = observed
    PROVE  Inv'
<1>0. emits \in Nat /\ emits' \in Nat
  BY DEF Inv, TypeOK, Sample
<1>1. ASSUME NEW k \in Buffers PROVE Faithful(buf'[k], admitted'[k])
  <2>1. Faithful(Record(buf[k], emits + 1), Append(admitted[k], emits + 1))
    BY <1>0, RecordFaithful DEF Inv
  <2>2. QED
    BY <2>1 DEF Sample, Inv
<1>2. ASSUME NEW k \in Buffers PROVE buf'[k] \in Buffer /\ admitted'[k] \in Seq(Nat)
  BY <1>1 DEF Faithful
<1>3. buf' \in [Buffers -> Buffer] /\ admitted' \in [Buffers -> Seq(Nat)]
  <2>1. /\ buf' = [k \in Buffers |-> buf'[k]]
        /\ admitted' = [k \in Buffers |-> admitted'[k]]
    BY DEF Sample
  <2>2. QED
    BY <1>2, <2>1
<1>4. TypeOK'
  BY <1>0, <1>3 DEF Inv, TypeOK, Buffer
<1>5. QED
  BY <1>1, <1>4 DEF Inv

\* Every step of the sampler preserves the invariant.
LEMMA NextInv == Inv /\ [Next]_vars => Inv'
<1> SUFFICES ASSUME Inv, [Next]_vars PROVE Inv'
  OBVIOUS
<1>1. CASE Tick
  <2>1. PICK cpuRead \in BOOLEAN : Sample(cpuRead)
    BY <1>1 DEF Tick
  <2>2. op' = op /\ running' \in BOOLEAN /\ observed' = observed
    BY <1>1 DEF Tick, Inv, TypeOK
  <2>3. QED
    BY <2>1, <2>2, SampleInv
<1>2. CASE Stop
  <2>1. PICK cpuRead \in BOOLEAN : Sample(cpuRead)
    BY <1>2 DEF Stop
  <2>2. op' = op /\ running' \in BOOLEAN /\ observed' = observed
    BY <1>2 DEF Stop
  <2>3. QED
    BY <2>1, <2>2, SampleInv
<1>3. CASE Observe
  BY <1>3 DEF Observe, Inv, TypeOK
<1>4. CASE Stopped \/ UNCHANGED vars
  BY <1>4 DEF Stopped, vars, Inv, TypeOK
<1>5. QED
  BY <1>1, <1>2, <1>3, <1>4 DEF Next

\* The invariant holds in every reachable state.
LEMMA Invariance == Spec => []Inv
  BY InitInv, NextInv, PTL DEF Spec

(***************************************************************************)
(* For any even capacity, every buffer holds every stride-th reading it    *)
(* was offered, from the first one on, however often it was decimated.     *)
(***************************************************************************)
THEOREM Spacing == Spec => []EvenlySpaced
<1>1. Inv => EvenlySpaced
  <2> SUFFICES ASSUME Inv, NEW k \in Buffers, NEW i \in DOMAIN buf[k].samples
               PROVE  /\ 1 + (i - 1) * buf[k].stride \in DOMAIN admitted[k]
                      /\ buf[k].samples[i] = admitted[k][1 + (i - 1) * buf[k].stride]
    BY DEF EvenlySpaced
  <2>1. Faithful(buf[k], admitted[k])
    BY DEF Inv
  <2>2. /\ DOMAIN buf[k].samples = 1..Len(buf[k].samples)
        /\ DOMAIN admitted[k] = 1..Len(admitted[k])
    BY <2>1, LenProperties DEF Faithful, Buffer
  <2>3. QED
    BY <2>1, <2>2 DEF Faithful
<1>2. QED
  BY <1>1, Invariance, PTL

(***************************************************************************)
(* For any even capacity, the buffers stay bounded, are more than half     *)
(* full once decimated, and reach to the end of the run.                   *)
(***************************************************************************)
THEOREM Coverage == Spec => []SpansRun
<1>1. Inv => SpansRun
  <2> SUFFICES ASSUME Inv, NEW k \in Buffers
               PROVE  /\ Len(buf[k].samples) <= MaxSamples
                      /\ buf[k].stride > 1 => 2 * Len(buf[k].samples) > MaxSamples
                      /\ admitted[k] # <<>> =>
                            /\ Len(buf[k].samples) > 0
                            /\ Len(admitted[k]) <= Len(buf[k].samples) * buf[k].stride
    BY DEF SpansRun
  <2> DEFINE n == Len(buf[k].samples)
  <2> DEFINE s == buf[k].stride
  <2>1. Faithful(buf[k], admitted[k])
    BY DEF Inv
  <2>2. /\ n \in Nat /\ s \in Nat \ {0} /\ buf[k].tick \in Nat
        /\ admitted[k] \in Seq(Nat)
    BY <2>1 DEF Faithful, Buffer
  <2>3. ASSUME admitted[k] # <<>> PROVE n > 0
    BY <2>1, <2>2, <2>3, EmptySeq DEF Faithful
  <2>4. ASSUME n > 0 PROVE Len(admitted[k]) <= n * s
    <3>1. Len(admitted[k]) = 1 + (n - 1) * s + buf[k].tick /\ buf[k].tick < s
      BY <2>1, <2>4 DEF Faithful
    <3> HIDE DEF n, s
    <3>2. /\ n - 1 \in Nat /\ (n - 1) + 1 = n
          /\ (n - 1) * s \in Nat /\ ((n - 1) + 1) * s = (n - 1) * s + s
      BY <2>2, <2>4, Products
    <3>3. n * s = (n - 1) * s + s
      BY <3>2
    <3> DEFINE p == (n - 1) * s
    <3> HIDE DEF p
    <3>4. Len(admitted[k]) = 1 + p + buf[k].tick /\ n * s = p + s /\ p \in Nat
      BY <3>1, <3>2, <3>3 DEF p
    <3>5. QED
      BY <2>2, <3>1, <3>4
  <2>5. QED
    BY <2>1, <2>3, <2>4 DEF Faithful
<1>2. QED
  BY <1>1, Invariance, PTL

\* Every variable of the sampler keeps its type.
THEOREM TypeCorrect == Spec => []TypeOK
<1>1. Inv => TypeOK
  BY DEF Inv
<1>2. QED
  BY <1>1, Invariance, PTL
=============================================================================
