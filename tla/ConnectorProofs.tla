-------------------------- MODULE ConnectorProofs ---------------------------
(***************************************************************************)
(* The connectors of an operation. For any packages, configurations and    *)
(* sequence of loads and unloads: ConnectsAsConfigured and StorageNewSound *)
(* of Registry. The inductive invariant says that the registry has exactly *)
(* the keys of the loaded packages, and under each of them a plugin of one *)
(* of these with that key; that a key tells name, version, type and, where *)
(* it counts, protocol is why it is enough.                                *)
(***************************************************************************)
EXTENDS Registry, PluginConn, SequenceTheorems, WellFoundedInduction, TLAPS

-----------------------------------------------------------------------------
(* Keys *)

\* A set of natural numbers that is not empty has a least element.
LEMMA Least ==
    ASSUME NEW A, A \subseteq Nat, A # {}
    PROVE  \E i \in A : \A j \in A : i <= j
<1> DEFINE R == OpToRel(<, Nat)
<1>1. IsWellFoundedOn(R, Nat) BY NatLessThanWellFounded
<1>2. \A i, j \in Nat : j < i => <<j, i>> \in R BY DEF OpToRel
<1> HIDE DEF R
<1>3. PICK i \in A : \A j \in A : ~(<<j, i>> \in R) BY <1>1, WFMin
<1>4. ASSUME NEW j \in A PROVE i <= j
  <2>1. i \in Nat /\ j \in Nat OBVIOUS
  <2>2. ~(j < i) BY <1>2, <1>3, <2>1
  <2> QED BY <2>1, <2>2
<1> QED BY <1>4

\* The part of a text before its first separator is no shorter than another's.
LEMMA FirstSeparator ==
    ASSUME NEW S, NEW x \in S, NEW a \in Seq(S), NEW b \in Seq(S),
           NEW r \in Seq(S), NEW s \in Seq(S),
           \A i \in 1..Len(b) : b[i] # x,
           a \o (<<x>> \o r) = b \o (<<x>> \o s)
    PROVE  Len(b) <= Len(a)
<1> DEFINE m == Len(a)
           l == Len(b)
           u == <<x>> \o r
           v == <<x>> \o s
<1>1. m \in Nat /\ l \in Nat OBVIOUS
<1>2. /\ u \in Seq(S) /\ v \in Seq(S) /\ Len(u) \in Nat \ {0} /\ Len(v) \in Nat
      /\ u[1] = x
  OBVIOUS
<1> HIDE DEF u, v
<1>3. (a \o u)[m + 1] = u[1] BY <1>1, <1>2, ConcatProperties
<1>4. m + 1 <= l => (b \o v)[m + 1] = b[m + 1] BY <1>1, <1>2, ConcatProperties
<1>5. ~(m + 1 <= l) BY <1>1, <1>2, <1>3, <1>4 DEF u, v
<1> QED BY <1>1, <1>5

\* Concatenation, and the absence of a separator.
Cat(f, g) == f \o g

Plain(f, x) == \A i \in 1..Len(f) : f[i] # x

\* So it is read back from the text, and so is the rest.
LEMMA Separated ==
    ASSUME NEW S, NEW x \in S, NEW a \in Seq(S), NEW b \in Seq(S),
           NEW r \in Seq(S), NEW s \in Seq(S),
           Plain(a, x), Plain(b, x), Cat(a, Cat(<<x>>, r)) = Cat(b, Cat(<<x>>, s))
    PROVE  a = b /\ r = s
<1>0. /\ \A i \in 1..Len(a) : a[i] # x
      /\ \A i \in 1..Len(b) : b[i] # x
      /\ a \o (<<x>> \o r) = b \o (<<x>> \o s)
  BY DEF Cat, Plain
<1> DEFINE u == <<x>> \o r
           v == <<x>> \o s
<1>1. Len(a) = Len(b)
  <2>1. Len(a) <= Len(b) BY <1>0, FirstSeparator
  <2>2. Len(b) <= Len(a) BY <1>0, FirstSeparator
  <2> QED BY <2>1, <2>2
<1>2. u \in Seq(S) /\ v \in Seq(S) OBVIOUS
<1>3. a \o u = b \o v BY <1>0
<1> HIDE DEF u, v
<1>4. a = b
  <2>1. \A i \in 1..Len(a) : (a \o u)[i] = a[i] /\ (b \o v)[i] = b[i]
    BY <1>1, <1>2, ConcatProperties
  <2>2. \A i \in 1..Len(a) : a[i] = b[i] BY <1>3, <2>1
  <2> QED BY <1>1, <2>2, SeqEqual
<1>5. u = v BY <1>2, <1>3, <1>4, ConcatSimplifications
<1>6. r = s
  <2>1. <<x>> \in Seq(S) OBVIOUS
  <2>2. <<x>> \o r = <<x>> \o s BY <1>5 DEF u, v
  <2> QED BY <2>1, <2>2, ConcatSimplifications
<1> QED BY <1>4, <1>6

\* What is needed of concatenation.
LEMMA CatFacts ==
    ASSUME NEW S
    PROVE  /\ \A f, g \in Seq(S) : Cat(f, g) \in Seq(S)
           /\ \A f, g, h \in Seq(S) : Cat(Cat(f, g), h) = Cat(f, Cat(g, h))
           /\ \A f, g, h \in Seq(S) : Cat(f, g) = Cat(f, h) => g = h
<1>1. \A f, g \in Seq(S) : Cat(f, g) \in Seq(S) BY ConcatProperties DEF Cat
<1>2. \A f, g, h \in Seq(S) : Cat(Cat(f, g), h) = Cat(f, Cat(g, h))
  BY ConcatAssociative DEF Cat
<1>3. \A f, g, h \in Seq(S) : Cat(f, g) = Cat(f, h) => g = h
  BY ConcatSimplifications DEF Cat
<1> QED BY <1>1, <1>2, <1>3

LEMMA CatSeparated ==
    ASSUME NEW S, NEW x \in S
    PROVE  \A f, g, r, s \in Seq(S) :
               Plain(f, x) /\ Plain(g, x)
                   /\ Cat(f, Cat(<<x>>, r)) = Cat(g, Cat(<<x>>, s))
               => f = g /\ r = s
  BY Separated

\* A type is read back from what follows it.
LEMMA CatHead ==
    ASSUME NEW S, NEW x \in S, NEW t \in S, NEW u \in S,
           NEW v \in Seq(S), NEW w \in Seq(S), Cat(<<t, x>>, v) = Cat(<<u, x>>, w)
    PROVE  t = u
<1>1. (<<t, x>> \o v)[1] = t /\ (<<u, x>> \o w)[1] = u OBVIOUS
<1> QED BY <1>1 DEF Cat

\* The parts of a key are texts.
LEMMA CatType ==
    ASSUME NEW S, NEW x \in S, NEW t \in S
    PROVE  /\ <<x>> \in Seq(S) /\ <<t, x>> \in Seq(S) /\ <<x, t, x>> \in Seq(S)
           /\ <<x, t, x>> = Cat(<<x>>, <<t, x>>)
  BY DEF Cat

\* The separator splits a key as it was put together.
LEMMA KeyShape ==
    ASSUME NEW S, NEW x \in S, NEW a \in Seq(S), NEW b \in Seq(S), NEW t \in S,
           NEW w \in Seq(S)
    PROVE  Cat(Cat(Cat(Cat(a, <<x>>), b), <<x, t, x>>), w)
               = Cat(a, Cat(<<x>>, Cat(b, Cat(<<x>>, Cat(<<t, x>>, w)))))
<1> DEFINE Q    == Seq(S)
           sep  == <<x>>
           mid  == <<x, t, x>>
           tail == <<t, x>>
           A    == Cat(a, sep)
           B    == Cat(b, mid)
           z    == Cat(tail, w)
           y    == Cat(b, Cat(sep, z))
<1>1. sep \in Q /\ mid \in Q /\ tail \in Q /\ mid = Cat(sep, tail) BY CatType
<1>2. \A f, g \in Q : Cat(f, g) \in Q BY CatFacts
<1>assoc. \A f, g, h \in Q : Cat(Cat(f, g), h) = Cat(f, Cat(g, h)) BY CatFacts
<1>3. a \in Q /\ b \in Q /\ w \in Q OBVIOUS
<1> HIDE DEF Q, sep, mid, tail
<1>4. A \in Q /\ B \in Q /\ z \in Q BY <1>1, <1>2, <1>3
<1>5. y \in Q BY <1>1, <1>2, <1>3, <1>4
<1>6. Cat(Cat(A, b), mid) = Cat(A, B)
  <2>1. A \in Q /\ b \in Q /\ mid \in Q BY <1>1, <1>3, <1>4
  <2> HIDE DEF A
  <2> QED BY <2>1, <1>assoc
<1>7. Cat(Cat(A, B), w) = Cat(A, Cat(B, w))
  <2>1. A \in Q /\ B \in Q /\ w \in Q BY <1>3, <1>4
  <2> HIDE DEF A, B
  <2> QED BY <2>1, <1>assoc
<1>8. Cat(B, w) = Cat(b, Cat(mid, w))
  <2>1. b \in Q /\ mid \in Q /\ w \in Q BY <1>1, <1>3
  <2> QED BY <2>1, <1>assoc
<1>9. Cat(mid, w) = Cat(sep, z)
  <2>1. sep \in Q /\ tail \in Q /\ w \in Q BY <1>1, <1>3
  <2>2. Cat(Cat(sep, tail), w) = Cat(sep, Cat(tail, w)) BY <2>1, <1>assoc
  <2> QED BY <1>1, <2>2
<1>10. Cat(A, y) = Cat(a, Cat(sep, y))
  <2>1. a \in Q /\ sep \in Q /\ y \in Q BY <1>1, <1>3, <1>5
  <2> HIDE DEF y
  <2> QED BY <2>1, <1>assoc
<1>11. Cat(Cat(Cat(Cat(a, sep), b), mid), w) = Cat(a, Cat(sep, y))
  BY <1>6, <1>7, <1>8, <1>9, <1>10
<1> QED BY <1>11 DEF sep, mid, tail

\* The last part of a key.
ProtocolPart(type, protocol) == IF type \in Unkeyed THEN <<>> ELSE <<protocol>>

\* A key tells a name, a version, a type and, where it counts, a protocol.
LEMMA KeyTells ==
    ASSUME NEW a \in Seq(Tokens), NEW b \in Seq(Tokens), NEW t, NEW p,
           NEW c \in Seq(Tokens), NEW d \in Seq(Tokens), NEW u, NEW q,
           makePluginKey(a, b, t, p) = makePluginKey(c, d, u, q)
    PROVE  a = c /\ b = d /\ t = u /\ (t \notin Unkeyed => p = q)
<1> DEFINE S == Tokens \cup {":", t, u, p, q}
           Q == Seq(S)
           x == ":"
           v == ProtocolPart(t, p)
           w == ProtocolPart(u, q)
<1>1. /\ a \in Q /\ Plain(a, x) /\ b \in Q /\ Plain(b, x)
      /\ c \in Q /\ Plain(c, x) /\ d \in Q /\ Plain(d, x)
  BY RegistryAssumption DEF Plain
<1>2. x \in S /\ t \in S /\ u \in S /\ p \in S /\ q \in S OBVIOUS
<1>3. v \in Q /\ w \in Q
  <2>1. <<>> \in Q /\ <<p>> \in Q /\ <<q>> \in Q BY <1>2
  <2> QED BY <2>1 DEF ProtocolPart
<1>4. Cat(Cat(Cat(Cat(a, <<x>>), b), <<x, t, x>>), v)
          = Cat(Cat(Cat(Cat(c, <<x>>), d), <<x, u, x>>), w)
  BY DEF makePluginKey, ProtocolPart, Cat
<1> HIDE DEF S, v, w, x
<1> DEFINE tv == Cat(<<t, x>>, v)
           uw == Cat(<<u, x>>, w)
           bv == Cat(b, Cat(<<x>>, tv))
           dw == Cat(d, Cat(<<x>>, uw))
<1>5. Cat(a, Cat(<<x>>, bv)) = Cat(c, Cat(<<x>>, dw))
  <2>1. Cat(Cat(Cat(Cat(a, <<x>>), b), <<x, t, x>>), v) = Cat(a, Cat(<<x>>, bv))
    BY <1>1, <1>2, <1>3, KeyShape
  <2>2. Cat(Cat(Cat(Cat(c, <<x>>), d), <<x, u, x>>), w) = Cat(c, Cat(<<x>>, dw))
    BY <1>1, <1>2, <1>3, KeyShape
  <2> QED BY <1>4, <2>1, <2>2
<1>6. /\ <<x>> \in Q /\ <<t, x>> \in Q /\ <<u, x>> \in Q
      /\ tv = uw => t = u
  <2>1. <<x>> \in Q /\ <<t, x>> \in Q BY <1>2, CatType
  <2>2. <<u, x>> \in Q BY <1>2, CatType
  <2>3. ASSUME tv = uw PROVE t = u BY <1>2, <1>3, <2>3, CatHead
  <2> QED BY <2>1, <2>2, <2>3
<1>7. \A f, g, r, s \in Q :
         Plain(f, x) /\ Plain(g, x) /\ Cat(f, Cat(<<x>>, r)) = Cat(g, Cat(<<x>>, s))
             => f = g /\ r = s
  BY <1>2, CatSeparated
<1>8. /\ \A f, g \in Q : Cat(f, g) \in Q
      /\ \A f, g, h \in Q : Cat(f, g) = Cat(f, h) => g = h
  BY CatFacts
<1> HIDE DEF Q
<1>9. tv \in Q /\ uw \in Q BY <1>3, <1>6, <1>8
<1>10. bv \in Q /\ dw \in Q BY <1>1, <1>6, <1>8, <1>9
<1>11. a = c /\ bv = dw
  <2> HIDE DEF bv, dw
  <2>1. Plain(a, x) /\ Plain(c, x) /\ a \in Q /\ c \in Q BY <1>1
  <2> QED BY <1>5, <1>7, <1>10, <2>1
<1>12. b = d /\ tv = uw
  <2>1. Plain(b, x) /\ Plain(d, x) /\ b \in Q /\ d \in Q BY <1>1
  <2> HIDE DEF tv, uw
  <2> QED BY <1>7, <1>9, <1>11, <2>1
<1>13. t = u BY <1>6, <1>12
<1>14. v = w BY <1>3, <1>6, <1>8, <1>12, <1>13
<1>15. t \notin Unkeyed => p = q
  <2> SUFFICES ASSUME t \notin Unkeyed PROVE p = q OBVIOUS
  <2>1. <<p>> = <<q>> BY <1>13, <1>14 DEF v, w, ProtocolPart
  <2> QED BY <2>1
<1> QED BY <1>11, <1>12, <1>13, <1>15

-----------------------------------------------------------------------------
(* The registry *)

\* A plugin has the name and the version of its package.
LEMMA PluginOfPackage ==
    ASSUME NEW pkg \in Packages, NEW p \in ToSet(Plugins(pkg))
    PROVE  /\ p.name = pkg.name /\ p.version = pkg.version
           /\ p.name \in Seq(Tokens) /\ p.version \in Seq(Tokens)
<1>1. PICK i \in DOMAIN pkg.connectors : p = Plugins(pkg)[i]
  BY DEF ToSet, Plugins
<1>2. p.name = pkg.name /\ p.version = pkg.version BY <1>1 DEF Plugins
<1> QED BY <1>2, RegistryAssumption

\* Packages share no key.
LEMMA KeyOfOne ==
    ASSUME NEW pkg \in Packages, NEW other \in Packages,
           NEW k \in Keys(pkg), k \in Keys(other)
    PROVE  pkg = other
<1>1. PICK p \in ToSet(Plugins(pkg)) : k = key(p) BY DEF Keys
<1>2. PICK q \in ToSet(Plugins(other)) : k = key(q) BY DEF Keys
<1>3. p.name = q.name /\ p.version = q.version
  <2>1. /\ p.name \in Seq(Tokens) /\ p.version \in Seq(Tokens)
        /\ q.name \in Seq(Tokens) /\ q.version \in Seq(Tokens)
    BY PluginOfPackage
  <2>2. makePluginKey(p.name, p.version, p.type, p.protocol)
            = makePluginKey(q.name, q.version, q.type, q.protocol)
    BY <1>1, <1>2 DEF key
  <2> QED BY <2>1, <2>2, KeyTells
<1>4. pkg.name = other.name /\ pkg.version = other.version
  BY <1>3, PluginOfPackage
<1> QED BY <1>4, RegistryAssumption

\* What is registered under a key of a package is a plugin of it with that key.
LEMMA FirstRegistered ==
    ASSUME NEW pkg \in Packages, NEW k \in Keys(pkg)
    PROVE  /\ registerPlugin(Plugins(pkg), k) \in ToSet(Plugins(pkg))
           /\ key(registerPlugin(Plugins(pkg), k)) = k
<1> DEFINE ps == Plugins(pkg)
           A  == {i \in DOMAIN ps : key(ps[i]) = k}
<1>1. DOMAIN ps \subseteq Nat BY RegistryAssumption DEF Plugins
<1>2. A \subseteq Nat /\ A # {} BY <1>1 DEF Keys, ToSet
<1>3. \E i \in A : \A j \in A : i <= j BY <1>2, Least
<1> HIDE DEF ps
<1>4. \E i \in DOMAIN ps : /\ key(ps[i]) = k
                           /\ \A j \in DOMAIN ps : key(ps[j]) = k => i <= j
  BY <1>3
<1> DEFINE c == CHOOSE i \in DOMAIN ps :
                    /\ key(ps[i]) = k
                    /\ \A j \in DOMAIN ps : key(ps[j]) = k => i <= j
<1>5. c \in DOMAIN ps /\ key(ps[c]) = k BY <1>4
<1>6. registerPlugin(ps, k) = ps[c] BY DEF registerPlugin
<1> HIDE DEF c
<1> QED BY <1>5, <1>6 DEF ToSet, ps

\* The keys are those of the loaded packages, and each has a plugin of its own.
Registered ==
    /\ loaded \subseteq Packages
    /\ DOMAIN plugins = UNION {Keys(pkg) : pkg \in loaded}
    /\ \A k \in DOMAIN plugins :
           /\ key(plugins[k]) = k
           /\ \E pkg \in loaded : plugins[k] \in ToSet(Plugins(pkg))

\* kloset's registry refers to packages, loaded or not.
Referred ==
    \A proto \in DOMAIN storages : \E pkg \in Packages :
        storages[proto] = [name |-> pkg.name, version |-> pkg.version]

\* The inductive invariant.
RegistryInv == Registered /\ Referred /\ ConnectsAsConfigured /\ StorageNewSound

\* A plugin is found for what it is registered as, and is one of a loaded package.
LEMMA Resolved ==
    ASSUME Registered, NEW name \in Seq(Tokens), NEW version \in Seq(Tokens),
           NEW type, NEW protocol, GetPlugin(name, version, type, protocol) # Failed
    PROVE  \E pkg \in loaded : \E p \in ToSet(Plugins(pkg)) :
               /\ GetPlugin(name, version, type, protocol) = Via(p)
               /\ p.name = name /\ p.version = version /\ p.type = type
               /\ type \notin Unkeyed => p.protocol = protocol
<1> DEFINE k == makePluginKey(name, version, type, protocol)
           p == plugins[k]
<1>1. k \in DOMAIN plugins /\ GetPlugin(name, version, type, protocol) = Via(p)
  BY DEF GetPlugin
<1>2. key(p) = k BY <1>1 DEF Registered
<1>3. PICK pkg \in loaded : p \in ToSet(Plugins(pkg)) BY <1>1 DEF Registered
<1>4. p.name \in Seq(Tokens) /\ p.version \in Seq(Tokens)
  BY <1>3, PluginOfPackage DEF Registered
<1>5. makePluginKey(p.name, p.version, p.type, p.protocol)
          = makePluginKey(name, version, type, protocol)
  BY <1>2 DEF key
<1> HIDE DEF p
<1>6. /\ p.name = name /\ p.version = version /\ p.type = type
      /\ p.type \notin Unkeyed => p.protocol = protocol
  BY <1>4, <1>5, KeyTells
<1> QED BY <1>1, <1>3, <1>6

\* What a loaded package offers is found.
LEMMA Found ==
    ASSUME Registered, NEW pkg \in loaded, NEW p \in ToSet(Plugins(pkg)),
           NEW protocol, p.type \notin Unkeyed => p.protocol = protocol
    PROVE  GetPlugin(p.name, p.version, p.type, protocol) # Failed
<1>1. key(p) \in DOMAIN plugins BY DEF Registered, Keys
<1>2. key(p) = makePluginKey(p.name, p.version, p.type, protocol)
  BY DEF key, makePluginKey
<1> QED BY <1>1, <1>2 DEF GetPlugin, Via, Failed

\* A load adds the keys of the package and leaves those that are there.
LEMMA LoadKeeps ==
    ASSUME RegistryInv, NEW pkg \in Packages, pkgLoadHook(pkg)
    PROVE  RegistryInv'
<1>1. /\ loaded' = loaded \cup {pkg} /\ plugins' = RegisterPlugins(pkg)
      /\ storages' = registerStorages(pkg)
      /\ request' = Idle /\ outcome' = Failed
  BY DEF pkgLoadHook
<1>2. Registered BY DEF RegistryInv
<1>3. /\ DOMAIN plugins' = DOMAIN plugins \cup Keys(pkg)
      /\ \A k \in DOMAIN plugins : plugins'[k] = plugins[k]
      /\ \A k \in Keys(pkg) \ DOMAIN plugins :
             plugins'[k] = registerPlugin(Plugins(pkg), k)
  BY <1>1 DEF RegisterPlugins
<1>4. Registered'
  <2>1. loaded' \subseteq Packages BY <1>1, <1>2 DEF Registered
  <2>2. DOMAIN plugins' = UNION {Keys(p) : p \in loaded'}
    BY <1>1, <1>2, <1>3 DEF Registered
  <2>3. ASSUME NEW k \in DOMAIN plugins'
        PROVE  /\ key(plugins'[k]) = k
               /\ \E p \in loaded' : plugins'[k] \in ToSet(Plugins(p))
    <3>1. CASE k \in DOMAIN plugins
      BY <1>1, <1>2, <1>3, <3>1 DEF Registered
    <3>2. CASE k \notin DOMAIN plugins
      <4>1. k \in Keys(pkg) BY <1>3, <3>2
      <4> QED BY <1>1, <1>3, <3>2, <4>1, FirstRegistered
    <3> QED BY <3>1, <3>2
  <2> QED BY <2>1, <2>2, <2>3 DEF Registered
<1>5. Referred'
  <2> SUFFICES ASSUME NEW proto \in DOMAIN storages'
               PROVE  \E p \in Packages :
                          storages'[proto] = [name |-> p.name, version |-> p.version]
    BY DEF Referred
  <2>1. CASE proto \in DOMAIN storages
    BY <1>1, <2>1 DEF RegistryInv, Referred, registerStorages
  <2>2. CASE proto \notin DOMAIN storages
    BY <1>1, <2>2 DEF registerStorages
  <2> QED BY <2>1, <2>2
<1>6. ConnectsAsConfigured' /\ StorageNewSound'
  BY <1>1 DEF ConnectsAsConfigured, StorageNewSound, Idle
<1> QED BY <1>4, <1>5, <1>6 DEF RegistryInv

\* An unload takes out the keys of the package, which are nobody else's.
LEMMA UnloadKeeps ==
    ASSUME RegistryInv, NEW pkg \in Packages, pkgUnloadHook(pkg)
    PROVE  RegistryInv'
<1>1. /\ loaded' = loaded \ {pkg} /\ plugins' = Without(plugins, Keys(pkg))
      /\ storages' = Without(storages, StorageProtocols(pkg))
      /\ request' = Idle /\ outcome' = Failed
  BY DEF pkgUnloadHook, UnregisterPlugins
<1>2. Registered BY DEF RegistryInv
<1>3. /\ DOMAIN plugins' = DOMAIN plugins \ Keys(pkg)
      /\ \A k \in DOMAIN plugins' : plugins'[k] = plugins[k]
  BY <1>1 DEF Without
<1>4. Registered'
  <2>1. loaded' \subseteq Packages BY <1>1, <1>2 DEF Registered
  <2>2. DOMAIN plugins' = UNION {Keys(p) : p \in loaded'}
    <3>1. \A p \in loaded' : Keys(p) \cap Keys(pkg) = {}
      BY <1>1, <2>1, KeyOfOne
    <3>2. DOMAIN plugins = UNION {Keys(p) : p \in loaded} BY <1>2 DEF Registered
    <3>3. \A p \in loaded : p = pkg \/ p \in loaded' BY <1>1
    <3>4. loaded' \subseteq loaded BY <1>1
    <3> QED BY <1>3, <3>1, <3>2, <3>3, <3>4
  <2>3. ASSUME NEW k \in DOMAIN plugins'
        PROVE  /\ key(plugins'[k]) = k
               /\ \E p \in loaded' : plugins'[k] \in ToSet(Plugins(p))
    <3>1. k \in DOMAIN plugins /\ k \notin Keys(pkg) /\ plugins'[k] = plugins[k]
      BY <1>3
    <3>2. key(plugins[k]) = k BY <1>2, <3>1 DEF Registered
    <3>3. PICK p \in loaded : plugins[k] \in ToSet(Plugins(p))
      BY <1>2, <3>1 DEF Registered
    <3>4. p # pkg BY <3>1, <3>2, <3>3 DEF Keys
    <3> QED BY <1>1, <3>1, <3>2, <3>3, <3>4
  <2> QED BY <2>1, <2>2, <2>3 DEF Registered
<1>5. Referred' BY <1>1 DEF RegistryInv, Referred, Without
<1>6. ConnectsAsConfigured' /\ StorageNewSound'
  BY <1>1 DEF ConnectsAsConfigured, StorageNewSound, Idle
<1> QED BY <1>4, <1>5, <1>6 DEF RegistryInv

\* A connector is made as configured.
LEMMA MakeKeeps ==
    ASSUME RegistryInv, NEW conf \in Configs, NEW type \in Types, Make(conf, type)
    PROVE  RegistryInv'
<1> DEFINE proto == protocolOf(conf)
           found == GetPlugin(conf.name, conf.version, type, proto)
           rest  == IF type \in {"importer", "exporter"} THEN Builtin ELSE Failed
<1>1. /\ request' = [kind |-> "connector", conf |-> conf, type |-> type]
      /\ UNCHANGED <<plugins, storages, loaded>>
  BY DEF Make
<1>2. conf.name # <<"fs">> => outcome' = IF found # Failed THEN found ELSE rest
  BY DEF Make, pluginFor
<1>3. conf.name \in Seq(Tokens) /\ conf.version \in Seq(Tokens)
  BY RegistryAssumption
<1>4. Registered /\ Referred BY DEF RegistryInv
<1>5. Registered' /\ Referred' BY <1>1, <1>4 DEF Registered, Referred
<1>6. StorageNewSound' BY <1>1 DEF StorageNewSound
<1>7. type \in Unkeyed <=> type = "inventory" BY DEF Types, Unkeyed
<1>8. ConnectsAsConfigured'
  <2> SUFFICES ASSUME conf.name # <<"fs">>
               PROVE  LET offers == Offered(conf, type) IN
                      IF offers # {}
                      THEN /\ outcome'.how = "plugin"
                           /\ outcome'.plugin.exec \in offers
                           /\ outcome'.plugin.type = type
                      ELSE outcome' = rest
    BY <1>1 DEF ConnectsAsConfigured, Offered
  <2>1. CASE found # Failed
    <3>0. PICK pkg \in loaded : \E p \in ToSet(Plugins(pkg)) :
             /\ found = Via(p)
             /\ p.name = conf.name /\ p.version = conf.version /\ p.type = type
             /\ type \notin Unkeyed => p.protocol = proto
      BY <1>3, <1>4, <2>1, Resolved
    <3>1. PICK p \in ToSet(Plugins(pkg)) :
             /\ found = Via(p)
             /\ p.name = conf.name /\ p.version = conf.version /\ p.type = type
             /\ type \notin Unkeyed => p.protocol = proto
      BY <3>0
    <3>2. p.exec \in Offered(conf, type) BY <1>7, <3>1 DEF Offered
    <3>3. outcome' = [how |-> "plugin", plugin |-> p]
      BY <1>2, <2>1, <3>1 DEF Via
    <3> QED BY <3>1, <3>2, <3>3
  <2>2. CASE found = Failed
    <3>1. Offered(conf, type) = {}
      <4> SUFFICES ASSUME NEW pkg \in loaded, NEW p \in ToSet(Plugins(pkg)),
                          p.name = conf.name, p.version = conf.version, p.type = type,
                          type = "inventory" \/ p.protocol = proto
                   PROVE  FALSE
        BY DEF Offered
      <4>1. p.type \notin Unkeyed => p.protocol = proto BY <1>7
      <4>2. GetPlugin(p.name, p.version, p.type, proto) # Failed
        BY <1>4, <4>1, Found
      <4> QED BY <2>2, <4>2
    <3> QED BY <1>2, <2>2, <3>1
  <2> QED BY <2>1, <2>2
<1> QED BY <1>5, <1>6, <1>8 DEF RegistryInv

\* What storage.New runs is a storage plugin of a loaded package.
LEMMA StorageNewKeeps ==
    ASSUME RegistryInv, NEW proto, StorageNew(proto)
    PROVE  RegistryInv'
<1>1. /\ request' = [kind |-> "storage.New", proto |-> proto]
      /\ UNCHANGED <<plugins, storages, loaded>>
  BY DEF StorageNew
<1>2. Registered /\ Referred BY DEF RegistryInv
<1>3. Registered' /\ Referred' BY <1>1, <1>2 DEF Registered, Referred
<1>4. ConnectsAsConfigured' BY <1>1 DEF ConnectsAsConfigured
<1>5. StorageNewSound'
  <2> SUFFICES ASSUME outcome'.how = "plugin"
               PROVE  \E pkg \in loaded : \E p \in ToSet(Plugins(pkg)) :
                          /\ p.type = "storage" /\ p.protocol = proto
                          /\ p = outcome'.plugin
    BY <1>1 DEF StorageNewSound
  <2>1. proto \in DOMAIN storages BY DEF StorageNew, Failed
  <2>2. PICK from \in Packages :
           storages[proto] = [name |-> from.name, version |-> from.version]
    BY <1>2, <2>1 DEF Referred
  <2> DEFINE found == GetPlugin(from.name, from.version, "storage", proto)
  <2>3. outcome' = found BY <2>1, <2>2 DEF StorageNew
  <2>4. found # Failed BY <2>3 DEF Failed
  <2>5. from.name \in Seq(Tokens) /\ from.version \in Seq(Tokens)
    BY RegistryAssumption
  <2>6. \E pkg \in loaded : \E p \in ToSet(Plugins(pkg)) :
           /\ found = Via(p) /\ p.type = "storage"
           /\ "storage" \notin Unkeyed => p.protocol = proto
    BY <1>2, <2>4, <2>5, Resolved
  <2>7. \A p : found = Via(p) => outcome'.plugin = p BY <2>3 DEF Via
  <2> QED BY <2>6, <2>7 DEF Unkeyed
<1> QED BY <1>3, <1>4, <1>5 DEF RegistryInv

\* The registry's invariant holds in every reachable state.
LEMMA RegistryInvariant == Spec => []RegistryInv
<1>1. Init => RegistryInv
  BY DEF Init, RegistryInv, Registered, Referred, ConnectsAsConfigured,
         StorageNewSound, Idle
<1>2. RegistryInv /\ [Next]_vars => RegistryInv'
  <2> SUFFICES ASSUME RegistryInv, [Next]_vars PROVE RegistryInv'
    OBVIOUS
  <2>1. CASE UNCHANGED vars
    BY <2>1 DEF vars, RegistryInv, Registered, Referred, ConnectsAsConfigured,
                StorageNewSound, Offered
  <2> QED
    BY <2>1, LoadKeeps, UnloadKeeps, MakeKeeps, StorageNewKeeps DEF Next
<1> QED BY <1>1, <1>2, PTL DEF Spec

(***************************************************************************)
(* After any sequence of loads and unloads, of any packages, a connector   *)
(* runs what a loaded package has for its name, version, type and          *)
(* protocol, and what is compiled in, or an error, only where none has.    *)
(***************************************************************************)
THEOREM ConnectedAsConfigured == Spec => []ConnectsAsConfigured
<1>1. RegistryInv => ConnectsAsConfigured BY DEF RegistryInv
<1> QED BY <1>1, RegistryInvariant, PTL

\* storage.New never dispatches to a plugin that is gone, or of another protocol.
THEOREM StorageNewIsSound == Spec => []StorageNewSound
<1>1. RegistryInv => StorageNewSound BY DEF RegistryInv
<1> QED BY <1>1, RegistryInvariant, PTL

-----------------------------------------------------------------------------
(* The connections *)

\* The connector that is being opened or given up.
Pending == pc \in {"init", "discard"}

\* How many connectors are open where.
Counted ==
    /\ pc = "open" \/ Pending => n < N
    /\ pc \in {"closing", "cut"} => n > 0
    /\ pc = "returned" => n = 0

\* No plugin beyond the open connectors and the pending one is connected.
Unopened ==
    \A c \in 1..N : c > n /\ ~(Pending /\ c = n + 1) =>
                        plugin[c] \in {"none", "exited"} /\ pipe[c] # "open"

\* A connector is cut off for a reason.
MayCut ==
    pc = "cut" => plugin[n] = "exited" \/ n \in served \/ timer = "expired"

\* The inductive invariant.
IInv == TypeOK /\ Counted /\ Unopened /\ MayCut

\* The initial states satisfy the invariant.
LEMMA InitIInv == ConnInit => IInv
  BY NAssumption DEF ConnInit, IInv, TypeOK, Counted, Unopened, MayCut, Pending

\* Every step preserves the invariant.
LEMMA NextIInv == IInv /\ [ConnNext]_connVars => IInv'
<1> SUFFICES ASSUME IInv, [ConnNext]_connVars PROVE IInv'
  OBVIOUS
<1> USE NAssumption DEF IInv, TypeOK, Counted, Unopened, MayCut, Pending
<1>1. CASE Spawn BY <1>1 DEF Spawn
<1>2. CASE SpawnFails BY <1>2 DEF SpawnFails
<1>3. CASE Initialized BY <1>3 DEF Initialized
<1>4. CASE InitFails BY <1>4 DEF InitFails, AfterInitFailed
<1>5. CASE Discard BY <1>5 DEF Discard
<1>6. CASE Discarded BY <1>6 DEF Discarded
<1>7. CASE Work BY <1>7 DEF Work
<1>8. CASE EnsureClose BY <1>8 DEF EnsureClose
<1>9. CASE CloseServed BY <1>9 DEF CloseServed
<1>10. CASE CloseFails BY <1>10 DEF CloseFails, CloseContextDone
<1>11. CASE Cut BY <1>11 DEF Cut
<1>12. CASE Closed BY <1>12 DEF Closed
<1>13. CASE Expire BY <1>13 DEF Expire
<1>14. CASE Cancel BY <1>14 DEF Cancel
<1>15. ASSUME NEW c \in 1..N, Hang(c) PROVE IInv' BY <1>15 DEF Hang
<1>16. ASSUME NEW c \in 1..N, Die(c) PROVE IInv' BY <1>16 DEF Die
<1>17. CASE UNCHANGED connVars BY <1>17 DEF connVars
<1> QED
  BY <1>1, <1>2, <1>3, <1>4, <1>5, <1>6, <1>7, <1>8, <1>9, <1>10, <1>11, <1>12,
     <1>13, <1>14, <1>15, <1>16, <1>17 DEF ConnNext, Operation,
            Returned

\* The invariant holds in every reachable state.
LEMMA ConnInvariant == ConnSpec => []IInv
  BY InitIInv, NextIInv, PTL DEF ConnSpec

\* Every variable keeps its type, for any number of connectors.
THEOREM ConnTypeCorrect == ConnSpec => []TypeOK
<1>1. IInv => TypeOK BY DEF IInv
<1> QED BY <1>1, ConnInvariant, PTL

\* An operation with any number of connectors leaves no plugin process behind.
THEOREM NoOrphans == ConnSpec => []NoOrphan
<1>1. IInv => NoOrphan
  BY DEF IInv, TypeOK, Counted, Unopened, Pending, NoOrphan
<1> QED BY <1>1, ConnInvariant, PTL

(***************************************************************************)
(* A plugin that works is cut off only after its Close, or after the close *)
(* delay, whatever was cancelled.                                          *)
(***************************************************************************)
THEOREM ClosedBeforeCut == ConnSpec => CloseBeforeCut
<1> DEFINE A == \A c \in 1..N :
        pc = "cut" /\ plugin[c] = "running" /\ pipe[c] = "open" /\ pipe'[c] = "cut"
            => c \in served \/ timer = "expired"
<1>1. ASSUME IInv, [ConnNext]_connVars PROVE [A]_connVars
  <2> SUFFICES ASSUME NEW c \in 1..N, pc = "cut", plugin[c] = "running",
                      pipe[c] = "open", pipe'[c] = "cut"
               PROVE  c \in served \/ timer = "expired"
    OBVIOUS
  <2>1. c = n
    BY <1>1 DEF IInv, TypeOK, ConnNext, Operation, Spawn,
                SpawnFails, Initialized, InitFails, Discard,
                Discarded, Work, EnsureClose, CloseServed,
                CloseFails, Cut, Closed, Expire, Cancel,
                Returned, Hang, Die, connVars
  <2> QED BY <1>1, <2>1 DEF IInv, MayCut
<1> QED BY <1>1, ConnInvariant, PTL DEF ConnSpec, CloseBeforeCut
=============================================================================
