------------------------- MODULE StamperRows_proofs -------------------------
(***************************************************************************)
(* What the rows stamping writes say together, for every design whose      *)
(* templates have indices and levels of their own: the nodes of the tree   *)
(* are numbered among their siblings, the numbers of the seal are those of *)
(* the rows, each interface port is bound as the design says, and the      *)
(* dependencies are those of the templates, with ends and evidence of the  *)
(* instance they are of, none lost and none written twice.                 *)
(***************************************************************************)
EXTENDS Stamper_proofs

-----------------------------------------------------------------------------
(* The numbers of siblings.                                                *)

\* The nodes of a body, in the order in which it is stamped.
LEMMA LevelsOf ==
    ASSUME NEW b \in Body
    PROVE  /\ Levels(b) \in Seq(Nat)
           /\ Len(Levels(b)) = Len(b.scopes) + Len(b.prims) + Len(b.children)
           /\ \A i \in 1..Len(b.scopes) : Levels(b)[i] = b.scopes[i].parent
           /\ \A i \in 1..Len(b.prims) : Levels(b)[Len(b.scopes) + i] = b.prims[i].scope
           /\ \A i \in 1..Len(b.children) :
                Levels(b)[Len(b.scopes) + Len(b.prims) + i] = b.children[i].scope
<1> DEFINE s == [i \in 1..Len(b.scopes) |-> b.scopes[i].parent]
           p == [i \in 1..Len(b.prims) |-> b.prims[i].scope]
           c == [i \in 1..Len(b.children) |-> b.children[i].scope]
<1>1. /\ b.scopes \in Seq(Scope) /\ b.prims \in Seq(Prim) /\ b.children \in Seq(Child)
  BY DEF Body
<1>2. /\ s \in Seq(Nat) /\ Len(s) = Len(b.scopes)
      /\ \A i \in 1..Len(b.scopes) : s[i] = b.scopes[i].parent
  <2>1. \A i \in 1..Len(b.scopes) : b.scopes[i].parent \in Nat
    <3>1. \A i \in 1..Len(b.scopes) : b.scopes[i] \in Scope
      BY <1>1, ElementType
    <3> QED
      BY <3>1 DEF Scope
  <2> QED
    BY <1>1, <2>1
<1>3. /\ p \in Seq(Nat) /\ Len(p) = Len(b.prims)
      /\ \A i \in 1..Len(b.prims) : p[i] = b.prims[i].scope
  <2>1. \A i \in 1..Len(b.prims) : b.prims[i].scope \in Nat
    <3>1. \A i \in 1..Len(b.prims) : b.prims[i] \in Prim
      BY <1>1, ElementType
    <3> QED
      BY <3>1 DEF Prim
  <2> QED
    BY <1>1, <2>1
<1>4. /\ c \in Seq(Nat) /\ Len(c) = Len(b.children)
      /\ \A i \in 1..Len(b.children) : c[i] = b.children[i].scope
  <2>1. \A i \in 1..Len(b.children) : b.children[i].scope \in Nat
    <3>1. \A i \in 1..Len(b.children) : b.children[i] \in Child
      BY <1>1, ElementType
    <3> QED
      BY <3>1 DEF Child
  <2> QED
    BY <1>1, <2>1
<1>5. Levels(b) = (s \o p) \o c
  BY DEF Levels
<1> HIDE DEF s, p, c
<1>6. /\ s \o p \in Seq(Nat) /\ Len(s \o p) = Len(s) + Len(p)
      /\ \A i \in 1..Len(s) : (s \o p)[i] = s[i] /\ i \in 1..Len(s \o p)
      /\ \A i \in 1..Len(p) : (s \o p)[Len(s) + i] = p[i] /\ Len(s) + i \in 1..Len(s \o p)
  <2>1. PICK x \in Seq(Nat), y \in Seq(Nat) : x = s /\ y = p
    BY <1>2, <1>3
  <2>2. /\ x \o y \in Seq(Nat) /\ Len(x \o y) = Len(x) + Len(y)
        /\ \A i \in 1..Len(x) : (x \o y)[i] = x[i] /\ i \in 1..Len(x \o y)
        /\ \A i \in 1..Len(y) : (x \o y)[Len(x) + i] = y[i] /\ Len(x) + i \in 1..Len(x \o y)
    BY ONLY x \in Seq(Nat), y \in Seq(Nat), Concat
  <2> QED
    BY <2>1, <2>2
<1>7. PICK q \in Seq(Nat) : q = s \o p
  BY <1>6
<1>8. /\ q \o c \in Seq(Nat) /\ Len(q \o c) = Len(q) + Len(c)
      /\ \A i \in 1..Len(q) : (q \o c)[i] = q[i]
      /\ \A i \in 1..Len(c) : (q \o c)[Len(q) + i] = c[i]
  <2>1. PICK y \in Seq(Nat) : y = c
    BY <1>4
  <2>2. /\ q \o y \in Seq(Nat) /\ Len(q \o y) = Len(q) + Len(y)
        /\ \A i \in 1..Len(q) : (q \o y)[i] = q[i]
        /\ \A i \in 1..Len(y) : (q \o y)[Len(q) + i] = y[i]
    BY ONLY q \in Seq(Nat), y \in Seq(Nat), Concat
  <2> QED
    BY <2>1, <2>2
<1>9. Levels(b) = q \o c
  BY <1>5, <1>7
<1>10. /\ Len(q) = Len(b.scopes) + Len(b.prims)
       /\ \A i \in 1..Len(b.scopes) : i \in 1..Len(q) /\ q[i] = b.scopes[i].parent
       /\ \A i \in 1..Len(b.prims) :
            Len(b.scopes) + i \in 1..Len(q) /\ q[Len(b.scopes) + i] = b.prims[i].scope
  BY <1>2, <1>3, <1>6, <1>7
<1> QED
  BY <1>4, <1>8, <1>9, <1>10

\* Those of the first m nodes of a body that lie in level s.
Among(b, m, s) == {j \in 1..m : Levels(b)[j] = s}

LEMMA AmongNext ==
    ASSUME NEW b, NEW m \in Nat, NEW s
    PROVE  /\ Cardinality(Among(b, m, s)) \in Nat
           /\ Levels(b)[m + 1] = s =>
                Cardinality(Among(b, m + 1, s)) = Cardinality(Among(b, m, s)) + 1
           /\ Levels(b)[m + 1] # s => Among(b, m + 1, s) = Among(b, m, s)
           /\ Ordinal(b, m + 1) = Cardinality(Among(b, m, Levels(b)[m + 1]))
<1>1. 1..(m + 1) = 1..m \cup {m + 1} /\ m + 1 \notin 1..m
  OBVIOUS
<1>2. IsFiniteSet(Among(b, m, s))
  BY UpTo, FS_Subset DEF Among
<1>3. ASSUME Levels(b)[m + 1] = s
      PROVE  Cardinality(Among(b, m + 1, s)) = Cardinality(Among(b, m, s)) + 1
  <2>1. /\ Among(b, m + 1, s) = Among(b, m, s) \cup {m + 1}
        /\ m + 1 \notin Among(b, m, s)
    BY <1>1, <1>3 DEF Among
  <2> QED
    BY <1>2, <2>1, FS_AddElement
<1>4. ASSUME Levels(b)[m + 1] # s PROVE Among(b, m + 1, s) = Among(b, m, s)
  BY <1>1, <1>4 DEF Among
<1>5. Ordinal(b, m + 1) = Cardinality(Among(b, m, Levels(b)[m + 1]))
  <2>1. (m + 1) - 1 = m
    OBVIOUS
  <2> QED
    BY <2>1 DEF Ordinal, Among
<1> QED
  BY <1>2, <1>3, <1>4, <1>5, FS_CardinalityType

\* The nodes under p are numbered from 0 on.
OrdsOf(W, p) == {r.ord : r \in KidsOf(W, p)}
SiblingsNumbered(W, p) == OrdsOf(W, p) = 0..(Count(W, p) - 1)

\* A node more, numbered by those before it.
LEMMA NodeNumbered ==
    ASSUME NEW W, IsFiniteSet(W), NEW n, n.id \notin Ids(W), n.ord = Count(W, n.parent),
           NEW p, SiblingsNumbered(W, p)
    PROVE  /\ IsFiniteSet(W \cup {n}) /\ SiblingsNumbered(W \cup {n}, p)
           /\ p # n.parent => KidsOf(W \cup {n}, p) = KidsOf(W, p)
           /\ Count(W \cup {n}, n.parent) = Count(W, n.parent) + 1
<1>1. n \notin W
  BY DEF Ids
<1>2. ASSUME p # n.parent PROVE KidsOf(W \cup {n}, p) = KidsOf(W, p)
  BY <1>2 DEF KidsOf
<1>3. Count(W \cup {n}, n.parent) = Count(W, n.parent) + 1
  <2>1. /\ KidsOf(W \cup {n}, n.parent) = KidsOf(W, n.parent) \cup {n}
        /\ n \notin KidsOf(W, n.parent)
    BY <1>1 DEF KidsOf
  <2>2. IsFiniteSet(KidsOf(W, n.parent))
    BY KidsFinite
  <2> QED
    BY <2>1, <2>2, FS_AddElement DEF Count
<1>4. SiblingsNumbered(W \cup {n}, p)
  <2>1. CASE p # n.parent
    BY <1>2, <2>1 DEF SiblingsNumbered, OrdsOf, Count
  <2>2. CASE p = n.parent
    <3>1. OrdsOf(W \cup {n}, p) = OrdsOf(W, p) \cup {Count(W, p)}
      BY <2>2 DEF OrdsOf, KidsOf
    <3>2. Count(W, p) \in Nat
      BY KidsFinite
    <3>3. 0..Count(W, p) = 0..(Count(W, p) - 1) \cup {Count(W, p)}
      BY <3>2
    <3>4. Count(W \cup {n}, p) - 1 = Count(W, p)
      BY <1>3, <2>2, <3>2
    <3> QED
      BY <3>1, <3>3, <3>4 DEF SiblingsNumbered
  <2> QED
    BY <2>1, <2>2
<1>5. IsFiniteSet(W \cup {n})
  BY FS_AddElement
<1> QED
  BY <1>2, <1>3, <1>4, <1>5

-----------------------------------------------------------------------------
(* The nodes of a body: what each of them is.                              *)

LEMMA BodyNode ==
    ASSUME NEW b \in Body, NEW f, f.scopeBase \in Nat
    PROVE  /\ \A r \in BodyNodes(f, b) :
                /\ r.kind # "package"
                /\ \E k \in 1..(Len(b.scopes) + Len(b.prims)) : r.id = f.scopeBase + k
           /\ \A k \in 1..(Len(b.scopes) + Len(b.prims)) :
                \E r \in BodyNodes(f, b) : r.id = f.scopeBase + k
           /\ \A r \in BodyNodes(f, b) : \A k \in 1..(Len(b.scopes) + Len(b.prims)) :
                r.id = f.scopeBase + k =>
                  r.parent = ScopeNode(f, Levels(b)[k]) /\ r.ord = Ordinal(b, k)
<1>0. PICK s \in Nat, q \in Nat, base \in Nat :
         s = Len(b.scopes) /\ q = Len(b.prims) /\ base = f.scopeBase
  BY BodyParts
<1> DEFINE level(i) == NodeRow(f.scopeBase + i, ScopeNode(f, b.scopes[i].parent),
                               b.scopes[i].name, "generate", Ordinal(b, i))
           prim(i) == NodeRow(f.scopeBase + s + i, ScopeNode(f, b.prims[i].scope),
                              b.prims[i].name, "primitive", Ordinal(b, s + i))
<1>2. BodyNodes(f, b) = {level(i) : i \in 1..s} \cup {prim(i) : i \in 1..q}
  BY <1>0 DEF BodyNodes
<1>3. /\ \A i \in 1..s : Levels(b)[i] = b.scopes[i].parent
      /\ \A i \in 1..q : Levels(b)[s + i] = b.prims[i].scope
  BY <1>0, LevelsOf
<1>4. ASSUME NEW i \in 1..s
      PROVE  /\ level(i).id = base + i /\ level(i).kind # "package"
             /\ level(i).parent = ScopeNode(f, Levels(b)[i])
             /\ level(i).ord = Ordinal(b, i) /\ i \in 1..(s + q)
  <2>1. i \in 1..(s + q)
    OBVIOUS
  <2>2. ScopeNode(f, b.scopes[i].parent) = ScopeNode(f, Levels(b)[i])
    BY <1>3
  <2> QED
    BY <1>0, <2>1, <2>2 DEF NodeRow
<1>5. ASSUME NEW i \in 1..q
      PROVE  /\ prim(i).id = base + (s + i) /\ prim(i).kind # "package"
             /\ prim(i).parent = ScopeNode(f, Levels(b)[s + i])
             /\ prim(i).ord = Ordinal(b, s + i) /\ s + i \in 1..(s + q)
  <2>1. base + s + i = base + (s + i) /\ s + i \in 1..(s + q)
    OBVIOUS
  <2>2. ScopeNode(f, b.prims[i].scope) = ScopeNode(f, Levels(b)[s + i])
    BY <1>3
  <2> QED
    BY <1>0, <2>1, <2>2 DEF NodeRow
<1> HIDE DEF level, prim
<1>6. ASSUME NEW r \in BodyNodes(f, b)
      PROVE  /\ r.kind # "package"
             /\ \E k \in 1..(s + q) :
                  /\ r.id = base + k
                  /\ r.parent = ScopeNode(f, Levels(b)[k]) /\ r.ord = Ordinal(b, k)
  <2>1. CASE \E i \in 1..s : r = level(i)
    BY <1>4, <2>1
  <2>2. CASE \E i \in 1..q : r = prim(i)
    BY <1>5, <2>2
  <2> QED
    BY <1>2, <2>1, <2>2
<1>7. ASSUME NEW k \in 1..(s + q)
      PROVE  \E r \in BodyNodes(f, b) : r.id = base + k
  <2>1. CASE k <= s
    BY <1>2, <1>4, <2>1
  <2>2. CASE k > s
    <3>1. k - s \in 1..q /\ s + (k - s) = k
      BY <2>2
    <3>2. PICK i \in 1..q : s + i = k
      BY <3>1
    <3>3. prim(i).id = base + k
      BY <1>5, <3>2
    <3>4. prim(i) \in BodyNodes(f, b)
      BY <1>2
    <3> QED
      BY <3>3, <3>4
  <2> QED
    BY <2>1, <2>2
<1>8. ASSUME NEW r \in BodyNodes(f, b), NEW k \in 1..(s + q), r.id = base + k
      PROVE  r.parent = ScopeNode(f, Levels(b)[k]) /\ r.ord = Ordinal(b, k)
  <2>1. PICK j \in 1..(s + q) :
           /\ r.id = base + j
           /\ r.parent = ScopeNode(f, Levels(b)[j]) /\ r.ord = Ordinal(b, j)
    BY <1>6
  <2>2. j = k
    BY <1>8, <2>1
  <2> QED
    BY <2>1, <2>2
<1>9. \A r \in BodyNodes(f, b) : r.kind # "package" /\ \E k \in 1..(s + q) : r.id = base + k
  BY <1>6
<1> QED
  BY <1>0, <1>7, <1>8, <1>9

\* The levels of an instance are apart, from each other and from it.
LEMMA LevelsApart ==
    ASSUME NEW f, f.scopeBase \in Nat, f.inst \in Nat, f.inst <= f.scopeBase,
           NEW s \in Nat, NEW u \in Nat, ScopeNode(f, s) = ScopeNode(f, u)
    PROVE  s = u
  BY DEF ScopeNode

\* A node's number is its place among those of its level, less one.
LEMMA OrdinalIsPlace ==
    ASSUME NEW b, NEW m \in Nat, NEW s, NEW k \in Among(b, m, s)
    PROVE  Rank(Among(b, m, s), k) = Ordinal(b, k) + 1 /\ Ordinal(b, k) \in Nat
<1> DEFINE E == {j \in 1..(k - 1) : Levels(b)[j] = Levels(b)[k]}
<1>1. k \in 1..m /\ Levels(b)[k] = s
  BY DEF Among
<1>2. IsFiniteSet(E)
  <2>1. k - 1 \in Nat
    BY <1>1
  <2> QED
    BY <2>1, UpTo, FS_Subset
<1>3. {j \in Among(b, m, s) : j <= k} = E \cup {k}
  BY <1>1 DEF Among
<1>4. k \notin E
  BY <1>1
<1>5. Ordinal(b, k) = Cardinality(E)
  BY DEF Ordinal
<1>6. Cardinality(E \cup {k}) = Cardinality(E) + 1 /\ Cardinality(E) \in Nat
  BY <1>2, <1>4, FS_AddElement, FS_CardinalityType
<1> HIDE DEF E
<1> QED
  BY <1>3, <1>5, <1>6 DEF Rank

\* The nodes of a body under each of its levels.
LEMMA BodyKids ==
    ASSUME NEW b \in Body, ScopesLocal(b), NEW f,
           f.scopeBase \in Nat, f.inst \in Nat, f.inst <= f.scopeBase,
           NEW m \in Nat, m = Len(b.scopes) + Len(b.prims)
    PROVE  /\ IsFiniteSet(BodyNodes(f, b))
           /\ \A s \in 0..Len(b.scopes) :
                /\ Count(BodyNodes(f, b), ScopeNode(f, s)) = Cardinality(Among(b, m, s))
                /\ SiblingsNumbered(BodyNodes(f, b), ScopeNode(f, s))
           /\ \A r \in BodyNodes(f, b) :
                \E s \in 0..Len(b.scopes) : r.parent = ScopeNode(f, s)
<1> DEFINE N == BodyNodes(f, b)
<1>0. PICK base \in Nat, z \in Nat : base = f.scopeBase /\ z = Len(b.scopes)
  BY BodyParts
<1>1. Block(N, base, base + m)
  BY <1>0, NodesFillBlock
<1>2. /\ \A r \in N : \E k \in 1..m : r.id = base + k
      /\ \A k \in 1..m : \E r \in N : r.id = base + k
      /\ \A r \in N : \A k \in 1..m : r.id = base + k =>
           r.parent = ScopeNode(f, Levels(b)[k]) /\ r.ord = Ordinal(b, k)
  <2>1. 1..(Len(b.scopes) + Len(b.prims)) = 1..m
    OBVIOUS
  <2>2. /\ \A r \in N : \E k \in 1..m : r.id = f.scopeBase + k
        /\ \A k \in 1..m : \E r \in N : r.id = f.scopeBase + k
        /\ \A r \in N : \A k \in 1..m : r.id = f.scopeBase + k =>
             r.parent = ScopeNode(f, Levels(b)[k]) /\ r.ord = Ordinal(b, k)
    BY <2>1, BodyNode
  <2> HIDE DEF N
  <2> QED
    BY <1>0, <2>2
<1>3. \A k \in 1..m : Levels(b)[k] \in 0..z
  <2> SUFFICES ASSUME NEW k \in 1..m PROVE Levels(b)[k] \in 0..z
    OBVIOUS
  <2>1. PICK q \in Nat : q = Len(b.prims) /\ m = z + q
    BY <1>0, BodyParts
  <2>2. CASE k <= z
    <3>1. k \in 1..z
      BY <2>2
    <3>2. Levels(b)[k] = b.scopes[k].parent
      BY <1>0, <3>1, LevelsOf
    <3>3. b.scopes[k].parent \in 0..(k - 1)
      BY <1>0, <3>1 DEF ScopesLocal
    <3> QED
      BY <3>1, <3>2, <3>3
  <2>3. CASE k > z
    <3>1. PICK i \in 1..q : k = z + i
      <4>1. k <= z + q
        <5>1. m = z + q
          BY <2>1
        <5> QED
          BY ONLY <5>1, m \in Nat, k \in 1..m, z \in Nat, q \in Nat
      <4>2. k - z \in 1..q /\ k = z + (k - z)
        BY ONLY <2>3, <4>1, z \in Nat, q \in Nat, m \in Nat, k \in 1..m
      <4> QED
        BY <4>2
    <3>2. Levels(b)[z + i] = b.prims[i].scope
      BY <1>0, <2>1, LevelsOf
    <3>3. b.prims[i].scope \in 0..z
      BY <1>0, <2>1 DEF ScopesLocal
    <3> QED
      BY <3>1, <3>2, <3>3
  <2> QED
    BY <2>2, <2>3
<1>4. IsFiniteSet(N)
  <2>1. IsFiniteSet((base + 1)..(base + m))
    <3>1. base + 1 \in Int /\ base + m \in Int
      OBVIOUS
    <3> QED
      BY <3>1, FS_Interval
  <2> DEFINE g == [r \in N |-> r.id]
  <2>2. g \in Injection(N, (base + 1)..(base + m))
    BY <1>1 DEF Block, Distinct, Ids, Injection, IsInjective
  <2> QED
    BY <2>1, <2>2, FS_Injection
<1>5. \A r \in N : \E s \in 0..z : r.parent = ScopeNode(f, s)
  BY <1>2, <1>3
<1>6. ASSUME NEW s \in 0..z
      PROVE  /\ Count(N, ScopeNode(f, s)) = Cardinality(Among(b, m, s))
             /\ SiblingsNumbered(N, ScopeNode(f, s))
  <2> DEFINE K == KidsOf(N, ScopeNode(f, s))
             A == Among(b, m, s)
             g == [r \in K |-> r.id - base]
  <2>1. A \in SUBSET (1..m)
    BY DEF Among
  <2>2. \A r \in K : \E k \in A : r.id = base + k /\ r.ord = Ordinal(b, k)
    <3> SUFFICES ASSUME NEW r \in K
                 PROVE  \E k \in A : r.id = base + k /\ r.ord = Ordinal(b, k)
      OBVIOUS
    <3>1. r \in N /\ r.parent = ScopeNode(f, s)
      BY DEF KidsOf
    <3>2. PICK k \in 1..m : r.id = base + k
      BY <1>2, <3>1
    <3>3. r.parent = ScopeNode(f, Levels(b)[k]) /\ r.ord = Ordinal(b, k)
      BY <1>2, <3>1, <3>2
    <3>4. Levels(b)[k] \in 0..z
      BY <1>3
    <3>5. PICK u \in 0..z : u = Levels(b)[k]
      BY <3>4
    <3>6. u = s
      <4>1. ScopeNode(f, s) = ScopeNode(f, u) /\ s \in Nat /\ u \in Nat
        BY <3>1, <3>3, <3>5
      <4> QED
        BY <4>1, LevelsApart
    <3> QED
      BY <3>2, <3>3, <3>5, <3>6 DEF Among
  <2>3. \A k \in A : \E r \in K : r.id = base + k /\ r.ord = Ordinal(b, k)
    <3> SUFFICES ASSUME NEW k \in A
                 PROVE  \E r \in K : r.id = base + k /\ r.ord = Ordinal(b, k)
      OBVIOUS
    <3>1. k \in 1..m /\ Levels(b)[k] = s
      BY DEF Among
    <3>2. PICK r \in N : r.id = base + k
      BY <1>2, <3>1
    <3>3. r.parent = ScopeNode(f, s) /\ r.ord = Ordinal(b, k)
      BY <1>2, <3>1, <3>2
    <3> QED
      BY <3>2, <3>3 DEF KidsOf
  <2>4. \A r, q \in K : r.id = q.id => r = q
    BY <1>1 DEF Block, Distinct, KidsOf
  <2> HIDE DEF K, A
  <2>5. g \in Injection(K, A) /\ g \in Surjection(K, A)
    <3>1. \A r \in K : g[r] \in A /\ r.id = base + g[r]
      BY <2>1, <2>2
    <3>2. g \in [K -> A]
      BY <3>1
    <3>3. \A k \in A : \E r \in K : g[r] = k
      BY <2>1, <2>3, <3>1
    <3>4. \A r, q \in K : g[r] = g[q] => r = q
      BY <2>4, <3>1
    <3> HIDE DEF g
    <3> QED
      BY <3>2, <3>3, <3>4 DEF Injection, Surjection, IsInjective
  <2>6. IsFiniteSet(A) /\ Cardinality(A) \in Nat
    BY <2>1, UpTo, FS_Subset, FS_CardinalityType
  <2>7. Cardinality(K) = Cardinality(A)
    <3> HIDE DEF g
    <3> QED
      BY <2>5, <2>6, FS_Injection
  <2>8. {r.ord : r \in K} = {Ordinal(b, k) : k \in A}
    BY <2>2, <2>3
  <2>9. /\ \A i \in A : Rank(A, i) \in 1..Cardinality(A)
        /\ \A k \in 1..Cardinality(A) : \E i \in A : Rank(A, i) = k
    BY <2>1, RankCounts
  <2>10. \A k \in A : Rank(A, k) = Ordinal(b, k) + 1 /\ Ordinal(b, k) \in Nat
    <3> SUFFICES ASSUME NEW k \in Among(b, m, s)
                 PROVE  Rank(Among(b, m, s), k) = Ordinal(b, k) + 1 /\ Ordinal(b, k) \in Nat
      BY DEF A
    <3> QED
      BY OrdinalIsPlace
  <2>11. {Ordinal(b, k) : k \in A} = 0..(Cardinality(A) - 1)
    <3>1. ASSUME NEW k \in A PROVE Ordinal(b, k) \in 0..(Cardinality(A) - 1)
      BY <2>6, <2>9, <2>10
    <3>2. ASSUME NEW o \in 0..(Cardinality(A) - 1) PROVE \E k \in A : Ordinal(b, k) = o
      <4>1. o + 1 \in 1..Cardinality(A)
        BY <2>6
      <4>2. PICK k \in A : Rank(A, k) = o + 1
        BY <2>9, <4>1
      <4>3. Ordinal(b, k) = o
        BY <2>10, <4>2
      <4> QED
        BY <4>3
    <3> QED
      BY <3>1, <3>2
  <2> QED
    BY <2>7, <2>8, <2>11 DEF Count, SiblingsNumbered, OrdsOf, K, A
<1> QED
  BY <1>0, <1>4, <1>5, <1>6

\* Several nodes more, under parents that had none.
LEMMA NodesNumbered ==
    ASSUME NEW W, NEW N, NEW p, KidsOf(W, p) = {} \/ KidsOf(N, p) = {},
           SiblingsNumbered(W, p), KidsOf(N, p) # {} => SiblingsNumbered(N, p)
    PROVE  /\ SiblingsNumbered(W \cup N, p)
           /\ KidsOf(N, p) = {} => KidsOf(W \cup N, p) = KidsOf(W, p)
           /\ KidsOf(W, p) = {} => KidsOf(W \cup N, p) = KidsOf(N, p)
<1>1. KidsOf(W \cup N, p) = KidsOf(W, p) \cup KidsOf(N, p)
  BY DEF KidsOf
<1>2. \/ KidsOf(W \cup N, p) = KidsOf(W, p)
      \/ KidsOf(W \cup N, p) = KidsOf(N, p) /\ KidsOf(N, p) # {}
  BY <1>1
<1> QED
  BY <1>1, <1>2 DEF SiblingsNumbered, OrdsOf, Count

-----------------------------------------------------------------------------
(* The numbers of the nodes of the tree.  The levels of the occurrences of *)
(* the stack are apart, and each has the nodes of the body seen so far.    *)

\* How many of the nodes of its body b an occurrence has written.
Seen(f, b) == Len(b.scopes) + Len(b.prims)
              + (IF f.stage = "guard" THEN 0
                 ELSE IF f.stage = "kids" THEN f.next - 1 ELSE f.next)

FrameNumbered(f, b, W, n) ==
    /\ f.inst \in Ids(W)
    /\ f.stage = "rows" => KidsOf(W, f.inst) = {}
    /\ f.stage # "rows" =>
         /\ f.inst <= f.scopeBase /\ f.scopeBase + Len(b.scopes) <= n
         /\ \A s \in 1..Len(b.scopes) : f.scopeBase + s \in Ids(W)
         /\ \A s \in 0..Len(b.scopes) :
              Count(W, ScopeNode(f, s)) = Cardinality(Among(b, Seen(f, b), s))
    /\ f.stage \in {"kids", "conns"} => f.scopeBase + Len(b.scopes) <= f.childBase

RowsNumbered(W) ==
    /\ IsFiniteSet(W)
    /\ \A r \in W : r.parent \in Ids(W) \cup {0}
    /\ \A p \in Nat : SiblingsNumbered(W, p)

FramesNumbered ==
    \A j \in 1..Len(stack) :
      FrameNumbered(stack[j], BodyOf(stack[j].tpl), tree, last["node"])

\* The children of an occurrence come after its levels.
Climbing == \A i, j \in 1..Len(stack) : i < j => stack[i].childBase < stack[j].inst

RootsCounted ==
    /\ phase = "tree" => Count(tree, 0) = cursor
    /\ phase = "packages" => Count(tree, 0) = Len(design.tops) + cursor

TreeNumbered == RowsNumbered(tree) /\ FramesNumbered /\ Climbing /\ RootsCounted

LEMMA TreeNumberedInit == Init => TreeNumbered
<1> SUFFICES ASSUME Init PROVE TreeNumbered
  OBVIOUS
<1>1. tree = {} /\ stack = <<>> /\ phase = "tree" /\ cursor = 0
  BY DEF Init
<1>2. \A p : Count(tree, p) = 0 /\ OrdsOf(tree, p) = {}
  BY <1>1, FS_EmptySet DEF Count, OrdsOf, KidsOf
<1>3. RowsNumbered(tree)
  <2>1. 0..(0 - 1) = {}
    OBVIOUS
  <2>2. \A p : SiblingsNumbered(tree, p)
    BY <1>2, <2>1 DEF SiblingsNumbered
  <2> QED
    BY <1>1, <2>2, FS_EmptySet DEF RowsNumbered
<1> QED
  BY <1>1, <1>2, <1>3 DEF TreeNumbered, FramesNumbered, Climbing, RootsCounted

LEMMA FrameStill ==
    ASSUME NEW f, NEW b, NEW W, NEW V, NEW n \in Nat, NEW m \in Nat, n <= m,
           FrameNumbered(f, b, W, n), Ids(W) \subseteq Ids(V),
           Len(b.scopes) \in Nat, f.scopeBase \in Nat,
           KidsOf(V, f.inst) = KidsOf(W, f.inst),
           f.stage # "rows" => \A s \in 0..Len(b.scopes) :
             KidsOf(V, ScopeNode(f, s)) = KidsOf(W, ScopeNode(f, s))
    PROVE  FrameNumbered(f, b, V, m)
<1>1. f.inst \in Ids(V) /\ (f.stage = "rows" => KidsOf(V, f.inst) = {})
  BY DEF FrameNumbered
<1>2. ASSUME f.stage # "rows"
      PROVE  /\ f.inst <= f.scopeBase /\ f.scopeBase + Len(b.scopes) <= m
             /\ \A s \in 1..Len(b.scopes) : f.scopeBase + s \in Ids(V)
             /\ \A s \in 0..Len(b.scopes) :
                  Count(V, ScopeNode(f, s)) = Cardinality(Among(b, Seen(f, b), s))
  <2>1. f.scopeBase + Len(b.scopes) <= m
    BY <1>2 DEF FrameNumbered
  <2>2. \A s \in 0..Len(b.scopes) : Count(V, ScopeNode(f, s)) = Count(W, ScopeNode(f, s))
    BY <1>2 DEF Count
  <2> QED
    BY <1>2, <2>1, <2>2 DEF FrameNumbered
<1> QED
  BY <1>1, <1>2 DEF FrameNumbered

\* The body of an occurrence of the stack.
LEMMA FrameBody ==
    ASSUME TypeOK, NEW j \in 1..Len(stack)
    PROVE  /\ stack[j] \in Frame /\ BodyOf(stack[j].tpl) \in Body
           /\ ScopesLocal(BodyOf(stack[j].tpl))
           /\ Len(BodyOf(stack[j].tpl).scopes) \in Nat
           /\ Len(BodyOf(stack[j].tpl).prims) \in Nat
           /\ stack[j].inst \in Nat /\ stack[j].scopeBase \in Nat
           /\ stack[j].childBase \in Nat /\ stack[j].next \in Nat \ {0}
<1>1. stack[j] \in Frame
  BY ElementType DEF TypeOK
<1>2. stack[j].tpl \in Tpl /\ design \in Designs
  BY <1>1 DEF Frame, TypeOK
<1>3. ScopesLocal(BodyOf(stack[j].tpl))
  BY <1>2, ScopesKnown DEF BodyOf
<1>4. BodyOf(stack[j].tpl) \in Body
  BY <1>2, BodyType
<1>5. Len(BodyOf(stack[j].tpl).scopes) \in Nat /\ Len(BodyOf(stack[j].tpl).prims) \in Nat
  BY <1>4, BodyParts
<1> QED
  BY <1>1, <1>3, <1>4, <1>5 DEF Frame

\* The levels of an occurrence whose rows are written are nodes of the tree.
LEMMA LevelsWritten ==
    ASSUME TypeOK, TreeNumbered, NEW j \in 1..Len(stack), stack[j].stage # "rows",
           NEW s \in 0..Len(BodyOf(stack[j].tpl).scopes)
    PROVE  /\ ScopeNode(stack[j], s) \in Ids(tree) /\ ScopeNode(stack[j], s) \in Nat
           /\ stack[j].inst <= ScopeNode(stack[j], s)
           /\ stack[j].stage \in {"kids", "conns"} =>
                ScopeNode(stack[j], s) <= stack[j].childBase
<1>1. PICK f, b : f = stack[j] /\ b = BodyOf(stack[j].tpl)
  OBVIOUS
<1>2. PICK i \in Nat, x \in Nat, y \in Nat, z \in Nat :
        i = f.inst /\ x = f.scopeBase /\ y = f.childBase /\ z = Len(b.scopes)
  BY <1>1, FrameBody
<1>3. FrameNumbered(f, b, tree, last["node"])
  BY <1>1 DEF TreeNumbered, FramesNumbered
<1>4. /\ i \in Ids(tree) /\ i <= x
      /\ \A u \in 1..z : x + u \in Ids(tree)
      /\ f.stage \in {"kids", "conns"} => x + z <= y
  BY <1>1, <1>2, <1>3 DEF FrameNumbered
<1>5. s \in 0..z /\ ScopeNode(f, s) = IF s = 0 THEN i ELSE x + s
  BY <1>1, <1>2 DEF ScopeNode
<1>6. CASE s = 0
  <2>1. f.stage \in {"kids", "conns"} => i <= y
    BY <1>4
  <2> QED
    BY <1>1, <1>2, <1>4, <1>5, <1>6, <2>1
<1>7. CASE s # 0
  <2>1. s \in 1..z /\ x + s \in Nat /\ i <= x + s /\ x + s <= x + z
    BY <1>4, <1>5, <1>7
  <2>2. f.stage \in {"kids", "conns"} => x + s <= y
    BY <1>4, <2>1
  <2> QED
    BY <1>1, <1>2, <1>4, <1>5, <1>7, <2>1, <2>2
<1> QED
  BY <1>6, <1>7

\* Nodes added under the innermost occurrence, or above all, are no children
\* of the others.
LEMMA BelowNumbered ==
    ASSUME TypeOK, PathInv, TreeNumbered, NodesIssued, stack # <<>>,
           NEW V, NEW m \in Nat, last["node"] <= m, Ids(tree) \subseteq Ids(V),
           \A p \in Nat \ {0} : p < Top.inst => KidsOf(V, p) = KidsOf(tree, p),
           NEW j \in 1..(Len(stack) - 1)
    PROVE  FrameNumbered(stack[j], BodyOf(stack[j].tpl), V, m)
<1>0. /\ Top = stack[Len(stack)] /\ Len(stack) \in 1..Len(stack) /\ j \in 1..Len(stack)
      /\ j < Len(stack) /\ Len(stack) \in Nat \ {0}
  BY TopBody
<1>1. stack[j].stage = "conns"
  BY DEF PathInv, Suspended
<1>2. stack[j].childBase < Top.inst
  BY <1>0 DEF TreeNumbered, Climbing
<1>3. last["node"] \in Nat /\ Ids(tree) \subseteq Nat \ {0}
  BY DEF TypeOK, Counter, NodesIssued
<1>4. /\ stack[j].inst \in Nat /\ stack[j].scopeBase \in Nat /\ stack[j].childBase \in Nat
      /\ Top.inst \in Nat /\ Len(BodyOf(stack[j].tpl).scopes) \in Nat
  BY <1>0, FrameBody
<1>5. FrameNumbered(stack[j], BodyOf(stack[j].tpl), tree, last["node"])
  BY <1>0 DEF TreeNumbered, FramesNumbered
<1>6. ASSUME NEW s \in 0..Len(BodyOf(stack[j].tpl).scopes)
      PROVE  KidsOf(V, ScopeNode(stack[j], s)) = KidsOf(tree, ScopeNode(stack[j], s))
  <2>1. PICK q : q = ScopeNode(stack[j], s)
    OBVIOUS
  <2>2. q \in Ids(tree) /\ q \in Nat /\ q <= stack[j].childBase
    BY <1>0, <1>1, <2>1, LevelsWritten
  <2>3. q \in Nat \ {0} /\ q < Top.inst
    BY <1>2, <1>3, <1>4, <2>2
  <2> QED
    BY <2>1, <2>3
<1>7. KidsOf(V, stack[j].inst) = KidsOf(tree, stack[j].inst)
  <2>1. 0 \in 0..Len(BodyOf(stack[j].tpl).scopes) /\ ScopeNode(stack[j], 0) = stack[j].inst
    BY <1>4 DEF ScopeNode
  <2> QED
    BY <1>6, <2>1
<1> QED
  BY <1>3, <1>4, <1>5, <1>6, <1>7, FrameStill

LEMMA TreeNumberedNext ==
    ASSUME design' = design, RowsNumbered(tree'),
           \A j \in 1..Len(stack') :
             FrameNumbered(stack'[j], BodyOf(stack'[j].tpl), tree', last'["node"]),
           \A i, j \in 1..Len(stack') : i < j => stack'[i].childBase < stack'[j].inst,
           phase' = "tree" => Count(tree', 0) = cursor',
           phase' = "packages" => Count(tree', 0) = Len(design.tops) + cursor'
    PROVE  TreeNumbered'
  BY DEF TreeNumbered, FramesNumbered, Climbing, RootsCounted, BodyOf

\* The stack as long as it was, its innermost occurrence still the same.
LEMMA ClimbingStill ==
    ASSUME TypeOK, TreeNumbered, stack # <<>>, NEW f, Topped(f), f.inst = Top.inst
    PROVE  \A i, j \in 1..Len(stack') : i < j => stack'[i].childBase < stack'[j].inst
<1>1. PICK n \in Nat \ {0} : n = Len(stack) /\ Top = stack[n]
  BY TopBody
<1>2. /\ Len(stack') = n /\ stack'[n] = f
      /\ \A i \in 1..(n - 1) : stack'[i] = stack[i]
  BY <1>1 DEF Topped, BelowKept
<1>3. \A i, j \in 1..n : i < j => stack[i].childBase < stack[j].inst
  BY <1>1 DEF TreeNumbered, Climbing
<1>4. \A j \in 1..n : stack'[j].inst = stack[j].inst
  BY <1>1, <1>2
<1>5. \A i, j \in 1..n : i < j => i \in 1..(n - 1)
  OBVIOUS
<1> QED
  BY <1>2, <1>3, <1>4, <1>5

\* One action of the innermost occurrence f.
LEMMA InnermostNumbered ==
    ASSUME TypeOK, PathInv, TreeNumbered, NodesIssued, stack # <<>>, design' = design,
           NEW f, Topped(f), f.inst = Top.inst,
           RowsNumbered(tree'), Ids(tree) \subseteq Ids(tree'),
           last'["node"] \in Nat, last["node"] <= last'["node"],
           \A p \in Nat : p < Top.inst => KidsOf(tree', p) = KidsOf(tree, p),
           FrameNumbered(f, BodyOf(f.tpl), tree', last'["node"]),
           phase = "tree", UNCHANGED <<phase, cursor>>
    PROVE  TreeNumbered'
<1>1. PICK n \in Nat \ {0} : n = Len(stack) /\ Top = stack[n]
  BY TopBody
<1>2. /\ Len(stack') = n /\ stack'[n] = f
      /\ \A i \in 1..(n - 1) : stack'[i] = stack[i]
  BY <1>1 DEF Topped, BelowKept
<1>3. \A j \in 1..(n - 1) :
        FrameNumbered(stack[j], BodyOf(stack[j].tpl), tree', last'["node"])
  BY <1>1, BelowNumbered
<1>4. ASSUME NEW j \in 1..Len(stack')
      PROVE  FrameNumbered(stack'[j], BodyOf(stack'[j].tpl), tree', last'["node"])
  <2>1. CASE j = n
    BY <1>2, <2>1
  <2>2. CASE j # n
    <3>1. j \in 1..(n - 1)
      BY <1>2, <2>2
    <3> QED
      BY <1>2, <1>3, <3>1
  <2> QED
    BY <2>1, <2>2
<1>5. \A i, j \in 1..Len(stack') : i < j => stack'[i].childBase < stack'[j].inst
  BY ClimbingStill
<1>6. Count(tree', 0) = Count(tree, 0)
  <2>1. n \in 1..Len(stack)
    BY <1>1
  <2>2. Top.inst \in Ids(tree)
    BY <1>1, <2>1 DEF TreeNumbered, FramesNumbered, FrameNumbered
  <2>3. Top.inst \in Nat \ {0}
    BY <2>2 DEF NodesIssued, TypeOK, Counter
  <2>4. KidsOf(tree', 0) = KidsOf(tree, 0)
    BY <2>3
  <2> QED
    BY <2>4 DEF Count
<1>7. /\ phase' = "tree" => Count(tree', 0) = cursor'
      /\ phase' = "packages" => Count(tree', 0) = Len(design.tops) + cursor'
  BY <1>6 DEF TreeNumbered, RootsCounted
<1> QED
  BY <1>4, <1>5, <1>7, TreeNumberedNext

\* A node more.
LEMMA RowsMore ==
    ASSUME NEW W, RowsNumbered(W), NEW n, n.id \notin Ids(W),
           n.parent \in Ids(W) \cup {0}, n.ord = Count(W, n.parent), Ids(W) \subseteq Nat
    PROVE  /\ RowsNumbered(W \cup {n}) /\ Ids(W \cup {n}) = Ids(W) \cup {n.id}
           /\ \A p \in Nat : p # n.parent => KidsOf(W \cup {n}, p) = KidsOf(W, p)
           /\ Count(W \cup {n}, n.parent) = Count(W, n.parent) + 1
           /\ n.id # 0 => KidsOf(W \cup {n}, n.id) = {}
<1>1. \A p \in Nat : /\ SiblingsNumbered(W \cup {n}, p)
                     /\ p # n.parent => KidsOf(W \cup {n}, p) = KidsOf(W, p)
                     /\ IsFiniteSet(W \cup {n})
                     /\ Count(W \cup {n}, n.parent) = Count(W, n.parent) + 1
  BY NodeNumbered DEF RowsNumbered
<1>2. Ids(W \cup {n}) = Ids(W) \cup {n.id}
  BY DEF Ids
<1>3. \A r \in W \cup {n} : r.parent \in Ids(W) \cup {0}
  BY DEF RowsNumbered
<1>4. n.id # 0 => KidsOf(W \cup {n}, n.id) = {}
  BY <1>3 DEF KidsOf
<1>5. 0 \in Nat
  OBVIOUS
<1> QED
  BY <1>1, <1>2, <1>3, <1>4, <1>5 DEF RowsNumbered

\* The node of a top, and of a package.
LEMMA RootNumbered ==
    ASSUME TypeOK, TreeNumbered, NodesIssued, NEW node, node.id = last["node"] + 1,
           node.parent = 0, node.ord = Count(tree, 0)
    PROVE  /\ RowsNumbered(tree \cup {node}) /\ Count(tree \cup {node}, 0) = Count(tree, 0) + 1
           /\ \A p \in Nat \ {0} : KidsOf(tree \cup {node}, p) = KidsOf(tree, p)
           /\ KidsOf(tree \cup {node}, node.id) = {}
           /\ Ids(tree) \subseteq Ids(tree \cup {node}) /\ node.id \in Ids(tree \cup {node})
<1>1. last["node"] \in Nat /\ Ids(tree) \subseteq 1..last["node"]
  BY DEF TypeOK, Counter, NodesIssued
<1>2. /\ node.id \notin Ids(tree) /\ node.id # 0 /\ Ids(tree) \subseteq Nat
      /\ node.parent \in Ids(tree) \cup {0} /\ node.ord = Count(tree, node.parent)
  BY <1>1
<1>3. RowsNumbered(tree)
  BY DEF TreeNumbered
<1> QED
  <2>1. /\ RowsNumbered(tree \cup {node})
        /\ Ids(tree \cup {node}) = Ids(tree) \cup {node.id}
        /\ \A p \in Nat : p # node.parent => KidsOf(tree \cup {node}, p) = KidsOf(tree, p)
        /\ Count(tree \cup {node}, node.parent) = Count(tree, node.parent) + 1
        /\ node.id # 0 => KidsOf(tree \cup {node}, node.id) = {}
    <3>1. PICK W : W = tree
      OBVIOUS
    <3>2. /\ RowsNumbered(W) /\ node.id \notin Ids(W) /\ Ids(W) \subseteq Nat
          /\ node.parent \in Ids(W) \cup {0} /\ node.ord = Count(W, node.parent)
      BY <1>2, <1>3, <3>1
    <3>3. /\ RowsNumbered(W \cup {node})
          /\ Ids(W \cup {node}) = Ids(W) \cup {node.id}
          /\ \A p \in Nat : p # node.parent => KidsOf(W \cup {node}, p) = KidsOf(W, p)
          /\ Count(W \cup {node}, node.parent) = Count(W, node.parent) + 1
          /\ node.id # 0 => KidsOf(W \cup {node}, node.id) = {}
      BY ONLY <3>2, RowsMore
    <3> QED
      BY <3>1, <3>3
  <2> QED
    BY <1>2, <2>1

LEMMA NumberedTop ==
    ASSUME TypeOK, PathInv, TreeNumbered, NodesIssued, StampTop
    PROVE  TreeNumbered'
<1> DEFINE top == design.tops[cursor + 1]
           id == last["node"] + 1
           node == NodeRow(id, 0, top.name, "root", cursor)
           f == NewFrame(top.tpl, id, {})
<1>1. /\ design' = design /\ phase = "tree" /\ phase' = "tree" /\ cursor' = cursor + 1
      /\ tree' = tree \cup {node} /\ last'["node"] = id
  <2>1. "node" \in DOMAIN last
    BY DEF TypeOK, Counter
  <2> QED
    BY <2>1 DEF StampTop
<1>2. stack = <<>> /\ Len(stack') = 1 /\ stack'[1] = f
  BY StackOfTop
<1>3. f.stage = "rows" /\ f.inst = id
  BY NewFrameFields
<1>4. node.id = id /\ node.parent = 0 /\ node.ord = cursor
  BY DEF NodeRow
<1>5. Count(tree, 0) = cursor /\ cursor \in Nat
  BY <1>1 DEF TreeNumbered, RootsCounted, TypeOK
<1> HIDE DEF f, node
<1>6. /\ RowsNumbered(tree') /\ Count(tree', 0) = cursor'
      /\ KidsOf(tree', id) = {} /\ id \in Ids(tree')
  BY <1>1, <1>4, <1>5, RootNumbered
<1>7. FrameNumbered(f, BodyOf(f.tpl), tree', last'["node"])
  BY <1>3, <1>6 DEF FrameNumbered
<1>8. /\ \A j \in 1..Len(stack') :
           FrameNumbered(stack'[j], BodyOf(stack'[j].tpl), tree', last'["node"])
      /\ \A i, j \in 1..Len(stack') : i < j => stack'[i].childBase < stack'[j].inst
  <2>1. \A j \in 1..Len(stack') : j = 1
    BY <1>2
  <2>2. \A i, j \in 1..Len(stack') : ~(i < j)
    BY <2>1
  <2> QED
    BY <1>2, <1>7, <2>1, <2>2
<1> QED
  BY <1>1, <1>6, <1>8, TreeNumberedNext

LEMMA NumberedPackage ==
    ASSUME TypeOK, PathInv, TreeNumbered, NodesIssued, StampPackage
    PROVE  TreeNumbered'
<1> DEFINE id == last["node"] + 1
           p == design.packages[cursor + 1]
           node == NodeRow(id, 0, p.name, "package", Len(design.tops) + cursor)
<1>1. /\ design' = design /\ phase = "packages" /\ phase' = "packages"
      /\ cursor' = cursor + 1 /\ stack' = stack
      /\ tree' = tree \cup {node} /\ last'["node"] = id
  <2>1. "node" \in DOMAIN last /\ "net" \in DOMAIN last
    BY DEF TypeOK, Counter, Reserved
  <2> QED
    BY <2>1 DEF StampPackage
<1>2. node.id = id /\ node.parent = 0 /\ node.ord = Len(design.tops) + cursor
  BY DEF NodeRow
<1>3. Count(tree, 0) = Len(design.tops) + cursor /\ cursor \in Nat /\ last["node"] \in Nat
  BY <1>1 DEF TreeNumbered, RootsCounted, TypeOK, Counter
<1> HIDE DEF node
<1>4. /\ RowsNumbered(tree') /\ Count(tree', 0) = Count(tree, 0) + 1
      /\ \A q \in Nat \ {0} : KidsOf(tree', q) = KidsOf(tree, q)
      /\ Ids(tree) \subseteq Ids(tree')
  BY <1>1, <1>2, <1>3, RootNumbered
<1>5. Len(design.tops) \in Nat
  BY DesignsTyped DEF TypeOK, Design
<1>6. Count(tree', 0) = Len(design.tops) + cursor'
  <2>1. PICK k \in Nat, c \in Nat : k = Len(design.tops) /\ c = cursor
    BY <1>3, <1>5
  <2>2. Count(tree', 0) = (k + c) + 1 /\ (k + c) + 1 = k + (c + 1)
    <3>1. PICK x : x = Count(tree, 0)
      OBVIOUS
    <3>2. x = k + c /\ Count(tree', 0) = x + 1
      BY <1>3, <1>4, <2>1, <3>1
    <3> QED
      BY ONLY <3>2, k \in Nat, c \in Nat
  <2> QED
    BY <1>1, <2>1, <2>2
<1>7. ASSUME NEW j \in 1..Len(stack)
      PROVE  FrameNumbered(stack[j], BodyOf(stack[j].tpl), tree', last'["node"])
  <2>1. FrameNumbered(stack[j], BodyOf(stack[j].tpl), tree, last["node"])
    BY DEF TreeNumbered, FramesNumbered
  <2>2. Ids(tree) \subseteq Nat \ {0}
    BY <1>3 DEF NodesIssued
  <2>3. stack[j].inst \in Ids(tree)
    BY <2>1 DEF FrameNumbered
  <2>4. KidsOf(tree', stack[j].inst) = KidsOf(tree, stack[j].inst)
    BY <1>4, <2>2, <2>3
  <2>5. ASSUME stack[j].stage # "rows", NEW s \in 0..Len(BodyOf(stack[j].tpl).scopes)
        PROVE  KidsOf(tree', ScopeNode(stack[j], s)) = KidsOf(tree, ScopeNode(stack[j], s))
    <3>1. PICK q : q = ScopeNode(stack[j], s)
      OBVIOUS
    <3>2. q \in Ids(tree)
      BY <2>5, <3>1, LevelsWritten
    <3> QED
      BY <1>4, <2>2, <3>1, <3>2
  <2>6. /\ Len(BodyOf(stack[j].tpl).scopes) \in Nat /\ stack[j].scopeBase \in Nat
        /\ last'["node"] \in Nat /\ last["node"] <= last'["node"]
    BY <1>1, <1>3, FrameBody
  <2> QED
    BY <1>3, <1>4, <2>1, <2>4, <2>5, <2>6, FrameStill
<1>8. \A i, j \in 1..Len(stack) : i < j => stack[i].childBase < stack[j].inst
  BY DEF TreeNumbered, Climbing
<1> QED
  BY <1>1, <1>4, <1>6, <1>7, <1>8, TreeNumberedNext

\* The child that is due: which of its occurrence's nodes it is.
LEMMA ChildPlace ==
    ASSUME TypeOK, ChildDue, NEW b, b = BodyOf(Top.tpl),
           NEW m, m = Len(b.scopes) + Len(b.prims) + (Top.next - 1)
    PROVE  /\ m \in Nat /\ Seen(Top, b) = m /\ NextChild.scope \in 0..Len(b.scopes)
           /\ Levels(b)[m + 1] = NextChild.scope
           /\ \A kind : /\ ChildNode(kind).id = ChildId
                        /\ ChildNode(kind).parent = ScopeNode(Top, NextChild.scope)
                        /\ ChildNode(kind).ord = Ordinal(b, m + 1)
<1>1. stack # <<>> /\ Top.stage = "kids" /\ Top.next <= Len(b.children)
  BY DEF ChildDue, At
<1>2. PICK n \in 1..Len(stack) : Top = stack[n]
  BY <1>1, TopBody
<1>3. /\ b \in Body /\ ScopesLocal(b) /\ Top.next \in Nat \ {0}
      /\ Len(b.scopes) \in Nat /\ Len(b.prims) \in Nat
  BY <1>2, FrameBody
<1>4. Len(b.children) \in Nat /\ Top.next \in 1..Len(b.children)
  BY <1>1, <1>3, BodyParts
<1>5. PICK s \in Nat, p \in Nat, k \in Nat \ {0} :
        s = Len(b.scopes) /\ p = Len(b.prims) /\ k = Top.next
  BY <1>3
<1>6. m = s + p + (k - 1) /\ m \in Nat /\ m + 1 = s + p + k
  <2>1. m = s + p + (k - 1)
    BY <1>5, Zenon
  <2> QED
    BY ONLY <2>1, s \in Nat, p \in Nat, k \in Nat \ {0}
<1>7. Levels(b)[s + p + k] = b.children[k].scope
  BY <1>3, <1>4, <1>5, LevelsOf
<1>8. b.children[k] = NextChild
  BY <1>5 DEF NextChild
<1>9. b.children[k].scope \in 0..s
  BY <1>3, <1>4, <1>5 DEF ScopesLocal
<1>10. Seen(Top, b) = s + p + (k - 1)
  BY <1>1, <1>5 DEF Seen
<1>11. ASSUME NEW kind
       PROVE  /\ ChildNode(kind).id = ChildId
              /\ ChildNode(kind).parent = ScopeNode(Top, NextChild.scope)
              /\ ChildNode(kind).ord = Ordinal(b, s + p + k)
  BY <1>5 DEF ChildNode, NodeRow
<1> QED
  BY <1>5, <1>6, <1>7, <1>8, <1>9, <1>10, <1>11

\* The occurrence after its child: it has one node more.
After(g) ==
    /\ g.inst = Top.inst /\ g.tpl = Top.tpl /\ g.scopeBase = Top.scopeBase
    /\ g.childBase = Top.childBase
    /\ \/ g.stage = "conns" /\ g.next = Top.next
       \/ g.stage = "kids" /\ g.next = Top.next + 1

LEMMA FramesAfter ==
    ASSUME TypeOK, stack # <<>>
    PROVE  /\ After(Waiting) /\ After(Following)
           /\ Stamped.scopeBase = last["node"] /\ Stamped.childBase = Top.childBase
           /\ Entering.scopeBase = Top.scopeBase /\ Following.scopeBase = Top.scopeBase
  BY TopBody, FrameFields DEF After, Waiting, Following, Stamped, Entering, Frame

LEMMA SeenAfter ==
    ASSUME TypeOK, ChildDue, NEW b, b = BodyOf(Top.tpl), NEW g, After(g),
           NEW m, m = Len(b.scopes) + Len(b.prims) + (Top.next - 1)
    PROVE  Seen(g, b) = m + 1
<1>1. stack # <<>>
  BY DEF ChildDue, At
<1>2. PICK n \in 1..Len(stack) : Top = stack[n]
  BY <1>1, TopBody
<1>3. PICK s \in Nat, p \in Nat, k \in Nat \ {0} :
        s = Len(b.scopes) /\ p = Len(b.prims) /\ k = Top.next
  BY <1>2, FrameBody
<1>4. Seen(g, b) = s + p + k
  <2>1. CASE g.stage = "conns" /\ g.next = Top.next
    BY <1>3, <2>1 DEF Seen
  <2>2. CASE g.stage = "kids" /\ g.next = Top.next + 1
    <3>1. Seen(g, b) = s + p + (g.next - 1)
      BY <1>3, <2>2 DEF Seen
    <3>2. g.next = k + 1
      BY <1>3, <2>2
    <3> QED
      BY ONLY <3>1, <3>2, s \in Nat, p \in Nat, k \in Nat \ {0}
  <2> QED
    BY <2>1, <2>2 DEF After
<1>5. m = s + p + (k - 1)
  BY <1>3, Zenon
<1> QED
  BY ONLY <1>4, <1>5, s \in Nat, p \in Nat, k \in Nat \ {0}

\* The node of the child that is due.
LEMMA ChildNumbered ==
    ASSUME TypeOK, PathInv, TreeNumbered, NodesIssued, ChildDue, NEW kind,
           NEW V, V = tree \cup {ChildNode(kind)}
    PROVE  /\ RowsNumbered(V) /\ Ids(V) = Ids(tree) \cup {ChildId}
           /\ \A p \in Nat : p < Top.inst => KidsOf(V, p) = KidsOf(tree, p)
           /\ ChildId \in Nat \ {0} /\ Top.childBase < ChildId /\ KidsOf(V, ChildId) = {}
           /\ \A g : After(g) => FrameNumbered(g, BodyOf(g.tpl), V, last["node"])
<1> DEFINE node == ChildNode(kind)
<1>1. stack # <<>> /\ Top.stage = "kids"
  BY DEF ChildDue, At
<1>2. PICK n \in 1..Len(stack) : n = Len(stack) /\ Top = stack[n]
  BY <1>1, TopBody
<1>3. PICK b : b = BodyOf(Top.tpl)
  OBVIOUS
<1>4. PICK S \in Nat : S = Len(b.scopes)
  BY <1>2, <1>3, FrameBody
<1>5. PICK s : s = NextChild.scope
  OBVIOUS
<1>6. PICK m : m = Len(b.scopes) + Len(b.prims) + (Top.next - 1)
  OBVIOUS
<1>7. /\ m \in Nat /\ Seen(Top, b) = m /\ s \in 0..S /\ Levels(b)[m + 1] = s
      /\ node.id = ChildId /\ node.parent = ScopeNode(Top, s) /\ node.ord = Ordinal(b, m + 1)
  <2>1. /\ m \in Nat /\ Seen(Top, b) = m /\ NextChild.scope \in 0..Len(b.scopes)
        /\ Levels(b)[m + 1] = NextChild.scope
        /\ \A k : /\ ChildNode(k).id = ChildId
                  /\ ChildNode(k).parent = ScopeNode(Top, NextChild.scope)
                  /\ ChildNode(k).ord = Ordinal(b, m + 1)
    BY <1>3, <1>6, ChildPlace
  <2> QED
    BY <1>4, <1>5, <2>1
<1> HIDE DEF node
<1>8. /\ Top.inst \in Nat /\ Top.scopeBase \in Nat /\ Top.childBase \in Nat
      /\ Top.next \in Nat \ {0} /\ Top.inst <= Top.scopeBase
      /\ FrameNumbered(Top, b, tree, last["node"])
  BY <1>1, <1>2, <1>3, FrameBody DEF TreeNumbered, FramesNumbered, FrameNumbered
<1>9. \A u \in 0..S : Count(tree, ScopeNode(Top, u)) = Cardinality(Among(b, m, u))
  BY <1>1, <1>4, <1>7, <1>8 DEF FrameNumbered
<1>10. \A u \in 0..S : /\ ScopeNode(Top, u) \in Ids(tree) /\ ScopeNode(Top, u) \in Nat
                       /\ Top.inst <= ScopeNode(Top, u)
  BY <1>1, <1>2, <1>3, <1>4, LevelsWritten
<1>11. ChildId \notin Ids(tree) /\ Ids(tree) \subseteq Nat \ {0}
  BY ChildPromised DEF NodesIssued, TypeOK, Counter
<1>12. node.ord = Count(tree, node.parent)
  BY <1>7, <1>9, AmongNext
<1>13. /\ RowsNumbered(V) /\ Ids(V) = Ids(tree) \cup {ChildId}
       /\ \A p \in Nat : p # node.parent => KidsOf(V, p) = KidsOf(tree, p)
       /\ Count(V, node.parent) = Count(tree, node.parent) + 1
       /\ ChildId # 0 => KidsOf(V, ChildId) = {}
  <2>1. PICK W : W = tree
    OBVIOUS
  <2>2. /\ RowsNumbered(W) /\ node.id \notin Ids(W) /\ Ids(W) \subseteq Nat
        /\ node.parent \in Ids(W) \cup {0} /\ node.ord = Count(W, node.parent)
    BY <1>7, <1>10, <1>11, <1>12, <2>1 DEF TreeNumbered
  <2>3. /\ RowsNumbered(W \cup {node})
        /\ Ids(W \cup {node}) = Ids(W) \cup {node.id}
        /\ \A p \in Nat : p # node.parent => KidsOf(W \cup {node}, p) = KidsOf(W, p)
        /\ Count(W \cup {node}, node.parent) = Count(W, node.parent) + 1
        /\ node.id # 0 => KidsOf(W \cup {node}, node.id) = {}
    BY ONLY <2>2, RowsMore
  <2>4. V = W \cup {node}
    BY <2>1 DEF node
  <2> QED
    BY <1>7, <2>1, <2>3, <2>4
<1>14. ChildId \in Nat \ {0} /\ Top.childBase < ChildId
  BY <1>8 DEF ChildId
<1>15. \A p \in Nat : p < Top.inst => KidsOf(V, p) = KidsOf(tree, p)
  <2>1. PICK q \in Nat, i \in Nat : q = node.parent /\ i = Top.inst /\ i <= q
    BY <1>7, <1>8, <1>10
  <2>2. \A p \in Nat : p < i => p # q
    BY ONLY <2>1
  <2> QED
    BY <1>13, <2>1, <2>2
<1>16. ASSUME NEW g, After(g)
       PROVE  FrameNumbered(g, BodyOf(g.tpl), V, last["node"])
  <2>1. g.inst = Top.inst /\ BodyOf(g.tpl) = b /\ g.scopeBase = Top.scopeBase
        /\ g.childBase = Top.childBase /\ g.stage # "rows"
    BY <1>3, <1>16 DEF After
  <2>2. Seen(g, b) = m + 1
    BY <1>3, <1>6, <1>16, SeenAfter
  <2>3. \A u : ScopeNode(g, u) = ScopeNode(Top, u)
    BY <2>1 DEF ScopeNode
  <2>4. ASSUME NEW u \in 0..S
        PROVE  Count(V, ScopeNode(g, u)) = Cardinality(Among(b, m + 1, u))
    <3>1. CASE u = s
      <4>1. Cardinality(Among(b, m + 1, s)) = Cardinality(Among(b, m, s)) + 1
        BY <1>7, AmongNext
      <4> QED
        BY <1>7, <1>9, <1>13, <2>3, <3>1, <4>1
    <3>2. CASE u # s
      <4>1. Among(b, m + 1, u) = Among(b, m, u)
        BY <1>7, <3>2, AmongNext
      <4>2. ScopeNode(Top, u) # ScopeNode(Top, s)
        BY <1>7, <1>8, <3>2, LevelsApart
      <4>3. KidsOf(V, ScopeNode(Top, u)) = KidsOf(tree, ScopeNode(Top, u))
        BY <1>7, <1>10, <1>13, <4>2
      <4> QED
        BY <1>9, <2>3, <4>1, <4>3 DEF Count
    <3> QED
      BY <3>1, <3>2
  <2>5. /\ g.inst \in Ids(V)
        /\ g.inst <= g.scopeBase /\ g.scopeBase + S <= last["node"]
        /\ \A u \in 1..S : g.scopeBase + u \in Ids(V)
        /\ g.scopeBase + S <= g.childBase
    BY <1>1, <1>4, <1>8, <1>13, <2>1 DEF FrameNumbered
  <2> QED
    BY <1>4, <2>1, <2>2, <2>4, <2>5 DEF FrameNumbered
<1> QED
  BY <1>13, <1>14, <1>15, <1>16

LEMMA NumberedBox ==
    ASSUME TypeOK, PathInv, TreeNumbered, NodesIssued, StampUnresolved
    PROVE  TreeNumbered'
<1>1. /\ ChildDue /\ design' = design /\ phase = "tree" /\ UNCHANGED <<phase, cursor>>
      /\ tree' = tree \cup {ChildNode("unresolved")}
      /\ stack # <<>> /\ last["node"] \in Nat /\ last'["node"] = last["node"]
  <2>1. "node" \in DOMAIN last /\ "node" # "term" /\ "node" # "conn" /\ last["node"] \in Nat
    BY DEF TypeOK, Counter, Reserved
  <2> QED
    BY <2>1 DEF StampUnresolved, ChildDue, At
<1>2. Topped(Following) /\ After(Following) /\ Following.inst = Top.inst
  BY <1>1, StackMoves, FramesAfter, FrameFields
<1>3. /\ RowsNumbered(tree') /\ Ids(tree') = Ids(tree) \cup {ChildId}
      /\ \A p \in Nat : p < Top.inst => KidsOf(tree', p) = KidsOf(tree, p)
      /\ FrameNumbered(Following, BodyOf(Following.tpl), tree', last["node"])
  BY <1>1, <1>2, ChildNumbered
<1>4. last["node"] <= last'["node"]
  BY <1>1
<1> QED
  BY <1>1, <1>2, <1>3, <1>4, InnermostNumbered

LEMMA NumberedChild ==
    ASSUME TypeOK, PathInv, TreeNumbered, NodesIssued, StampChildModule
    PROVE  TreeNumbered'
<1>1. /\ ChildDue /\ design' = design /\ phase = "tree" /\ phase' = phase /\ cursor' = cursor
      /\ tree' = tree \cup {ChildNode("instance")}
      /\ stack # <<>> /\ last["node"] \in Nat /\ last' = last
  <2>1. last["node"] \in Nat
    BY DEF TypeOK, Counter
  <2> QED
    BY <2>1 DEF StampChildModule, ChildDue, At
<1>2. PICK n \in Nat \ {0} : n = Len(stack) /\ Top = stack[n]
  BY <1>1, TopBody
<1>3. /\ \A i \in 1..(n - 1) : stack'[i] = stack[i]
      /\ Len(stack') = n + 1 /\ stack'[n] = Waiting /\ stack'[n + 1] = ChildFrame
  BY <1>1, <1>2, StackMoves DEF BelowKept
<1>4. /\ After(Waiting) /\ Waiting.inst = Top.inst /\ Waiting.childBase = Top.childBase
      /\ ChildFrame.inst = ChildId /\ ChildFrame.stage = "rows"
  BY <1>1, FramesAfter, FrameFields, NewFrameFields DEF ChildFrame
<1>5. /\ RowsNumbered(tree') /\ Ids(tree') = Ids(tree) \cup {ChildId}
      /\ \A p \in Nat : p < Top.inst => KidsOf(tree', p) = KidsOf(tree, p)
      /\ ChildId \in Nat \ {0} /\ Top.childBase < ChildId /\ KidsOf(tree', ChildId) = {}
      /\ FrameNumbered(Waiting, BodyOf(Waiting.tpl), tree', last["node"])
  BY <1>1, <1>4, ChildNumbered
<1>6. \A j \in 1..(n - 1) :
        FrameNumbered(stack[j], BodyOf(stack[j].tpl), tree', last["node"])
  <2>1. \A p \in Nat \ {0} : p < Top.inst => KidsOf(tree', p) = KidsOf(tree, p)
    BY <1>5
  <2>2. last["node"] <= last["node"] /\ Ids(tree) \subseteq Ids(tree')
    <3>1. PICK x \in Nat : x = last["node"]
      BY <1>1
    <3>2. x <= x
      BY <3>1
    <3> QED
      BY <1>5, <3>1, <3>2
  <2> QED
    BY <1>1, <1>2, <2>1, <2>2, BelowNumbered
<1>7. FrameNumbered(ChildFrame, BodyOf(ChildFrame.tpl), tree', last["node"])
  BY <1>4, <1>5 DEF FrameNumbered
<1>8. \A j \in 1..Len(stack') : j \in 1..(n - 1) \/ j = n \/ j = n + 1
  BY <1>3
<1>9. \A j \in 1..Len(stack') :
        FrameNumbered(stack'[j], BodyOf(stack'[j].tpl), tree', last'["node"])
  BY <1>1, <1>3, <1>5, <1>6, <1>7, <1>8
<1>10. ASSUME NEW i \in 1..Len(stack'), NEW j \in 1..Len(stack'), i < j
       PROVE  stack'[i].childBase < stack'[j].inst
  <2>1. \A k, l \in 1..n : k < l => stack[k].childBase < stack[l].inst
    BY <1>2 DEF TreeNumbered, Climbing
  <2>2. \A k \in 1..n : stack'[k].inst = stack[k].inst /\ stack'[k].childBase = stack[k].childBase
    BY <1>2, <1>3, <1>4
  <2>3. CASE j \in 1..n
    <3>1. i \in 1..n
      BY <1>10, <2>3
    <3> QED
      BY <1>10, <2>1, <2>2, <2>3, <3>1
  <2>4. CASE j = n + 1
    <3>1. stack'[j].inst = ChildId
      BY <1>3, <1>4, <2>4
    <3>2. i \in 1..n
      BY <1>10, <2>4
    <3>3. stack[i].childBase <= Top.childBase
      <4>1. CASE i = n
        <5>1. Top.childBase \in Nat
          BY <1>2, FrameBody
        <5> QED
          BY <1>2, <4>1, <5>1
      <4>2. CASE i # n
        <5>1. i < n /\ n \in 1..n
          BY <1>2, <3>2, <4>2
        <5>2. stack[i].childBase < Top.inst
          BY <1>2, <2>1, <3>2, <5>1
        <5>3. PICK x \in Nat, y \in Nat, z \in Nat, c \in Nat :
                x = stack[i].childBase /\ y = Top.inst /\ z = Top.scopeBase /\ c = Top.childBase
          BY <1>2, <3>2, <5>1, FrameBody
        <5>4. n \in 1..Len(stack) /\ Top.stage = "kids"
          BY <1>1, <1>2 DEF ChildDue, At
        <5>5. ScopeNode(Top, 0) = Top.inst /\ ScopeNode(Top, 0) <= Top.childBase
          <6>1. 0 \in 0..Len(BodyOf(stack[n].tpl).scopes)
            BY <5>4, FrameBody
          <6> QED
            BY <1>2, <5>4, <6>1, LevelsWritten DEF ScopeNode
        <5> QED
          BY <5>2, <5>3, <5>5
      <4> QED
        BY <4>1, <4>2
    <3>4. PICK x \in Nat, c \in Nat, q \in Nat :
            x = stack[i].childBase /\ c = Top.childBase /\ q = ChildId
      BY <1>2, <1>5, <3>2, FrameBody
    <3> QED
      BY <1>5, <2>2, <3>1, <3>2, <3>3, <3>4
  <2> QED
    BY <1>3, <2>3, <2>4
<1>11. Count(tree', 0) = Count(tree, 0)
  <2>1. Top.inst \in Nat \ {0}
    <3>1. Top.inst \in Ids(tree)
      BY <1>2 DEF TreeNumbered, FramesNumbered, FrameNumbered
    <3> QED
      BY <3>1 DEF NodesIssued, TypeOK, Counter
  <2>2. KidsOf(tree', 0) = KidsOf(tree, 0)
    BY <1>5, <2>1
  <2> QED
    BY <2>2 DEF Count
<1>12. /\ phase' = "tree" => Count(tree', 0) = cursor'
       /\ phase' = "packages" => Count(tree', 0) = Len(design.tops) + cursor'
  BY <1>1, <1>11 DEF TreeNumbered, RootsCounted
<1> QED
  BY <1>1, <1>5, <1>9, <1>10, <1>12, TreeNumberedNext

\* The innermost occurrence goes on without a node.
LEMMA NumberedGoesOn ==
    ASSUME TypeOK, PathInv, TreeNumbered, NodesIssued, stack # <<>>, design' = design,
           phase = "tree", UNCHANGED <<phase, cursor, tree>>,
           last'["node"] \in Nat, last["node"] <= last'["node"],
           NEW f, Topped(f), f.inst = Top.inst, f.tpl = Top.tpl,
           Top.stage # "rows", f.stage # "rows", f.scopeBase = Top.scopeBase,
           Seen(f, BodyOf(f.tpl)) = Seen(Top, BodyOf(Top.tpl)),
           \/ f.stage \notin {"kids", "conns"}
           \/ f.scopeBase + Len(BodyOf(f.tpl).scopes) <= f.childBase
    PROVE  TreeNumbered'
<1>1. PICK n \in 1..Len(stack) : Top = stack[n]
  BY TopBody
<1>2. PICK b : b = BodyOf(Top.tpl) /\ BodyOf(f.tpl) = b
  OBVIOUS
<1>3. PICK S \in Nat, B \in Nat, x \in Nat, y \in Nat :
        S = Len(b.scopes) /\ B = Top.scopeBase /\ x = last["node"] /\ y = last'["node"]
  BY <1>1, <1>2, FrameBody DEF TypeOK, Counter
<1>4. FrameNumbered(Top, b, tree, last["node"])
  BY <1>1, <1>2 DEF TreeNumbered, FramesNumbered
<1>5. B + S <= x
  BY <1>2, <1>3, <1>4 DEF FrameNumbered
<1>6. B + S <= y
  BY <1>3, <1>5
<1>7. \A u : ScopeNode(f, u) = ScopeNode(Top, u)
  BY DEF ScopeNode
<1>8. FrameNumbered(f, b, tree', last'["node"])
  <2>1. /\ f.inst \in Ids(tree) /\ f.inst <= f.scopeBase
        /\ \A s \in 1..Len(b.scopes) : f.scopeBase + s \in Ids(tree)
        /\ \A s \in 0..Len(b.scopes) :
             Count(tree, ScopeNode(f, s)) = Cardinality(Among(b, Seen(f, b), s))
    BY <1>2, <1>4, <1>7 DEF FrameNumbered
  <2>2. f.scopeBase + Len(b.scopes) <= last'["node"]
    BY <1>3, <1>6
  <2>3. f.stage \in {"kids", "conns"} => f.scopeBase + Len(b.scopes) <= f.childBase
    BY <1>2
  <2> QED
    BY <2>1, <2>2, <2>3 DEF FrameNumbered
<1>9. /\ RowsNumbered(tree') /\ Ids(tree) \subseteq Ids(tree')
      /\ \A p \in Nat : p < Top.inst => KidsOf(tree', p) = KidsOf(tree, p)
  BY DEF TreeNumbered
<1> QED
  BY <1>2, <1>8, <1>9, InnermostNumbered

LEMMA NumberedEnter ==
    ASSUME TypeOK, PathInv, Fresh, TreeNumbered, NodesIssued, EnterChildren
    PROVE  TreeNumbered'
<1>1. /\ design' = design /\ phase = "tree" /\ UNCHANGED <<phase, cursor, tree>>
      /\ stack # <<>> /\ Top.stage = "guard" /\ last["node"] \in Nat
      /\ last'["node"] = last["node"] + Len(BodyOf(Top.tpl).children)
  <2>1. "node" \in DOMAIN last /\ last["node"] \in Nat
    BY DEF TypeOK, Counter
  <2> QED
    BY <2>1 DEF EnterChildren, At, dbVars
<1>2. PICK n \in 1..Len(stack) : Top = stack[n]
  BY <1>1, TopBody
<1>3. PICK b : b = BodyOf(Top.tpl)
  OBVIOUS
<1>4. Len(b.children) \in Nat
  BY <1>2, <1>3, FrameBody, BodyParts
<1>5. last'["node"] \in Nat /\ last["node"] <= last'["node"]
  <2>1. PICK x \in Nat, c \in Nat : x = last["node"] /\ c = Len(b.children)
    BY <1>1, <1>4
  <2>2. x + c \in Nat /\ x <= x + c
    BY <2>1
  <2> QED
    BY <1>1, <1>3, <2>1, <2>2
<1>6. /\ Topped(Entering) /\ Entering.inst = Top.inst /\ Entering.tpl = Top.tpl
      /\ Entering.stage = "kids" /\ Entering.scopeBase = Top.scopeBase
      /\ Entering.next = 1 /\ Entering.childBase = last["node"]
  BY <1>1, <1>2, StackMoves, FramesAfter, FrameFields DEF Fresh
<1>7. Seen(Entering, b) = Seen(Top, b)
  <2>1. Seen(Top, b) = Len(b.scopes) + Len(b.prims) + 0
    BY <1>1 DEF Seen
  <2>2. Seen(Entering, b) = Len(b.scopes) + Len(b.prims) + (1 - 1)
    BY <1>6 DEF Seen
  <2> QED
    BY <2>1, <2>2
<1>8. Entering.scopeBase + Len(b.scopes) <= Entering.childBase
  BY <1>1, <1>2, <1>3, <1>6 DEF TreeNumbered, FramesNumbered, FrameNumbered
<1> HIDE DEF Entering
<1> QED
  BY <1>1, <1>3, <1>5, <1>6, <1>7, <1>8, NumberedGoesOn

LEMMA NumberedConns ==
    ASSUME TypeOK, PathInv, TreeNumbered, NodesIssued, StampConns
    PROVE  TreeNumbered'
<1>1. /\ design' = design /\ phase = "tree" /\ UNCHANGED <<phase, cursor, tree>>
      /\ stack # <<>> /\ Top.stage = "conns" /\ last["node"] \in Nat
      /\ last'["node"] = last["node"]
  <2>1. "node" \in DOMAIN last /\ "conn" # "node" /\ last["node"] \in Nat
    BY DEF TypeOK, Counter
  <2> QED
    BY <2>1 DEF StampConns, At
<1>2. PICK n \in 1..Len(stack) : Top = stack[n]
  BY <1>1, TopBody
<1>3. PICK b : b = BodyOf(Top.tpl)
  OBVIOUS
<1>4. last'["node"] \in Nat /\ last["node"] <= last'["node"]
  BY <1>1
<1>5. /\ Topped(Following) /\ Following.inst = Top.inst /\ Following.tpl = Top.tpl
      /\ Following.stage = "kids" /\ Following.scopeBase = Top.scopeBase
      /\ Following.next = Top.next + 1 /\ Following.childBase = Top.childBase
  BY <1>1, <1>2, StackMoves, FramesAfter, FrameFields
<1>6. Seen(Following, b) = Seen(Top, b)
  <2>1. PICK k \in Nat \ {0} : k = Top.next
    BY <1>2, FrameBody
  <2>2. Seen(Top, b) = Len(b.scopes) + Len(b.prims) + k
    BY <1>1, <2>1 DEF Seen
  <2>3. Seen(Following, b) = Len(b.scopes) + Len(b.prims) + (Following.next - 1)
    BY <1>5 DEF Seen
  <2>4. Following.next - 1 = k
    BY <1>5, <2>1
  <2> QED
    BY <2>2, <2>3, <2>4
<1>7. Following.scopeBase + Len(b.scopes) <= Following.childBase
  BY <1>1, <1>2, <1>3, <1>5 DEF TreeNumbered, FramesNumbered, FrameNumbered
<1> QED
  BY <1>1, <1>3, <1>4, <1>5, <1>6, <1>7, NumberedGoesOn

\* The innermost occurrence returns.
LEMMA NumberedReturn ==
    ASSUME TypeOK, PathInv, TreeNumbered, CutRecursion \/ Return
    PROVE  TreeNumbered'
<1>1. UNCHANGED <<design, phase, cursor, last, tree>> /\ stack # <<>>
  BY DEF CutRecursion, Return, dbVars, At
<1>2. PICK n \in Nat \ {0} : n = Len(stack)
  BY <1>1, TopBody
<1>3. /\ \A i \in 1..(n - 1) : stack'[i] = stack[i]
      /\ Len(stack') = n - 1
  BY <1>1, <1>2, StackMoves DEF BelowKept
<1>4. \A j \in 1..Len(stack') : j \in 1..n /\ stack'[j] = stack[j]
  BY <1>2, <1>3
<1>5. \A j \in 1..Len(stack') :
        FrameNumbered(stack'[j], BodyOf(stack'[j].tpl), tree', last'["node"])
  BY <1>1, <1>2, <1>4 DEF TreeNumbered, FramesNumbered
<1>6. \A i, j \in 1..Len(stack') : i < j => stack'[i].childBase < stack'[j].inst
  BY <1>2, <1>4 DEF TreeNumbered, Climbing
<1>7. /\ RowsNumbered(tree')
      /\ phase' = "tree" => Count(tree', 0) = cursor'
      /\ phase' = "packages" => Count(tree', 0) = Len(design.tops) + cursor'
  BY <1>1 DEF TreeNumbered, RootsCounted
<1> QED
  BY <1>1, <1>5, <1>6, <1>7, TreeNumberedNext

\* No node comes and no occurrence goes on.
LEMMA NumberedStill ==
    ASSUME TypeOK, TreeNumbered, ResolveRef \/ CrossDep \/ Advance \/ UNCHANGED vars
    PROVE  TreeNumbered'
<1>1. UNCHANGED <<design, stack, tree>> /\ last'["node"] = last["node"]
  <2>1. "node" \in DOMAIN last /\ "dep" # "node"
    BY DEF TypeOK, Counter
  <2> QED
    BY <2>1 DEF ResolveRef, CrossDep, Advance, vars, dbVars
<1>2. /\ phase' = "tree" => Count(tree', 0) = cursor'
      /\ phase' = "packages" => Count(tree', 0) = Len(design.tops) + cursor'
  <2>1. CASE ResolveRef \/ CrossDep
    BY <2>1 DEF ResolveRef, CrossDep
  <2>2. CASE Advance
    <3>1. phase' # "tree" /\ (phase' = "packages" => phase = "tree") /\ cursor' = 0
      BY <2>2 DEF Advance, TypeOK
    <3>2. phase = "tree" => Count(tree, 0) = Len(design.tops)
      BY <2>2 DEF Advance, Work, TreeNumbered, RootsCounted
    <3>3. Len(design.tops) \in Nat
      BY DesignsTyped DEF TypeOK, Design
    <3>4. Len(design.tops) + 0 = Len(design.tops)
      BY <3>3
    <3> QED
      BY <1>1, <3>1, <3>2, <3>4
  <2>3. CASE UNCHANGED vars
    BY <2>3 DEF vars, dbVars, TreeNumbered, RootsCounted
  <2> QED
    BY <2>1, <2>2, <2>3
<1>3. /\ RowsNumbered(tree')
      /\ \A j \in 1..Len(stack') :
           FrameNumbered(stack'[j], BodyOf(stack'[j].tpl), tree', last'["node"])
      /\ \A i, j \in 1..Len(stack') : i < j => stack'[i].childBase < stack'[j].inst
  BY <1>1 DEF TreeNumbered, FramesNumbered, Climbing
<1> QED
  BY <1>1, <1>2, <1>3, TreeNumberedNext

\* The levels of the occurrence whose body is stamped: none has a node yet.
LEMMA LevelsFresh ==
    ASSUME TypeOK, TreeNumbered, NodesIssued, StampRows, NEW s \in Nat
    PROVE  /\ ScopeNode(Stamped, s) \in Nat /\ Top.inst <= ScopeNode(Stamped, s)
           /\ KidsOf(tree, ScopeNode(Stamped, s)) = {}
           /\ Top.inst \in Ids(tree) /\ Top.inst \in Nat /\ Top.inst <= last["node"]
<1>1. stack # <<>> /\ Top.stage = "rows"
  BY DEF StampRows, At
<1>2. PICK n \in 1..Len(stack) : Top = stack[n]
  BY <1>1, TopBody
<1>3. Top.inst \in Ids(tree) /\ KidsOf(tree, Top.inst) = {}
  BY <1>1, <1>2 DEF TreeNumbered, FramesNumbered, FrameNumbered
<1>4. PICK L \in Nat : L = last["node"] /\ Ids(tree) \subseteq 1..L
  BY DEF TypeOK, Counter, NodesIssued
<1>5. PICK i \in 1..L : i = Top.inst
  BY <1>3, <1>4
<1>6. PICK q : q = ScopeNode(Stamped, s)
  OBVIOUS
<1>7. q = IF s = 0 THEN i ELSE L + s
  BY <1>1, <1>4, <1>5, <1>6, StampedType DEF ScopeNode
<1>8. q \in Nat /\ i <= q /\ (s # 0 => q \notin 0..L)
  BY <1>5, <1>7
<1>9. KidsOf(tree, q) = {}
  <2>1. CASE s = 0
    BY <1>3, <1>5, <1>7, <2>1
  <2>2. CASE s # 0
    <3>1. \A r \in tree : r.parent \in 0..L
      BY <1>4 DEF TreeNumbered, RowsNumbered
    <3> QED
      BY <1>8, <2>2, <3>1 DEF KidsOf
  <2> QED
    BY <2>1, <2>2
<1> QED
  BY <1>3, <1>4, <1>5, <1>6, <1>8, <1>9

LEMMA NumberedRows ==
    ASSUME TypeOK, PathInv, TreeNumbered, NodesIssued, StampRows
    PROVE  TreeNumbered'
<1>1. PICK b : b = BodyOf(Top.tpl)
  OBVIOUS
<1>2. PICK N : N = BodyNodes(Stamped, b)
  OBVIOUS
<1>3. /\ stack # <<>> /\ Top.stage = "rows" /\ b \in Body /\ phase = "tree"
      /\ design' = design /\ UNCHANGED <<phase, cursor>>
      /\ tree' = tree \cup N
      /\ last'["node"] = last["node"] + (Len(b.scopes) + Len(b.prims))
      /\ Topped(Stamped)
  BY <1>1, <1>2, RowsStamped, StackMoves
<1>4. PICK S \in Nat, L \in Nat, m \in Nat :
        /\ S = Len(b.scopes) /\ L = last["node"] /\ m = Len(b.scopes) + Len(b.prims)
        /\ S <= m
  <2>1. PICK S \in Nat, P \in Nat : S = Len(b.scopes) /\ P = Len(b.prims)
    BY <1>3, BodyParts
  <2>2. S + P \in Nat /\ S <= S + P
    OBVIOUS
  <2>3. last["node"] \in Nat
    BY DEF TypeOK, Counter
  <2> QED
    BY <2>1, <2>2, <2>3
<1>5. /\ Stamped.tpl = Top.tpl /\ Stamped.inst = Top.inst /\ Stamped.stage = "guard"
      /\ Stamped.scopeBase = L
  BY <1>3, <1>4, StampedType
<1>6. last'["node"] = L + m /\ L + m \in Nat /\ L <= L + m /\ S <= m /\ L + S <= L + m
  <2>1. last'["node"] = L + m
    BY <1>3, <1>4, Zenon
  <2>2. S <= m
    BY <1>4
  <2>3. L + m \in Nat /\ L <= L + m /\ L + S <= L + m
    BY ONLY <2>2, L \in Nat, m \in Nat, S \in Nat
  <2> QED
    BY <2>1, <2>2, <2>3
<1>7. ScopesLocal(b)
  <2>1. PICK n \in 1..Len(stack) : Top = stack[n]
    BY <1>3, TopBody
  <2> QED
    BY <1>1, <2>1, FrameBody
<1>8. /\ Top.inst \in Ids(tree) /\ Top.inst \in Nat /\ Top.inst <= L
      /\ \A s \in Nat : /\ ScopeNode(Stamped, s) \in Nat /\ Top.inst <= ScopeNode(Stamped, s)
                        /\ KidsOf(tree, ScopeNode(Stamped, s)) = {}
  BY <1>4, LevelsFresh
<1>9. /\ IsFiniteSet(N)
      /\ \A s \in 0..S : /\ Count(N, ScopeNode(Stamped, s)) = Cardinality(Among(b, m, s))
                         /\ SiblingsNumbered(N, ScopeNode(Stamped, s))
      /\ \A r \in N : \E s \in 0..S : r.parent = ScopeNode(Stamped, s)
  <2>1. PICK f : f = Stamped
    OBVIOUS
  <2>2. f.scopeBase \in Nat /\ f.inst \in Nat /\ f.inst <= f.scopeBase
    BY <1>5, <1>8, <2>1
  <2>3. m = Len(b.scopes) + Len(b.prims) /\ b \in Body /\ ScopesLocal(b)
    BY <1>3, <1>4, <1>7
  <2>4. /\ IsFiniteSet(BodyNodes(f, b))
        /\ \A s \in 0..Len(b.scopes) :
             /\ Count(BodyNodes(f, b), ScopeNode(f, s)) = Cardinality(Among(b, m, s))
             /\ SiblingsNumbered(BodyNodes(f, b), ScopeNode(f, s))
        /\ \A r \in BodyNodes(f, b) :
             \E s \in 0..Len(b.scopes) : r.parent = ScopeNode(f, s)
    BY ONLY <2>2, <2>3, m \in Nat, BodyKids
  <2> QED
    BY <1>2, <1>4, <2>1, <2>4
<1>10. \A k \in 1..m : L + k \in Ids(N)
  <2>1. PICK f : f = Stamped
    OBVIOUS
  <2>2. f.scopeBase \in Nat /\ b \in Body
    BY <1>3, <1>5, <2>1
  <2>3. \A k \in 1..(Len(b.scopes) + Len(b.prims)) :
          \E r \in BodyNodes(f, b) : r.id = f.scopeBase + k
    BY ONLY <2>2, BodyNode
  <2>4. \A k \in 1..m : \E r \in N : r.id = L + k
    BY <1>2, <1>4, <1>5, <2>1, <2>3, Zenon
  <2> QED
    BY <2>4 DEF Ids
<1>11. Ids(tree') = Ids(tree) \cup Ids(N)
  BY <1>3 DEF Ids
<1>12. \A s \in 0..S : ScopeNode(Stamped, s) \in Ids(tree')
  <2>1. \A s \in 0..S : s = 0 \/ s \in 1..m
    BY ONLY <1>6, S \in Nat, m \in Nat
  <2>2. \A s \in 0..S : ScopeNode(Stamped, s) = IF s = 0 THEN Top.inst ELSE L + s
    BY <1>5 DEF ScopeNode
  <2> QED
    BY <1>8, <1>10, <1>11, <2>1, <2>2
<1>13. \A p \in Nat : KidsOf(N, p) # {} => \E s \in 0..S : p = ScopeNode(Stamped, s)
  BY <1>9 DEF KidsOf
<1>14. \A p \in Nat : KidsOf(tree, p) = {} \/ KidsOf(N, p) = {}
  <2>1. \A s \in 0..S : s \in Nat
    BY <1>4
  <2> QED
    BY <1>8, <1>13, <2>1
<1>15. \A p \in Nat : KidsOf(N, p) # {} => SiblingsNumbered(N, p)
  BY <1>9, <1>13
<1>16. \A p \in Nat : /\ SiblingsNumbered(tree', p)
                      /\ KidsOf(N, p) = {} => KidsOf(tree', p) = KidsOf(tree, p)
                      /\ KidsOf(tree, p) = {} => KidsOf(tree', p) = KidsOf(N, p)
  <2>1. PICK W : W = tree
    OBVIOUS
  <2>2. \A p \in Nat : SiblingsNumbered(W, p)
    BY <2>1 DEF TreeNumbered, RowsNumbered
  <2>3. \A p \in Nat : KidsOf(W, p) = {} \/ KidsOf(N, p) = {}
    BY <1>14, <2>1
  <2>4. \A p \in Nat : /\ SiblingsNumbered(W \cup N, p)
                       /\ KidsOf(N, p) = {} => KidsOf(W \cup N, p) = KidsOf(W, p)
                       /\ KidsOf(W, p) = {} => KidsOf(W \cup N, p) = KidsOf(N, p)
    BY ONLY <1>15, <2>2, <2>3, NodesNumbered
  <2> QED
    BY <1>3, <2>1, <2>4
<1>17. RowsNumbered(tree')
  <2>1. IsFiniteSet(tree')
    BY <1>3, <1>9, FS_Union DEF TreeNumbered, RowsNumbered
  <2>2. \A r \in tree' : r.parent \in Ids(tree') \cup {0}
    <3>1. \A r \in tree : r.parent \in Ids(tree) \cup {0}
      BY DEF TreeNumbered, RowsNumbered
    <3>2. \A r \in N : r.parent \in Ids(tree')
      BY <1>9, <1>12
    <3> QED
      BY <1>3, <1>11, <3>1, <3>2
  <2> QED
    BY <1>16, <2>1, <2>2 DEF RowsNumbered
<1>18. \A p \in Nat : p < Top.inst => KidsOf(tree', p) = KidsOf(tree, p)
  <2>1. ASSUME NEW p \in Nat, p < Top.inst
        PROVE  KidsOf(N, p) = {}
    <3>1. SUFFICES ASSUME NEW s \in 0..S, p = ScopeNode(Stamped, s) PROVE FALSE
      BY <1>13, <2>1
    <3>2. s \in Nat
      BY <1>4
    <3>3. PICK i \in Nat : i = Top.inst
      BY <1>8
    <3>4. i <= p /\ p < i
      BY <1>8, <2>1, <3>1, <3>2, <3>3
    <3> QED
      BY ONLY <3>4, i \in Nat, p \in Nat
  <2> QED
    BY <1>16, <2>1
<1>19. FrameNumbered(Stamped, BodyOf(Stamped.tpl), tree', last'["node"])
  <2>1. BodyOf(Stamped.tpl) = b
    BY <1>1, <1>5
  <2>2. Seen(Stamped, b) = m
    <3>1. Seen(Stamped, b) = Len(b.scopes) + Len(b.prims) + 0
      BY <1>5 DEF Seen
    <3>2. Seen(Stamped, b) = m + 0
      BY <1>4, <3>1, Zenon
    <3> QED
      BY <3>2
  <2>3. L + S <= L + m
    BY <1>6
  <2>4. \A s \in 1..S : L + s \in Ids(tree')
    <3>1. \A s \in 1..S : s \in 1..m
      BY ONLY <1>6, S \in Nat, m \in Nat
    <3> QED
      BY <1>10, <1>11, <3>1
  <2>5. ASSUME NEW s \in 0..S
        PROVE  Count(tree', ScopeNode(Stamped, s)) = Cardinality(Among(b, m, s))
    <3>1. s \in Nat
      BY <1>4
    <3>2. KidsOf(tree', ScopeNode(Stamped, s)) = KidsOf(N, ScopeNode(Stamped, s))
      BY <1>8, <1>16, <3>1
    <3> QED
      BY <1>9, <3>2 DEF Count
  <2>6. Stamped.inst \in Ids(tree') /\ Stamped.inst <= Stamped.scopeBase
    BY <1>5, <1>8, <1>11
  <2>7. Stamped.scopeBase + Len(b.scopes) <= last'["node"]
    BY <1>4, <1>5, <1>6, <2>3
  <2>8. \A s \in 1..Len(b.scopes) : Stamped.scopeBase + s \in Ids(tree')
    BY <1>4, <1>5, <2>4
  <2>9. \A s \in 0..Len(b.scopes) :
          Count(tree', ScopeNode(Stamped, s)) = Cardinality(Among(b, Seen(Stamped, b), s))
    BY <1>4, <2>2, <2>5
  <2> QED
    BY <1>5, <2>1, <2>6, <2>7, <2>8, <2>9 DEF FrameNumbered
<1>20. Ids(tree) \subseteq Ids(tree') /\ last'["node"] \in Nat /\ last["node"] <= last'["node"]
  BY <1>4, <1>6, <1>11
<1> QED
  BY <1>3, <1>5, <1>17, <1>18, <1>19, <1>20, InnermostNumbered

LEMMA TreeNumberedStep ==
    TypeOK /\ PathInv /\ Fresh /\ NodesIssued /\ TreeNumbered /\ [Next]_vars
      => TreeNumbered'
<1> SUFFICES ASSUME TypeOK, PathInv, Fresh, NodesIssued, TreeNumbered, [Next]_vars
             PROVE  TreeNumbered'
  OBVIOUS
<1>1. CASE StampTop
  BY <1>1, NumberedTop
<1>2. CASE StampRows
  BY <1>2, NumberedRows
<1>3. CASE CutRecursion \/ Return
  BY <1>3, NumberedReturn
<1>4. CASE EnterChildren
  BY <1>4, NumberedEnter
<1>5. CASE StampChildModule
  BY <1>5, NumberedChild
<1>6. CASE StampConns
  BY <1>6, NumberedConns
<1>7. CASE StampUnresolved
  BY <1>7, NumberedBox
<1>8. CASE StampPackage
  BY <1>8, NumberedPackage
<1>9. CASE ResolveRef \/ CrossDep \/ Advance \/ UNCHANGED vars
  BY <1>9, NumberedStill
<1> QED
  BY <1>1, <1>2, <1>3, <1>4, <1>5, <1>6, <1>7, <1>8, <1>9 DEF Next

LEMMA OrdinalsOfRows ==
    ASSUME TypeOK, NodesIssued, TreeNumbered
    PROVE  SiblingOrdinals
<1>1. Ids(tree) \subseteq Nat
  BY DEF TypeOK, Counter, NodesIssued
<1>2. ASSUME NEW r \in tree
      PROVE  OrdsOf(tree, r.parent) = 0..(Count(tree, r.parent) - 1)
  <2>1. r.parent \in Nat
    BY <1>1 DEF TreeNumbered, RowsNumbered
  <2> QED
    BY <2>1 DEF TreeNumbered, RowsNumbered, SiblingsNumbered
<1> QED
  BY <1>2 DEF SiblingOrdinals, OrdsOf, Count, KidsOf

-----------------------------------------------------------------------------
(* The numbers of the seal.                                                *)

Counted == [duplicatePaths : Int, recursive : Int, stamped : Int,
            insts : Int, conns : Int, deps : Int]

\* How much a step adds to each number.
Adds(d, r, s, i, c, e) ==
    /\ stats' \in Counted
    /\ stats'.duplicatePaths = stats.duplicatePaths + d
    /\ stats'.recursive = stats.recursive + r
    /\ stats'.stamped = stats.stamped + s
    /\ stats'.insts = stats.insts + i
    /\ stats'.conns = stats.conns + c
    /\ stats'.deps = stats.deps + e

TopNode == NodeRow(last["node"] + 1, 0, design.tops[cursor + 1].name, "root", cursor)

\* The numbers, one by one.
LEMMA CountedParts ==
    ASSUME stats \in Counted
    PROVE  \E p \in Int, q \in Int, u \in Int, v \in Int, w \in Int, z \in Int :
             stats = [duplicatePaths |-> p, recursive |-> q, stamped |-> u,
                      insts |-> v, conns |-> w, deps |-> z]
  BY DEF Counted

LEMMA InstAdds ==
    ASSUME stats \in Counted, NEW d \in Int,
           stats' = [stats EXCEPT !.insts = @ + 1, !.duplicatePaths = @ + d]
    PROVE  Adds(d, 0, 0, 1, 0, 0)
<1>1. PICK p \in Int, q \in Int, u \in Int, v \in Int, w \in Int, z \in Int :
        stats = [duplicatePaths |-> p, recursive |-> q, stamped |-> u,
                   insts |-> v, conns |-> w, deps |-> z]
  BY CountedParts
<1>2. stats' = [duplicatePaths |-> p + d, recursive |-> q, stamped |-> u,
                   insts |-> v + 1, conns |-> w, deps |-> z]
  BY <1>1
<1> QED
  BY <1>1, <1>2 DEF Adds, Counted

LEMMA BodyAdds ==
    ASSUME stats \in Counted, NEW d \in Int, NEW e \in Int,
           stats' = [stats EXCEPT !.stamped = @ + 1, !.deps = @ + e,
                                   !.duplicatePaths = @ + d]
    PROVE  Adds(d, 0, 1, 0, 0, e)
<1>1. PICK p \in Int, q \in Int, u \in Int, v \in Int, w \in Int, z \in Int :
        stats = [duplicatePaths |-> p, recursive |-> q, stamped |-> u,
                   insts |-> v, conns |-> w, deps |-> z]
  BY CountedParts
<1>2. stats' = [duplicatePaths |-> p + d, recursive |-> q, stamped |-> u + 1,
                   insts |-> v, conns |-> w, deps |-> z + e]
  BY <1>1
<1> QED
  BY <1>1, <1>2 DEF Adds, Counted

LEMMA CutAdds ==
    ASSUME stats \in Counted,
           stats' = [stats EXCEPT !.recursive = @ + 1]
    PROVE  Adds(0, 1, 0, 0, 0, 0)
<1>1. PICK p \in Int, q \in Int, u \in Int, v \in Int, w \in Int, z \in Int :
        stats = [duplicatePaths |-> p, recursive |-> q, stamped |-> u,
                   insts |-> v, conns |-> w, deps |-> z]
  BY CountedParts
<1>2. stats' = [duplicatePaths |-> p, recursive |-> q + 1, stamped |-> u,
                   insts |-> v, conns |-> w, deps |-> z]
  BY <1>1
<1> QED
  BY <1>1, <1>2 DEF Adds, Counted

LEMMA ConnsAdd ==
    ASSUME stats \in Counted, NEW c \in Int,
           stats' = [stats EXCEPT !.conns = @ + c]
    PROVE  Adds(0, 0, 0, 0, c, 0)
<1>1. PICK p \in Int, q \in Int, u \in Int, v \in Int, w \in Int, z \in Int :
        stats = [duplicatePaths |-> p, recursive |-> q, stamped |-> u,
                   insts |-> v, conns |-> w, deps |-> z]
  BY CountedParts
<1>2. stats' = [duplicatePaths |-> p, recursive |-> q, stamped |-> u,
                   insts |-> v, conns |-> w + c, deps |-> z]
  BY <1>1
<1> QED
  BY <1>1, <1>2 DEF Adds, Counted

LEMMA BoxAdds ==
    ASSUME stats \in Counted, NEW d \in Int, NEW c \in Int,
           stats' = [stats EXCEPT !.insts = @ + 1, !.conns = @ + c,
                                   !.duplicatePaths = @ + d]
    PROVE  Adds(d, 0, 0, 1, c, 0)
<1>1. PICK p \in Int, q \in Int, u \in Int, v \in Int, w \in Int, z \in Int :
        stats = [duplicatePaths |-> p, recursive |-> q, stamped |-> u,
                   insts |-> v, conns |-> w, deps |-> z]
  BY CountedParts
<1>2. stats' = [duplicatePaths |-> p + d, recursive |-> q, stamped |-> u,
                   insts |-> v + 1, conns |-> w + c, deps |-> z]
  BY <1>1
<1> QED
  BY <1>1, <1>2 DEF Adds, Counted

LEMMA PackageAdds ==
    ASSUME stats \in Counted,
           stats' = [stats EXCEPT !.insts = @ + 1]
    PROVE  Adds(0, 0, 0, 1, 0, 0)
<1>1. PICK p \in Int, q \in Int, u \in Int, v \in Int, w \in Int, z \in Int :
        stats = [duplicatePaths |-> p, recursive |-> q, stamped |-> u,
                   insts |-> v, conns |-> w, deps |-> z]
  BY CountedParts
<1>2. stats' = [duplicatePaths |-> p, recursive |-> q, stamped |-> u,
                   insts |-> v + 1, conns |-> w, deps |-> z]
  BY <1>1
<1> QED
  BY <1>1, <1>2 DEF Adds, Counted

LEMMA DepAdds ==
    ASSUME stats \in Counted,
           stats' = [stats EXCEPT !.deps = @ + 1]
    PROVE  Adds(0, 0, 0, 0, 0, 1)
<1>1. PICK p \in Int, q \in Int, u \in Int, v \in Int, w \in Int, z \in Int :
        stats = [duplicatePaths |-> p, recursive |-> q, stamped |-> u,
                   insts |-> v, conns |-> w, deps |-> z]
  BY CountedParts
<1>2. stats' = [duplicatePaths |-> p, recursive |-> q, stamped |-> u,
                   insts |-> v, conns |-> w, deps |-> z + 1]
  BY <1>1
<1> QED
  BY <1>1, <1>2 DEF Adds, Counted

LEMMA NoneAdds ==
    ASSUME stats \in Counted,
           stats' = stats
    PROVE  Adds(0, 0, 0, 0, 0, 0)
<1>1. PICK p \in Int, q \in Int, u \in Int, v \in Int, w \in Int, z \in Int :
        stats = [duplicatePaths |-> p, recursive |-> q, stamped |-> u,
                   insts |-> v, conns |-> w, deps |-> z]
  BY CountedParts
<1>2. stats' = [duplicatePaths |-> p, recursive |-> q, stamped |-> u,
                   insts |-> v, conns |-> w, deps |-> z]
  BY <1>1
<1> QED
  BY <1>1, <1>2 DEF Adds, Counted

-----------------------------------------------------------------------------
(* Names taken.                                                            *)

KeysOf(W) == {<<r.parent, r.name>> : r \in W}
NotedOf(W) == {r \in W : r.kind # "package"}

LEMMA KeysFinite ==
    ASSUME NEW W, IsFiniteSet(W)
    PROVE  /\ IsFiniteSet(KeysOf(W)) /\ Cardinality(KeysOf(W)) \in Nat
           /\ Cardinality(W) \in Nat
<1>1. KeysOf(W) = {[q \in W |-> <<q.parent, q.name>>][r] : r \in W}
  BY DEF KeysOf
<1>2. IsFiniteSet({[q \in W |-> <<q.parent, q.name>>][r] : r \in W})
  <2>1. PICK g : g = [r \in W |-> <<r.parent, r.name>>]
    OBVIOUS
  <2>2. g \in Surjection(W, KeysOf(W))
    BY <1>1, <2>1 DEF Surjection
  <2> QED
    BY <1>1, <2>2, FS_Surjection
<1> QED
  BY <1>1, <1>2, FS_CardinalityType

LEMMA JoinCount ==
    ASSUME NEW S, NEW T, IsFiniteSet(S), IsFiniteSet(T), S \cap T = {}
    PROVE  /\ IsFiniteSet(S \cup T) /\ Cardinality(S \cup T) = Cardinality(S) + Cardinality(T)
           /\ Cardinality(S) \in Nat /\ Cardinality(T) \in Nat
<1>1. Cardinality(S \cap T) = 0
  BY FS_EmptySet
<1>2. /\ IsFiniteSet(S \cup T)
      /\ Cardinality(S \cup T) = Cardinality(S) + Cardinality(T) - Cardinality(S \cap T)
  BY FS_Union
<1>3. Cardinality(S) \in Nat /\ Cardinality(T) \in Nat
  BY FS_CardinalityType
<1> QED
  BY <1>1, <1>2, <1>3

\* The nodes of N are noted: those whose name is taken are duplicates.
LEMMA NotedMore ==
    ASSUME NEW W, IsFiniteSet(W), NEW N, IsFiniteSet(N), W \cap N = {}
    PROVE  /\ Cardinality(KeysOf(N) \ KeysOf(W)) \in Nat /\ Cardinality(N) \in Nat
           /\ Cardinality(W \cup N) - Cardinality(KeysOf(W \cup N)) =
                (Cardinality(W) - Cardinality(KeysOf(W)))
                  + (Cardinality(N) - Cardinality(KeysOf(N) \ KeysOf(W)))
<1>1. PICK K : K = KeysOf(N) \ KeysOf(W)
  OBVIOUS
<1>2. IsFiniteSet(K) /\ IsFiniteSet(KeysOf(W))
  BY <1>1, KeysFinite, FS_Subset
<1>3. KeysOf(W \cup N) = KeysOf(W) \cup K /\ KeysOf(W) \cap K = {}
  BY <1>1 DEF KeysOf
<1>4. /\ Cardinality(KeysOf(W) \cup K) = Cardinality(KeysOf(W)) + Cardinality(K)
      /\ Cardinality(KeysOf(W)) \in Nat /\ Cardinality(K) \in Nat
  BY <1>2, <1>3, JoinCount
<1>5. /\ Cardinality(W \cup N) = Cardinality(W) + Cardinality(N)
      /\ Cardinality(W) \in Nat /\ Cardinality(N) \in Nat
  BY JoinCount
<1>6. PICK w \in Nat, x \in Nat, y \in Nat, z \in Nat :
        /\ w = Cardinality(W) /\ x = Cardinality(KeysOf(W))
        /\ y = Cardinality(N) /\ z = Cardinality(K)
  BY <1>4, <1>5
<1>7. (w + y) - (x + z) = (w - x) + (y - z)
  OBVIOUS
<1>8. /\ Cardinality(W \cup N) = w + y /\ Cardinality(KeysOf(W \cup N)) = x + z
      /\ Cardinality(KeysOf(N) \ KeysOf(W)) = z
  BY <1>1, <1>3, <1>4, <1>5, <1>6
<1> QED
  BY <1>6, <1>7, <1>8

\* What NoteChildren adds to the names.
LEMMA NamesNoted ==
    ASSUME NEW N, NoteChildren(N)
    PROVE  DOMAIN childByName' = DOMAIN childByName \cup KeysOf(N)
<1> DEFINE keys == {<<r.parent, r.name>> : r \in N}
           taken == DOMAIN childByName
           value(k) == IF k \in taken THEN childByName[k]
                       ELSE First({r.id : r \in {m \in N : <<m.parent, m.name>> = k}})
<1>1. childByName' = [k \in taken \cup keys |-> value(k)]
  BY Zenon DEF NoteChildren
<1> HIDE DEF value, taken, keys
<1>2. DOMAIN childByName' = taken \cup keys
  BY <1>1
<1> QED
  BY <1>2 DEF taken, keys, KeysOf

\* Nodes come, and their names are noted.
Notes(N) ==
    /\ NoteChildren(N) /\ tree' = tree \cup N
    /\ IsFiniteSet(N) /\ tree \cap N = {}
    /\ \A r \in N : r.kind # "package"

LEMMA OneNoted ==
    ASSUME NEW node, node.id \notin Ids(tree), node.kind # "package",
           NoteChildren({node}), tree' = tree \cup {node}
    PROVE  Notes({node})
  BY FS_Singleton DEF Notes, Ids

LEMMA NodesNoted ==
    ASSUME TypeOK, PathInv, NodesIssued, TreeNumbered
    PROVE  /\ StampTop => Notes({TopNode})
           /\ StampRows => Notes(BodyNodes(Stamped, BodyOf(Top.tpl)))
           /\ StampChildModule => Notes({ChildNode("instance")})
           /\ StampUnresolved => Notes({ChildNode("unresolved")})
<1>1. PICK L \in Nat : L = last["node"] /\ Ids(tree) \subseteq 1..L
  BY DEF TypeOK, Counter, NodesIssued
<1>2. ASSUME StampTop PROVE Notes({TopNode})
  <2>1. TopNode.id = L + 1 /\ TopNode.kind = "root"
    BY <1>1 DEF TopNode, NodeRow
  <2>2. TopNode.id \notin Ids(tree)
    BY <1>1, <2>1
  <2>3. NoteChildren({TopNode}) /\ tree' = tree \cup {TopNode}
    BY <1>2 DEF StampTop, TopNode
  <2> HIDE DEF TopNode
  <2> QED
    BY <2>1, <2>2, <2>3, OneNoted
<1>3. ASSUME NEW kind, kind # "package", ChildDue,
             NoteChildren({ChildNode(kind)}), tree' = tree \cup {ChildNode(kind)}
      PROVE  Notes({ChildNode(kind)})
  <2>1. ChildNode(kind).id \notin Ids(tree) /\ ChildNode(kind).kind = kind
    BY <1>3, ChildPromised DEF ChildNode, NodeRow
  <2> QED
    BY <1>3, <2>1, OneNoted
<1>4. StampChildModule => Notes({ChildNode("instance")})
  BY <1>3 DEF StampChildModule
<1>5. StampUnresolved => Notes({ChildNode("unresolved")})
  BY <1>3 DEF StampUnresolved
<1>6. ASSUME StampRows PROVE Notes(BodyNodes(Stamped, BodyOf(Top.tpl)))
  <2>1. PICK b : b = BodyOf(Top.tpl)
    OBVIOUS
  <2>2. PICK N : N = BodyNodes(Stamped, b)
    OBVIOUS
  <2>3. stack # <<>> /\ b \in Body /\ tree' = tree \cup N
    BY <1>6, <2>1, <2>2, RowsStamped
  <2>4. NoteChildren(N)
    <3>1. BodyNodes([Top EXCEPT !.stage = "guard",
                      !.base = [tab \in Reserved |-> last[tab]],
                      !.scopeBase = last["node"]], BodyOf(Top.tpl)) = N
      BY <2>1, <2>2 DEF Stamped
    <3> QED
      BY <1>6, <3>1 DEF StampRows
  <2>5. PICK f : f = Stamped
    OBVIOUS
  <2>6. f.scopeBase = L
    BY <1>1, <2>3, <2>5, StampedType
  <2>7. f.inst \in Nat /\ f.inst <= L
    BY <1>1, <1>6, <2>3, <2>5, LevelsFresh, StampedType
  <2>8. ScopesLocal(b)
    <3>1. PICK n \in 1..Len(stack) : Top = stack[n]
      BY <2>3, TopBody
    <3> QED
      BY <2>1, <3>1, FrameBody
  <2>9. PICK m \in Nat : m = Len(b.scopes) + Len(b.prims)
    BY <2>3, NodesFillBlock, <2>6
  <2>10. IsFiniteSet(BodyNodes(f, b))
    BY ONLY <2>3, <2>6, <2>7, <2>8, <2>9, L \in Nat, BodyKids
  <2>11. \A r \in BodyNodes(f, b) :
           /\ r.kind # "package"
           /\ \E k \in 1..(Len(b.scopes) + Len(b.prims)) : r.id = f.scopeBase + k
    BY ONLY <2>3, <2>6, L \in Nat, BodyNode
  <2>12. \A r \in N : r.kind # "package" /\ \E k \in 1..m : r.id = L + k
    BY <2>2, <2>5, <2>6, <2>9, <2>11
  <2>13. \A k \in 1..m : L + k \notin 1..L
    BY ONLY L \in Nat, m \in Nat
  <2>14. tree \cap N = {}
    <3>1. \A r \in tree : r.id \in 1..L
      BY <1>1 DEF Ids
    <3> QED
      BY <2>12, <2>13, <3>1
  <2> QED
    BY <2>1, <2>2, <2>3, <2>4, <2>5, <2>10, <2>12, <2>14 DEF Notes
<1> QED
  BY <1>2, <1>4, <1>5, <1>6

LEMMA CollisionsType ==
    ASSUME NEW N, IsFiniteSet(N)
    PROVE  /\ Collisions(N) \in Int
           /\ Collisions(N) = Cardinality(N) - Cardinality(KeysOf(N) \ DOMAIN childByName)
<1>1. Collisions(N) = Cardinality(N) - Cardinality(KeysOf(N) \ DOMAIN childByName)
  BY DEF Collisions, KeysOf
<1>2. IsFiniteSet(KeysOf(N) \ DOMAIN childByName)
  BY KeysFinite, FS_Difference
<1>3. Cardinality(N) \in Nat /\ Cardinality(KeysOf(N) \ DOMAIN childByName) \in Nat
  BY <1>2, FS_CardinalityType
<1> QED
  BY <1>1, <1>3

DuplicatesCounted ==
    /\ DOMAIN childByName = KeysOf(NotedOf(tree))
    /\ stats.duplicatePaths =
         Cardinality(NotedOf(tree)) - Cardinality(KeysOf(NotedOf(tree)))

LEMMA DuplicatesMore ==
    ASSUME RowsNumbered(tree), DuplicatesCounted, NEW N, Notes(N),
           stats'.duplicatePaths = stats.duplicatePaths + Collisions(N)
    PROVE  DuplicatesCounted'
<1>1. PICK W : W = NotedOf(tree)
  OBVIOUS
<1>2. IsFiniteSet(W) /\ W \cap N = {} /\ IsFiniteSet(N) /\ NotedOf(tree') = W \cup N
  BY <1>1, FS_Subset DEF NotedOf, Notes, RowsNumbered
<1>3. DOMAIN childByName = KeysOf(W)
  BY <1>1 DEF DuplicatesCounted
<1>4. DOMAIN childByName' = KeysOf(W \cup N)
  <2>1. DOMAIN childByName' = DOMAIN childByName \cup KeysOf(N)
    BY NamesNoted DEF Notes
  <2> QED
    BY <1>3, <2>1 DEF KeysOf
<1>5. stats.duplicatePaths = Cardinality(W) - Cardinality(KeysOf(W))
  BY <1>1 DEF DuplicatesCounted
<1>6. Collisions(N) = Cardinality(N) - Cardinality(KeysOf(N) \ KeysOf(W))
  BY <1>2, <1>3, CollisionsType
<1>7. Cardinality(W \cup N) - Cardinality(KeysOf(W \cup N)) =
        (Cardinality(W) - Cardinality(KeysOf(W)))
          + (Cardinality(N) - Cardinality(KeysOf(N) \ KeysOf(W)))
  BY <1>2, NotedMore
<1>8. stats'.duplicatePaths = Cardinality(W \cup N) - Cardinality(KeysOf(W \cup N))
  BY <1>5, <1>6, <1>7
<1> QED
  BY <1>2, <1>4, <1>8 DEF DuplicatesCounted

\* How many ids of connections and dependencies a step issues.
Issues(c, e) ==
    /\ last'["conn"] = last["conn"] + c
    /\ last'["dep"] = last["dep"] + e

LEMMA SealTop ==
    ASSUME TypeOK, stats \in Counted, NodesIssued, StampTop
    PROVE  Adds(Collisions({TopNode}), 0, 0, 1, 0, 0) /\ Issues(0, 0)
<1>1. PICK d \in Int : d = Collisions({TopNode})
  BY FS_Singleton, CollisionsType
<1>2. stats' = [stats EXCEPT !.insts = @ + 1, !.duplicatePaths = @ + d]
  <2>1. d = Collisions({NodeRow(last["node"] + 1, 0, design.tops[cursor + 1].name,
                                "root", cursor)})
    BY <1>1 DEF TopNode
  <2> QED
    BY <2>1 DEF StampTop
<1>3. Adds(d, 0, 0, 1, 0, 0)
  BY <1>2, InstAdds
<1>4. Issues(0, 0)
  <2>1. last'["conn"] = last["conn"] /\ last'["dep"] = last["dep"]
    BY DEF StampTop, TypeOK, Counter, Reserved
  <2>2. last["conn"] \in Nat /\ last["dep"] \in Nat
    BY DEF TypeOK, Counter, Reserved
  <2> QED
    BY <2>1, <2>2 DEF Issues
<1> QED
  BY <1>1, <1>3, <1>4

LEMMA SealRows ==
    ASSUME TypeOK, PathInv, stats \in Counted, NodesIssued, TreeNumbered, StampRows
    PROVE  \E e \in Int :
             /\ Adds(Collisions(BodyNodes(Stamped, BodyOf(Top.tpl))), 0, 1, 0, 0, e)
             /\ Issues(0, e)
<1>1. PICK b : b = BodyOf(Top.tpl)
  OBVIOUS
<1>2. Notes(BodyNodes(Stamped, b))
  BY <1>1, NodesNoted
<1>3. PICK d \in Int : d = Collisions(BodyNodes(Stamped, b))
  BY <1>2, CollisionsType DEF Notes
<1>4. /\ b \in Body /\ last'["dep"] = last["dep"] + Size(b, "dep")
      /\ last'["conn"] = last["conn"]
  <2>1. "dep" \in Reserved
    BY DEF Reserved
  <2> QED
    BY <1>1, <2>1, RowsStamped
<1>5. Size(b, "dep") = Cardinality(Inline(b))
  BY DEF Size
<1>6. PICK e \in Int : e = Cardinality(Inline(b)) /\ e = Size(b, "dep")
  <2>1. "dep" \in Reserved
    BY DEF Reserved
  <2> QED
    BY <1>4, <1>5, <2>1, SizeType
<1>7. stats' = [stats EXCEPT !.stamped = @ + 1, !.deps = @ + e, !.duplicatePaths = @ + d]
  <2>1. d = Collisions(BodyNodes([Top EXCEPT !.stage = "guard",
                      !.base = [tab \in Reserved |-> last[tab]],
                      !.scopeBase = last["node"]], BodyOf(Top.tpl)))
    BY <1>1, <1>3 DEF Stamped
  <2>2. e = Cardinality(Inline(BodyOf(Top.tpl)))
    BY <1>1, <1>6
  <2> QED
    BY <2>1, <2>2 DEF StampRows
<1>8. Adds(d, 0, 1, 0, 0, e)
  BY <1>7, BodyAdds
<1>9. Issues(0, e)
  <2>1. last["conn"] \in Nat
    BY DEF TypeOK, Counter
  <2> QED
    BY <1>4, <1>6, <2>1 DEF Issues
<1> QED
  BY <1>1, <1>3, <1>8, <1>9

LEMMA SealChild ==
    ASSUME TypeOK, stats \in Counted, StampChildModule
    PROVE  Adds(Collisions({ChildNode("instance")}), 0, 0, 1, 0, 0) /\ Issues(0, 0)
<1>1. PICK d \in Int : d = Collisions({ChildNode("instance")})
  BY FS_Singleton, CollisionsType
<1>2. stats' = [stats EXCEPT !.insts = @ + 1, !.duplicatePaths = @ + d] /\ last' = last
  BY <1>1 DEF StampChildModule
<1>3. Adds(d, 0, 0, 1, 0, 0)
  BY <1>2, InstAdds
<1>4. last["conn"] \in Nat /\ last["dep"] \in Nat
  BY DEF TypeOK, Counter, Reserved
<1> QED
  BY <1>1, <1>2, <1>3, <1>4 DEF Issues

LEMMA SealConns ==
    ASSUME TypeOK, PathInv, stats \in Counted, StampConns
    PROVE  \E c \in Int : Adds(0, 0, 0, 0, c, 0) /\ Issues(c, 0)
<1>1. /\ Len(NextChild.conns) \in Nat
  BY WaitsForChild, NextChildType DEF StampConns, At
<1>2. PICK c \in Nat : c = Cardinality({i \in 1..Len(NextChild.conns) :
                                          NextChild.conns[i].term # 0})
  BY <1>1, CountType
<1>3. stats' = [stats EXCEPT !.conns = @ + c] /\ last' = [last EXCEPT !["conn"] = @ + c]
  BY <1>2 DEF StampConns
<1>4. Adds(0, 0, 0, 0, c, 0)
  BY <1>3, ConnsAdd
<1>5. Issues(c, 0)
  <2>1. last'["conn"] = last["conn"] + c /\ last'["dep"] = last["dep"]
    BY <1>3, PlainTyped DEF TypeOK, Counter, Reserved
  <2>2. last["dep"] \in Nat
    BY DEF TypeOK, Counter, Reserved
  <2> QED
    BY <2>1, <2>2 DEF Issues
<1> QED
  BY <1>4, <1>5

LEMMA SealBox ==
    ASSUME TypeOK, PathInv, stats \in Counted, StampUnresolved
    PROVE  \E c \in Int : /\ Adds(Collisions({ChildNode("unresolved")}), 0, 0, 1, c, 0)
                          /\ Issues(c, 0)
<1>1. PICK d \in Int : d = Collisions({ChildNode("unresolved")})
  BY FS_Singleton, CollisionsType
<1>2. PICK c \in Nat : c = Len(NextChild.conns)
  BY NextChildType DEF StampUnresolved, ChildDue, At
<1>3. Cardinality({i \in 1..Len(NextChild.conns) :
                     NextChild.conns[i].term \in 1..NextChild.ports}) = c
  BY <1>2, BlackBoxConns, UpTo
<1>4. /\ stats' = [stats EXCEPT !.insts = @ + 1, !.conns = @ + c, !.duplicatePaths = @ + d]
      /\ last' = [last EXCEPT !["term"] = @ + NextChild.ports, !["conn"] = @ + c]
  BY <1>1, <1>2, <1>3 DEF StampUnresolved
<1>5. Adds(d, 0, 0, 1, c, 0)
  <2>1. c \in Int
    OBVIOUS
  <2>2. stats' = [stats EXCEPT !.insts = @ + 1, !.conns = @ + c, !.duplicatePaths = @ + d]
    BY <1>4
  <2> QED
    BY ONLY <2>1, <2>2, stats \in Counted, d \in Int, BoxAdds
<1>6. Issues(c, 0)
  <2>1. last'["conn"] = last["conn"] + c /\ last'["dep"] = last["dep"]
    BY <1>4 DEF TypeOK, Counter, Reserved
  <2>2. last["dep"] \in Nat
    BY DEF TypeOK, Counter, Reserved
  <2> QED
    BY <2>1, <2>2 DEF Issues
<1> QED
  BY <1>1, <1>5, <1>6

LEMMA SealCut ==
    ASSUME TypeOK, stats \in Counted, CutRecursion
    PROVE  Adds(0, 1, 0, 0, 0, 0) /\ Issues(0, 0)
<1>1. stats' = [stats EXCEPT !.recursive = @ + 1] /\ last' = last
  BY DEF CutRecursion
<1>2. Adds(0, 1, 0, 0, 0, 0)
  BY <1>1, CutAdds
<1>3. last["conn"] \in Nat /\ last["dep"] \in Nat
  BY DEF TypeOK, Counter, Reserved
<1> QED
  BY <1>1, <1>2, <1>3 DEF Issues

LEMMA SealPackage ==
    ASSUME TypeOK, stats \in Counted, StampPackage
    PROVE  Adds(0, 0, 0, 1, 0, 0) /\ Issues(0, 0)
<1>1. stats' = [stats EXCEPT !.insts = @ + 1]
  BY DEF StampPackage
<1>2. Adds(0, 0, 0, 1, 0, 0)
  BY <1>1, PackageAdds
<1>3. last["conn"] \in Nat /\ last["dep"] \in Nat
  BY DEF TypeOK, Counter, Reserved
<1>4. last'["conn"] = last["conn"] /\ last'["dep"] = last["dep"]
  BY DEF StampPackage, TypeOK, Counter, Reserved
<1> QED
  BY <1>2, <1>3, <1>4 DEF Issues

LEMMA SealDep ==
    ASSUME TypeOK, stats \in Counted, CrossDep
    PROVE  \E e \in Int : Adds(0, 0, 0, 0, 0, e) /\ Issues(0, e)
<1>1. last["conn"] \in Nat /\ last["dep"] \in Nat /\ DOMAIN last = Counter
  BY DEF TypeOK, Counter, Reserved
<1>2. CASE UNCHANGED <<last, stats>>
  <2>1. Adds(0, 0, 0, 0, 0, 0)
    BY <1>2, NoneAdds
  <2> QED
    BY <1>1, <1>2, <2>1 DEF Issues
<1>3. CASE /\ last' = [last EXCEPT !["dep"] = @ + 1]
           /\ stats' = [stats EXCEPT !.deps = @ + 1]
  <2>1. Adds(0, 0, 0, 0, 0, 1)
    BY <1>3, DepAdds
  <2>2. last'["conn"] = last["conn"] /\ last'["dep"] = last["dep"] + 1
    BY <1>1, <1>3 DEF Counter, Reserved
  <2> QED
    BY <1>1, <2>1, <2>2 DEF Issues
<1> QED
  BY <1>2, <1>3 DEF CrossDep

LEMMA SealStill ==
    ASSUME TypeOK, stats \in Counted,
           EnterChildren \/ Return \/ ResolveRef \/ Advance \/ UNCHANGED vars
    PROVE  Adds(0, 0, 0, 0, 0, 0) /\ Issues(0, 0)
<1>1. stats' = stats
  BY DEF EnterChildren, Return, ResolveRef, Advance, vars
<1>2. Adds(0, 0, 0, 0, 0, 0)
  BY <1>1, NoneAdds
<1>3. last["conn"] \in Nat /\ last["dep"] \in Nat
  BY DEF TypeOK, Counter, Reserved
<1>4. last'["conn"] = last["conn"] /\ last'["dep"] = last["dep"]
  BY PlainTyped DEF EnterChildren, Return, ResolveRef, Advance, vars, TypeOK, Counter, Reserved
<1> QED
  BY <1>2, <1>3, <1>4 DEF Issues

\* What the numbers a step adds say of each of them.
LEMMA AddsSay ==
    ASSUME stats \in Counted, NEW d, NEW r, NEW s, NEW i, NEW c, NEW e,
           Adds(d, r, s, i, c, e)
    PROVE  /\ stats' \in Counted
           /\ stats'.duplicatePaths = stats.duplicatePaths + d
           /\ d = 0 => stats'.duplicatePaths = stats.duplicatePaths
           /\ stats'.recursive = stats.recursive + r
           /\ r = 0 => stats'.recursive = stats.recursive
           /\ stats'.stamped = stats.stamped + s
           /\ s = 0 => stats'.stamped = stats.stamped
           /\ stats'.insts = stats.insts + i
           /\ i = 0 => stats'.insts = stats.insts
<1>1. /\ stats.duplicatePaths \in Int /\ stats.recursive \in Int /\ stats.stamped \in Int
      /\ stats.insts \in Int
  BY DEF Counted
<1> QED
  BY <1>1 DEF Adds

LEMMA DuplicatesKept ==
    ASSUME DuplicatesCounted, NotedOf(tree') = NotedOf(tree), childByName' = childByName,
           stats'.duplicatePaths = stats.duplicatePaths
    PROVE  DuplicatesCounted'
  BY DEF DuplicatesCounted

LEMMA DuplicatesStep ==
    ASSUME TypeOK, PathInv, NodesIssued, TreeNumbered, stats \in Counted,
           DuplicatesCounted, [Next]_vars
    PROVE  DuplicatesCounted'
<1>1. RowsNumbered(tree)
  BY DEF TreeNumbered
<1>2. ASSUME NEW N, Notes(N), NEW r, NEW s, NEW i, NEW c, NEW e,
             Adds(Collisions(N), r, s, i, c, e)
      PROVE  DuplicatesCounted'
  <2>1. stats'.duplicatePaths = stats.duplicatePaths + Collisions(N)
    BY <1>2 DEF Adds
  <2> QED
    BY <1>1, <1>2, <2>1, DuplicatesMore
<1>3. CASE StampTop
  BY <1>2, <1>3, NodesNoted, SealTop
<1>4. CASE StampRows
  BY <1>2, <1>4, NodesNoted, SealRows
<1>5. CASE StampChildModule
  BY <1>2, <1>5, NodesNoted, SealChild
<1>6. CASE StampUnresolved
  BY <1>2, <1>6, NodesNoted, SealBox
<1>7. CASE StampPackage
  <2>1. childByName' = childByName
    BY <1>7 DEF StampPackage
  <2>2. NotedOf(tree') = NotedOf(tree)
    <3> DEFINE node == NodeRow(last["node"] + 1, 0, design.packages[cursor + 1].name,
                               "package", Len(design.tops) + cursor)
    <3>1. tree' = tree \cup {node}
      BY <1>7 DEF StampPackage
    <3>2. node.kind = "package"
      BY DEF NodeRow
    <3> HIDE DEF node
    <3> QED
      BY <3>1, <3>2 DEF NotedOf
  <2>3. stats'.duplicatePaths = stats.duplicatePaths
    BY <1>7, SealPackage, AddsSay
  <2> QED
    BY <2>1, <2>2, <2>3, DuplicatesKept
<1>8. CASE CutRecursion \/ EnterChildren \/ StampConns \/ Return \/ ResolveRef \/ CrossDep
           \/ Advance \/ UNCHANGED vars
  <2>1. childByName' = childByName /\ tree' = tree
    BY <1>8 DEF CutRecursion, EnterChildren, StampConns, Return, ResolveRef, CrossDep,
                Advance, vars, dbVars, mapVars
  <2>2. stats'.duplicatePaths = stats.duplicatePaths
    <3>1. CASE CutRecursion
      BY <3>1, SealCut, AddsSay
    <3>2. CASE StampConns
      BY <3>2, SealConns, AddsSay
    <3>3. CASE CrossDep
      BY <3>3, SealDep, AddsSay
    <3>4. CASE EnterChildren \/ Return \/ ResolveRef \/ Advance \/ UNCHANGED vars
      BY <3>4, SealStill, AddsSay
    <3> QED
      BY <1>8, <3>1, <3>2, <3>3, <3>4
  <2> QED
    BY <2>1, <2>2, DuplicatesKept
<1> QED
  BY <1>3, <1>4, <1>5, <1>6, <1>7, <1>8 DEF Next

-----------------------------------------------------------------------------
(* Instances.                                                              *)

\* An instance more, of one template or of none.
NewInst(r) ==
    /\ inst' = inst \cup {r} /\ r.id \notin Ids(inst)
    /\ r.tpl = {} \/ \E t : r.tpl = {t}

PackageInst == BlackBoxRow(last["node"] + 1, 0)
TopInst == InstRow(last["node"] + 1, design.tops[cursor + 1].tpl, 0)
ChildInst == InstRow(ChildId, NextChild.tpl, Top.inst)
BoxInst == BlackBoxRow(ChildId, Top.inst)

LEMMA InstsMove ==
    ASSUME TypeOK, NodesIssued, InstsOnce
    PROVE  /\ StampTop => NewInst(TopInst) /\ TopInst.tpl # {}
           /\ StampChildModule => NewInst(ChildInst) /\ ChildInst.tpl # {}
           /\ StampUnresolved => NewInst(BoxInst) /\ BoxInst.tpl = {}
           /\ StampPackage => NewInst(PackageInst) /\ PackageInst.tpl = {}
           /\ StampRows \/ CutRecursion \/ EnterChildren \/ StampConns \/ Return
                \/ ResolveRef \/ CrossDep \/ Advance \/ UNCHANGED vars => inst' = inst
<1>1. last["node"] + 1 \notin Ids(inst)
  BY NodesBound
<1>2. ChildDue => ChildId \notin Ids(inst)
  BY ChildPromised DEF InstsOnce
<1>3. /\ TopInst.id = last["node"] + 1 /\ TopInst.tpl = {design.tops[cursor + 1].tpl}
      /\ ChildInst.id = ChildId /\ ChildInst.tpl = {NextChild.tpl}
      /\ BoxInst.id = ChildId /\ BoxInst.tpl = {}
      /\ PackageInst.id = last["node"] + 1 /\ PackageInst.tpl = {}
  BY DEF TopInst, ChildInst, BoxInst, PackageInst, InstRow, BlackBoxRow
<1>4. /\ StampTop => inst' = inst \cup {TopInst}
      /\ StampChildModule => ChildDue /\ inst' = inst \cup {ChildInst}
      /\ StampUnresolved => ChildDue /\ inst' = inst \cup {BoxInst}
      /\ StampPackage => inst' = inst \cup {PackageInst}
  BY DEF StampTop, StampChildModule, StampUnresolved, StampPackage,
         TopInst, ChildInst, BoxInst, PackageInst
<1>5. StampRows \/ CutRecursion \/ EnterChildren \/ StampConns \/ Return
        \/ ResolveRef \/ CrossDep \/ Advance \/ UNCHANGED vars => inst' = inst
  BY DEF StampRows, CutRecursion, EnterChildren, StampConns, Return, ResolveRef,
         CrossDep, Advance, vars, dbVars
<1> HIDE DEF TopInst, ChildInst, BoxInst, PackageInst
<1> QED
  BY <1>1, <1>2, <1>3, <1>4, <1>5 DEF NewInst

InstsCounted == IsFiniteSet(inst) /\ stats.insts = Cardinality(inst)

LEMMA InstsCountedStep ==
    ASSUME TypeOK, PathInv, NodesIssued, TreeNumbered, InstsOnce, stats \in Counted,
           InstsCounted, [Next]_vars
    PROVE  InstsCounted'
<1>1. ASSUME NEW r, NewInst(r), stats'.insts = stats.insts + 1
      PROVE  InstsCounted'
  <2>1. r \notin inst
    BY <1>1 DEF NewInst, Ids
  <2>2. IsFiniteSet(inst \cup {r}) /\ Cardinality(inst \cup {r}) = Cardinality(inst) + 1
    BY <2>1, FS_AddElement DEF InstsCounted
  <2> QED
    BY <1>1, <2>2 DEF InstsCounted, NewInst
<1>2. ASSUME inst' = inst, stats'.insts = stats.insts
      PROVE  InstsCounted'
  BY <1>2 DEF InstsCounted
<1>3. CASE StampTop
  BY <1>1, <1>3, InstsMove, SealTop, AddsSay
<1>4. CASE StampChildModule
  BY <1>1, <1>4, InstsMove, SealChild, AddsSay
<1>5. CASE StampUnresolved
  BY <1>1, <1>5, InstsMove, SealBox, AddsSay
<1>6. CASE StampPackage
  BY <1>1, <1>6, InstsMove, SealPackage, AddsSay
<1>7. CASE StampRows
  BY <1>2, <1>7, InstsMove, SealRows, AddsSay
<1>8. CASE CutRecursion
  BY <1>2, <1>8, InstsMove, SealCut, AddsSay
<1>9. CASE StampConns
  BY <1>2, <1>9, InstsMove, SealConns, AddsSay
<1>10. CASE CrossDep
  BY <1>2, <1>10, InstsMove, SealDep, AddsSay
<1>11. CASE EnterChildren \/ Return \/ ResolveRef \/ Advance \/ UNCHANGED vars
  BY <1>2, <1>11, InstsMove, SealStill, AddsSay
<1> QED
  BY <1>3, <1>4, <1>5, <1>6, <1>7, <1>8, <1>9, <1>10, <1>11 DEF Next

RowsSealed == stats.conns = last["conn"] /\ stats.deps = last["dep"]

LEMMA RowsSealedStep ==
    ASSUME TypeOK, PathInv, NodesIssued, TreeNumbered, stats \in Counted,
           RowsSealed, [Next]_vars
    PROVE  RowsSealed' /\ stats' \in Counted
<1>1. ASSUME NEW d, NEW r, NEW s, NEW i, NEW c, NEW e,
             Adds(d, r, s, i, c, e), Issues(c, e)
      PROVE  RowsSealed' /\ stats' \in Counted
  BY <1>1 DEF Adds, Issues, RowsSealed
<1>2. CASE StampTop
  BY <1>1, <1>2, SealTop
<1>3. CASE StampRows
  BY <1>1, <1>3, SealRows
<1>4. CASE CutRecursion
  BY <1>1, <1>4, SealCut
<1>5. CASE StampChildModule
  BY <1>1, <1>5, SealChild
<1>6. CASE StampConns
  BY <1>1, <1>6, SealConns
<1>7. CASE StampUnresolved
  BY <1>1, <1>7, SealBox
<1>8. CASE StampPackage
  BY <1>1, <1>8, SealPackage
<1>9. CASE CrossDep
  BY <1>1, <1>9, SealDep
<1>10. CASE EnterChildren \/ Return \/ ResolveRef \/ Advance \/ UNCHANGED vars
  BY <1>1, <1>10, SealStill
<1> QED
  BY <1>2, <1>3, <1>4, <1>5, <1>6, <1>7, <1>8, <1>9, <1>10 DEF Next

-----------------------------------------------------------------------------
(* An occurrence that is under way: its body is still to be stamped, or    *)
(* its recursion to be cut.                                                *)

Innermost(s) == s[Len(s)]
Begun(s) == IF s # <<>> /\ Innermost(s).stage = "rows" THEN 1 ELSE 0
ToCut(s, path) ==
    IF s # <<>> /\ Innermost(s).stage \in {"rows", "guard"} /\ Innermost(s).tpl \in path
    THEN 1 ELSE 0

LEMMA StageIs ==
    ASSUME NEW s, NEW n \in Nat \ {0}, Len(s) = n, NEW path, NEW f, s[n] = f
    PROVE  /\ Begun(s) = IF f.stage = "rows" THEN 1 ELSE 0
           /\ f.stage \notin {"rows", "guard"} => ToCut(s, path) = 0
           /\ f.stage \in {"rows", "guard"} =>
                ToCut(s, path) = IF f.tpl \in path THEN 1 ELSE 0
<1>1. s # <<>>
  BY Len(<<>>) = 0
<1>2. Innermost(s) = f
  BY DEF Innermost
<1> QED
  BY <1>1, <1>2 DEF Begun, ToCut

LEMMA StagesMove ==
    ASSUME TypeOK, PathInv
    PROVE  /\ StampTop => /\ Begun(stack) = 0 /\ Begun(stack') = 1
                          /\ ToCut(stack, onPath) = 0 /\ ToCut(stack', onPath') = 0
           /\ StampRows => /\ Begun(stack) = 1 /\ Begun(stack') = 0
                           /\ ToCut(stack', onPath') = ToCut(stack, onPath)
           /\ CutRecursion => /\ Begun(stack) = 0 /\ Begun(stack') = 0
                              /\ ToCut(stack, onPath) = 1 /\ ToCut(stack', onPath') = 0
           /\ EnterChildren \/ StampConns \/ StampUnresolved \/ Return =>
                /\ Begun(stack) = 0 /\ Begun(stack') = 0
                /\ ToCut(stack, onPath) = 0 /\ ToCut(stack', onPath') = 0
           /\ StampChildModule =>
                /\ Begun(stack) = 0 /\ Begun(stack') = 1 /\ ToCut(stack, onPath) = 0
                /\ ToCut(stack', onPath') = IF NextChild.tpl \in onPath THEN 1 ELSE 0
           /\ StampPackage \/ ResolveRef \/ CrossDep \/ Advance \/ UNCHANGED vars =>
                /\ Begun(stack') = Begun(stack)
                /\ ToCut(stack', onPath') = ToCut(stack, onPath)
<1>1. ASSUME StampTop
      PROVE  /\ Begun(stack) = 0 /\ Begun(stack') = 1
             /\ ToCut(stack, onPath) = 0 /\ ToCut(stack', onPath') = 0
  <2>1. stack = <<>> /\ Len(stack') = 1
    BY <1>1, StackOfTop
  <2>2. stack'[1].stage = "rows"
    BY <1>1, StackOfTop, NewFrameFields
  <2>3. Begun(stack) = 0 /\ ToCut(stack, onPath) = 0
    BY <2>1 DEF Begun, ToCut
  <2>4. onPath' = {}
    <3>1. onPath = {}
      <4>1. 1..Len(stack) = {}
        BY <2>1
      <4> QED
        BY <4>1 DEF PathInv, Held
    <3> QED
      BY <1>1, <3>1 DEF StampTop
  <2>5. PICK f : stack'[1] = f
    OBVIOUS
  <2>6. /\ Begun(stack') = IF f.stage = "rows" THEN 1 ELSE 0
        /\ ToCut(stack', onPath') = IF f.tpl \in onPath' THEN 1 ELSE 0
    <3>1. PICK s, path : s = stack' /\ path = onPath'
      OBVIOUS
    <3>2. PICK n \in Nat \ {0} : n = 1
      OBVIOUS
    <3>3. Len(s) = n /\ s[n] = f
      BY <2>1, <2>5, <3>1, <3>2
    <3>4. /\ Begun(s) = IF f.stage = "rows" THEN 1 ELSE 0
          /\ f.stage \in {"rows", "guard"} =>
               ToCut(s, path) = IF f.tpl \in path THEN 1 ELSE 0
      BY ONLY <3>3, n \in Nat \ {0}, StageIs
    <3> QED
      BY <2>2, <2>5, <3>1, <3>4
  <2> QED
    BY <2>2, <2>3, <2>4, <2>5, <2>6
<1>2. ASSUME stack # <<>>
      PROVE  /\ Begun(stack) = IF Top.stage = "rows" THEN 1 ELSE 0
             /\ Top.stage \notin {"rows", "guard"} => ToCut(stack, onPath) = 0
             /\ Top.stage \in {"rows", "guard"} =>
                  ToCut(stack, onPath) = IF Top.tpl \in onPath THEN 1 ELSE 0
  <2>1. PICK n \in Nat \ {0}, f \in Frame : n = Len(stack) /\ f = Top /\ stack[n] = f
    BY <1>2, TopBody
  <2> QED
    BY <2>1, StageIs
<1>3. ASSUME NEW f, stack # <<>>, Topped(f)
      PROVE  /\ Begun(stack') = IF f.stage = "rows" THEN 1 ELSE 0
             /\ f.stage \notin {"rows", "guard"} => ToCut(stack', onPath') = 0
             /\ f.stage \in {"rows", "guard"} =>
                  ToCut(stack', onPath') = IF f.tpl \in onPath' THEN 1 ELSE 0
  <2>1. PICK n \in Nat \ {0} : n = Len(stack)
    BY <1>3, TopBody
  <2>2. Len(stack') = n /\ stack'[n] = f
    BY <1>3, <2>1 DEF Topped
  <2> QED
    BY <2>2, StageIs
<1>4. ASSUME StampRows
      PROVE  /\ Begun(stack) = 1 /\ Begun(stack') = 0
             /\ ToCut(stack', onPath') = ToCut(stack, onPath)
  <2>1. stack # <<>> /\ Top.stage = "rows" /\ onPath' = onPath
    BY <1>4 DEF StampRows, At
  <2>2. Topped(Stamped) /\ Stamped.stage = "guard" /\ Stamped.tpl = Top.tpl
    BY <1>4, <2>1, StackMoves, StampedType
  <2> HIDE DEF Stamped
  <2> QED
    BY <1>2, <1>3, <2>1, <2>2
<1>5. ASSUME stack # <<>>, stack' = Pop
      PROVE  Begun(stack') = 0 /\ ToCut(stack', onPath') = 0
  <2>1. PICK n \in Nat \ {0} : n = Len(stack)
    BY <1>5, TopBody
  <2>2. /\ Pop \in Seq(Frame) /\ Len(Pop) = n - 1
        /\ \A i \in 1..(n - 1) : Pop[i] = stack[i]
    BY <1>5, <2>1, PopTop DEF TypeOK
  <2>3. CASE n = 1
    <3>1. stack' = <<>>
      BY <1>5, <2>2, <2>3
    <3> QED
      BY <3>1 DEF Begun, ToCut
  <2>4. CASE n # 1
    <3>1. n - 1 \in 1..(n - 1) /\ n - 1 \in Nat \ {0}
      BY <2>4
    <3>2. Pop[n - 1] = stack[n - 1] /\ stack[n - 1].stage = "conns"
      BY <2>1, <2>2, <3>1 DEF PathInv, Suspended
    <3>3. PICK f : Pop[n - 1] = f /\ f.stage = "conns"
      BY <3>2
    <3>4. PICK m \in Nat \ {0} : m = n - 1
      BY <3>1
    <3> QED
      BY <1>5, <2>2, <3>3, <3>4, StageIs
  <2> QED
    BY <2>3, <2>4
<1>6. ASSUME CutRecursion
      PROVE  /\ Begun(stack) = 0 /\ Begun(stack') = 0
             /\ ToCut(stack, onPath) = 1 /\ ToCut(stack', onPath') = 0
  <2>1. stack # <<>> /\ Top.stage = "guard" /\ Top.tpl \in onPath /\ stack' = Pop
    BY <1>6 DEF CutRecursion, At, Recurses
  <2> QED
    BY <1>2, <1>5, <2>1
<1>7. ASSUME EnterChildren
      PROVE  /\ Begun(stack) = 0 /\ Begun(stack') = 0
             /\ ToCut(stack, onPath) = 0 /\ ToCut(stack', onPath') = 0
  <2>1. stack # <<>> /\ Top.stage = "guard" /\ Top.tpl \notin onPath
    BY <1>7 DEF EnterChildren, At, Recurses
  <2>2. Topped(Entering) /\ Entering.stage = "kids"
    BY <1>7, <2>1, StackMoves, FrameFields
  <2> HIDE DEF Entering
  <2> QED
    BY <1>2, <1>3, <2>1, <2>2
<1>8. ASSUME StampConns \/ StampUnresolved
      PROVE  /\ Begun(stack) = 0 /\ Begun(stack') = 0
             /\ ToCut(stack, onPath) = 0 /\ ToCut(stack', onPath') = 0
  <2>1. stack # <<>> /\ Top.stage \in {"kids", "conns"}
    BY <1>8 DEF StampConns, StampUnresolved, ChildDue, At
  <2>2. Topped(Following) /\ Following.stage = "kids"
    BY <1>8, <2>1, StackMoves, FrameFields
  <2> HIDE DEF Following
  <2> QED
    BY <1>2, <1>3, <2>1, <2>2
<1>9. ASSUME Return
      PROVE  /\ Begun(stack) = 0 /\ Begun(stack') = 0
             /\ ToCut(stack, onPath) = 0 /\ ToCut(stack', onPath') = 0
  <2>1. stack # <<>> /\ Top.stage = "kids" /\ stack' = Pop
    BY <1>9 DEF Return, At
  <2> QED
    BY <1>2, <1>5, <2>1
<1>10. ASSUME StampChildModule
       PROVE  /\ Begun(stack) = 0 /\ Begun(stack') = 1 /\ ToCut(stack, onPath) = 0
              /\ ToCut(stack', onPath') = IF NextChild.tpl \in onPath THEN 1 ELSE 0
  <2>1. stack # <<>> /\ Top.stage = "kids" /\ onPath' = onPath
    BY <1>10 DEF StampChildModule, ChildDue, At
  <2>2. PICK n \in Nat \ {0} : n = Len(stack)
    BY <2>1, TopBody
  <2>3. Len(stack') = n + 1 /\ stack'[n + 1] = ChildFrame
    BY <1>10, <2>1, <2>2, StackMoves
  <2>4. ChildFrame.stage = "rows" /\ ChildFrame.tpl = NextChild.tpl
    BY NewFrameFields DEF ChildFrame
  <2>5. PICK s : s = stack'
    OBVIOUS
  <2>5a. PICK f : f = ChildFrame
    OBVIOUS
  <2>5b. PICK m \in Nat \ {0} : m = n + 1
    OBVIOUS
  <2>6. Len(s) = m /\ s[m] = f
    BY <2>3, <2>5, <2>5a, <2>5b
  <2>7. /\ Begun(s) = IF f.stage = "rows" THEN 1 ELSE 0
        /\ f.stage \in {"rows", "guard"} =>
             ToCut(s, onPath) = IF f.tpl \in onPath THEN 1 ELSE 0
    BY <2>6, StageIs
  <2> QED
    BY <1>2, <2>1, <2>4, <2>5, <2>5a, <2>7
<1>11. ASSUME StampPackage \/ ResolveRef \/ CrossDep \/ Advance \/ UNCHANGED vars
       PROVE  /\ Begun(stack') = Begun(stack)
              /\ ToCut(stack', onPath') = ToCut(stack, onPath)
  <2>1. stack' = stack /\ onPath' = onPath
    BY <1>11 DEF StampPackage, ResolveRef, CrossDep, Advance, vars
  <2> QED
    BY <2>1
<1> QED
  BY <1>1, <1>4, <1>6, <1>7, <1>8, <1>9, <1>10, <1>11

BodiesOf(W) == {r \in W : r.tpl # {}}
StampedCounted == stats.stamped + Begun(stack) = Cardinality(BodiesOf(inst))

LEMMA StampedStep ==
    ASSUME TypeOK, PathInv, NodesIssued, TreeNumbered, InstsOnce, stats \in Counted,
           InstsCounted, StampedCounted, [Next]_vars
    PROVE  StampedCounted'
<1>1. PICK k \in Nat : k = Cardinality(BodiesOf(inst)) /\ IsFiniteSet(BodiesOf(inst))
  BY FS_Subset, FS_CardinalityType DEF BodiesOf, InstsCounted
<1>2. PICK p \in Int : p = stats.stamped
  BY DEF Counted
<1>3. p + Begun(stack) = k
  BY <1>1, <1>2 DEF StampedCounted
<1>4. ASSUME NEW r, NewInst(r), r.tpl # {} PROVE Cardinality(BodiesOf(inst')) = k + 1
  <2>1. BodiesOf(inst') = BodiesOf(inst) \cup {r} /\ r \notin BodiesOf(inst)
    BY <1>4 DEF NewInst, BodiesOf, Ids
  <2> QED
    BY <1>1, <2>1, FS_AddElement
<1>5. ASSUME NEW r, NewInst(r), r.tpl = {} PROVE Cardinality(BodiesOf(inst')) = k
  <2>1. BodiesOf(inst') = BodiesOf(inst)
    BY <1>5 DEF NewInst, BodiesOf
  <2> QED
    BY <1>1, <2>1
<1>6. inst' = inst => Cardinality(BodiesOf(inst')) = k
  BY <1>1
<1>7. ASSUME Begun(stack) = 0, Begun(stack') = 1, stats'.stamped = p,
             Cardinality(BodiesOf(inst')) = k + 1
      PROVE  StampedCounted'
  BY <1>3, <1>7 DEF StampedCounted
<1>8. ASSUME Begun(stack') = Begun(stack), stats'.stamped = p,
             Cardinality(BodiesOf(inst')) = k
      PROVE  StampedCounted'
  BY <1>3, <1>8 DEF StampedCounted
<1>9. CASE StampTop
  <2>1. stats'.stamped = p
    BY <1>2, <1>9, SealTop, AddsSay
  <2> QED
    BY <1>4, <1>7, <1>9, <2>1, InstsMove, StagesMove
<1>10. CASE StampChildModule
  <2>1. stats'.stamped = p
    BY <1>2, <1>10, SealChild, AddsSay
  <2> QED
    BY <1>4, <1>7, <1>10, <2>1, InstsMove, StagesMove
<1>11. CASE StampUnresolved
  <2>1. stats'.stamped = p
    BY <1>2, <1>11, SealBox, AddsSay
  <2> QED
    BY <1>5, <1>8, <1>11, <2>1, InstsMove, StagesMove
<1>12. CASE StampPackage
  <2>1. stats'.stamped = p
    BY <1>2, <1>12, SealPackage, AddsSay
  <2> QED
    BY <1>5, <1>8, <1>12, <2>1, InstsMove, StagesMove
<1>13. CASE StampRows
  <2>1. stats'.stamped = p + 1
    BY <1>2, <1>13, SealRows, AddsSay
  <2>2. Begun(stack) = 1 /\ Begun(stack') = 0 /\ Cardinality(BodiesOf(inst')) = k
    BY <1>6, <1>13, InstsMove, StagesMove
  <2> QED
    BY <1>3, <2>1, <2>2 DEF StampedCounted
<1>14. CASE CutRecursion
  <2>1. stats'.stamped = p
    BY <1>2, <1>14, SealCut, AddsSay
  <2> QED
    BY <1>6, <1>8, <1>14, <2>1, InstsMove, StagesMove
<1>15. CASE StampConns
  <2>1. stats'.stamped = p
    BY <1>2, <1>15, SealConns, AddsSay
  <2> QED
    BY <1>6, <1>8, <1>15, <2>1, InstsMove, StagesMove
<1>16. CASE CrossDep
  <2>1. stats'.stamped = p
    BY <1>2, <1>16, SealDep, AddsSay
  <2> QED
    BY <1>6, <1>8, <1>16, <2>1, InstsMove, StagesMove
<1>17. CASE EnterChildren \/ Return \/ ResolveRef \/ Advance \/ UNCHANGED vars
  <2>1. stats'.stamped = p
    BY <1>2, <1>17, SealStill, AddsSay
  <2> QED
    BY <1>6, <1>8, <1>17, <2>1, InstsMove, StagesMove
<1> QED
  BY <1>9, <1>10, <1>11, <1>12, <1>13, <1>14, <1>15, <1>16, <1>17 DEF Next

\* An instance is of one template, or a black box, or a package.
OfTemplates ==
    /\ \A r \in inst : r.tpl = {} \/ \E t : r.tpl = {t}
    /\ \A r \in inst, n \in tree : n.kind = "package" /\ n.id = r.id => r.tpl = {}

LEMMA OfTemplatesStep ==
    ASSUME TypeOK, PathInv, NodesIssued, TreeNumbered, InstsOnce, OfTemplates, [Next]_vars
    PROVE  OfTemplates'
<1>1. \A r \in inst : r.id \in Ids(tree)
  BY DEF InstsOnce, Ids
<1>2. ASSUME NEW r, NewInst(r)
      PROVE  \A q \in inst' : q.tpl = {} \/ \E t : q.tpl = {t}
  BY <1>2 DEF NewInst, OfTemplates
<1>3. ASSUME NEW N, Notes(N), NEW r, NewInst(r), r.id \notin Ids(tree)
      PROVE  OfTemplates'
  <2>1. \A q \in inst', n \in tree' : n.kind = "package" /\ n.id = q.id => q.tpl = {}
    <3>1. ASSUME NEW q \in inst', NEW n \in tree', n.kind = "package", n.id = q.id
          PROVE  q.tpl = {}
      <4>1. n \in tree
        BY <1>3, <3>1 DEF Notes
      <4>2. q \in inst
        BY <1>3, <3>1, <4>1 DEF NewInst, Ids
      <4> QED
        BY <3>1, <4>1, <4>2 DEF OfTemplates
    <3> QED
      BY <3>1
  <2> QED
    BY <1>2, <1>3, <2>1 DEF OfTemplates
<1>4. ASSUME NEW N, Notes(N), inst' = inst
      PROVE  OfTemplates'
  <2>1. \A q \in inst', n \in tree' : n.kind = "package" /\ n.id = q.id => q.tpl = {}
    BY <1>4 DEF Notes, OfTemplates
  <2> QED
    BY <1>4, <2>1 DEF OfTemplates
<1>5. last["node"] + 1 \notin Ids(tree)
  BY DEF TypeOK, Counter, NodesIssued
<1>6. TopInst.id = last["node"] + 1 /\ ChildInst.id = ChildId /\ BoxInst.id = ChildId
  BY DEF TopInst, ChildInst, BoxInst, InstRow, BlackBoxRow
<1>7. CASE StampTop
  BY <1>3, <1>5, <1>6, <1>7, NodesNoted, InstsMove
<1>8. CASE StampChildModule
  <2>1. ChildId \notin Ids(tree)
    BY <1>8, ChildPromised DEF StampChildModule
  <2> QED
    BY <1>3, <1>6, <1>8, <2>1, NodesNoted, InstsMove
<1>9. CASE StampUnresolved
  <2>1. ChildId \notin Ids(tree)
    BY <1>9, ChildPromised DEF StampUnresolved
  <2> QED
    BY <1>3, <1>6, <1>9, <2>1, NodesNoted, InstsMove
<1>10. CASE StampRows
  BY <1>4, <1>10, NodesNoted, InstsMove
<1>11. CASE StampPackage
  <2> DEFINE node == NodeRow(last["node"] + 1, 0, design.packages[cursor + 1].name,
                             "package", Len(design.tops) + cursor)
  <2>1. tree' = tree \cup {node} /\ node.id = last["node"] + 1
    BY <1>11 DEF StampPackage, NodeRow
  <2>2. NewInst(PackageInst) /\ PackageInst.tpl = {}
    BY <1>11, InstsMove
  <2> HIDE DEF node
  <2>3. ASSUME NEW q \in inst', NEW n \in tree', n.kind = "package", n.id = q.id
        PROVE  q.tpl = {}
    <3>1. CASE q = PackageInst
      BY <2>2, <3>1
    <3>2. CASE q # PackageInst
      <4>1. q \in inst
        BY <2>2, <3>2 DEF NewInst
      <4>2. n # node
        BY <1>1, <1>5, <2>1, <2>3, <4>1
      <4> QED
        BY <2>1, <2>3, <4>1, <4>2 DEF OfTemplates
    <3> QED
      BY <3>1, <3>2
  <2> QED
    BY <1>2, <2>2, <2>3 DEF OfTemplates
<1>12. CASE CutRecursion \/ EnterChildren \/ StampConns \/ Return \/ ResolveRef \/ CrossDep
            \/ Advance \/ UNCHANGED vars
  <2>1. inst' = inst /\ tree' = tree
    BY <1>12 DEF CutRecursion, EnterChildren, StampConns, Return, ResolveRef, CrossDep,
                 Advance, vars, dbVars
  <2> QED
    BY <2>1 DEF OfTemplates
<1> QED
  BY <1>7, <1>8, <1>9, <1>10, <1>11, <1>12 DEF Next

\* When the tree is finished nothing is under way.
AfterTree == phase # "tree" => stack = <<>>

LEMMA AfterTreeStep ==
    ASSUME TypeOK, AfterTree, [Next]_vars
    PROVE  AfterTree'
<1>1. CASE StampTop \/ StampRows \/ CutRecursion \/ EnterChildren \/ StampChildModule
           \/ StampConns \/ StampUnresolved \/ Return
  <2>1. phase' = "tree"
    BY <1>1 DEF StampTop, StampRows, CutRecursion, EnterChildren, StampChildModule,
                StampConns, StampUnresolved, Return, ChildDue, At
  <2> QED
    BY <2>1 DEF AfterTree
<1>2. CASE StampPackage \/ ResolveRef \/ CrossDep
  <2>1. phase # "tree" /\ stack' = stack
    BY <1>2 DEF StampPackage, ResolveRef, CrossDep
  <2> QED
    BY <2>1 DEF AfterTree
<1>3. CASE Advance
  BY <1>3 DEF Advance, AfterTree
<1>4. CASE UNCHANGED vars
  BY <1>4 DEF vars, AfterTree
<1> QED
  BY <1>1, <1>2, <1>3, <1>4 DEF Next

SealInv ==
    /\ stats \in Counted
    /\ DuplicatesCounted /\ InstsCounted /\ RowsSealed /\ StampedCounted
    /\ OfTemplates /\ AfterTree

LEMMA SealInit == Init => SealInv
<1> SUFFICES ASSUME Init PROVE SealInv
  OBVIOUS
<1>1. /\ tree = {} /\ inst = {} /\ childByName = <<>> /\ stack = <<>>
      /\ last = [c \in Counter |-> 0]
      /\ stats = [duplicatePaths |-> 0, recursive |-> 0, stamped |-> 0,
                  insts |-> 0, conns |-> 0, deps |-> 0]
  BY DEF Init
<1>2. stats \in Counted
  BY <1>1 DEF Counted
<1>3. IsFiniteSet({}) /\ Cardinality({}) = 0
  BY FS_EmptySet
<1>4. DuplicatesCounted
  <2>1. NotedOf(tree) = {} /\ KeysOf({}) = {} /\ DOMAIN childByName = {}
    BY <1>1 DEF NotedOf, KeysOf
  <2> QED
    <3>1. stats.duplicatePaths = 0
      BY <1>1
    <3>2. Cardinality(NotedOf(tree)) - Cardinality(KeysOf(NotedOf(tree))) = 0 - 0
      BY <1>3, <2>1, Zenon
    <3>3. DOMAIN childByName = KeysOf(NotedOf(tree))
      BY <2>1, Zenon
    <3>4. 0 - 0 = 0
      OBVIOUS
    <3> QED
      BY <3>1, <3>2, <3>3, <3>4 DEF DuplicatesCounted
<1>5. InstsCounted
  BY <1>1, <1>3 DEF InstsCounted
<1>6. RowsSealed
  BY <1>1 DEF RowsSealed, Counter, Reserved
<1>7. StampedCounted
  <2>1. BodiesOf(inst) = {} /\ Begun(stack) = 0
    BY <1>1 DEF BodiesOf, Begun
  <2> QED
    <3>1. stats.stamped = 0
      BY <1>1
    <3>2. Cardinality(BodiesOf(inst)) = 0
      BY <1>3, <2>1, Zenon
    <3> QED
      BY <2>1, <3>1, <3>2 DEF StampedCounted
<1>8. OfTemplates /\ AfterTree
  BY <1>1 DEF OfTemplates, AfterTree
<1> QED
  BY <1>2, <1>4, <1>5, <1>6, <1>7, <1>8 DEF SealInv

LEMMA SealStep ==
    TypeOK /\ PathInv /\ NodesIssued /\ TreeNumbered /\ InstsOnce /\ SealInv /\ [Next]_vars
      => SealInv'
<1> SUFFICES ASSUME TypeOK, PathInv, NodesIssued, TreeNumbered, InstsOnce, SealInv,
                    [Next]_vars
             PROVE  SealInv'
  OBVIOUS
<1>1. /\ stats \in Counted /\ DuplicatesCounted /\ InstsCounted /\ RowsSealed
      /\ StampedCounted /\ OfTemplates /\ AfterTree
  BY DEF SealInv
<1>2. DuplicatesCounted'
  BY <1>1, DuplicatesStep
<1>3. InstsCounted'
  BY <1>1, InstsCountedStep
<1>4. RowsSealed' /\ stats' \in Counted
  BY <1>1, RowsSealedStep
<1>5. StampedCounted'
  BY <1>1, StampedStep
<1>6. OfTemplates' /\ AfterTree'
  BY <1>1, OfTemplatesStep, AfterTreeStep
<1> QED
  BY <1>2, <1>3, <1>4, <1>5, <1>6 DEF SealInv

-----------------------------------------------------------------------------
(* The occurrences the recursion guard cuts.                               *)

\* Every beginning of a row's path is the path of a row.
LEMMA PrefixThere ==
    ASSUME NEW P, NEW W, Grove(P, W), NEW r \in W, NEW i \in 1..Len(P[r.id])
    PROVE  \E q \in W : P[q.id] = SubSeq(P[r.id], 1, i)
<1> DEFINE OK(x) == \A j \in 1..Len(P[x.id]) : \E q \in W : P[q.id] = SubSeq(P[x.id], 1, j)
           Bad == {x.id : x \in {y \in W : ~OK(y)}}
<1>1. /\ \A x \in W : /\ x.id \in Nat /\ x.parent \in Nat /\ x.id \in Ids(W)
                      /\ x.parent # 0 => x.parent \in Ids(W) /\ x.parent < x.id
                      /\ P[x.id] = PathTo(P, W, x)
      /\ \A j \in Ids(W) : P[j] \in Seq(Nat)
  BY DEF Grove, Forest, Pathed, TreeRow, Ids
<1>2. CASE Bad # {}
  <2>1. PICK m \in Bad : \A k \in Bad : m <= k
    <3>1. Bad \subseteq Nat
      BY <1>1
    <3> HIDE DEF Bad
    <3> QED
      BY <1>2, <3>1, Least
  <2>2. PICK x \in W : x.id = m /\ ~OK(x)
    BY <2>1
  <2>3. \A y \in W : y.id < x.id => OK(y)
    <3>1. ASSUME NEW y \in W, y.id < x.id, ~OK(y) PROVE FALSE
      <4>1. y.id \in Bad
        BY <3>1
      <4> HIDE DEF Bad, OK
      <4> QED
        BY <1>1, <2>1, <2>2, <3>1, <4>1
    <3> HIDE DEF OK
    <3> QED
      BY <3>1
  <2>4. CASE x.parent = 0
    <3>1. P[x.id] = <<Place(W, 0, x.id)>>
      BY <1>1, <2>2, <2>4 DEF PathTo
    <3>2. Len(P[x.id]) = 1
      BY <3>1
    <3>3. SubSeq(P[x.id], 1, Len(P[x.id])) = P[x.id]
      BY <1>1, <2>2, Whole
    <3>4. OK(x)
      BY <2>2, <3>2, <3>3
    <3> QED
      BY <2>2, <3>4
  <2>5. CASE x.parent # 0
    <3>1. PICK q \in W : q.id = x.parent
      BY <1>1, <2>2, <2>5 DEF Ids
    <3>2. q.id < x.id /\ P[x.id] = Append(P[q.id], Place(W, x.parent, x.id))
      BY <1>1, <2>2, <2>5, <3>1 DEF PathTo
    <3>3. PICK a \in Seq(Nat) : a = P[q.id]
      BY <1>1
    <3>4. PICK c \in Nat : c = Place(W, x.parent, x.id)
      BY KidsFinite DEF Grove, Forest
    <3>5. P[x.id] = Append(a, c) /\ Len(Append(a, c)) = Len(a) + 1 /\ Len(a) \in Nat
      BY <3>2, <3>3, <3>4, PathAppended
    <3>6. \A j \in 1..Len(a) : \E y \in W : P[y.id] = SubSeq(a, 1, j)
      BY <2>3, <3>2, <3>3
    <3>7. \A j \in 1..Len(P[x.id]) : \E y \in W : P[y.id] = SubSeq(P[x.id], 1, j)
      <4>1. ASSUME NEW j \in 1..Len(P[x.id])
            PROVE  \E y \in W : P[y.id] = SubSeq(P[x.id], 1, j)
        <5>1. j \in 1..Len(a) \/ j = Len(a) + 1
          BY <3>5, <4>1
        <5>2. CASE j \in 1..Len(a)
          BY <3>5, <3>6, <5>2, Initials
        <5>3. CASE j = Len(a) + 1
          <6>1. SubSeq(Append(a, c), 1, j) = Append(a, c)
            BY <5>3, Initials
          <6> QED
            BY <2>2, <3>5, <6>1
        <5> QED
          BY <5>1, <5>2, <5>3
      <4> QED
        BY <4>1
    <3> QED
      BY <2>2, <3>7
  <2> QED
    BY <2>4, <2>5
<1>3. CASE Bad = {}
  BY <1>3
<1> QED
  BY <1>2, <1>3

\* A row more cuts no other.
LEMMA CutStill ==
    ASSUME NEW P, NEW W, NEW n, Grove(P, W), Addable(W, n), NEW r \in W
    PROVE  Cut(Longer(P, W, n), W \cup {n}, r) <=> Cut(P, W, r)
<1>0. PICK L : L = Longer(P, W, n)
  OBVIOUS
<1>1. n.id \notin Ids(W)
  BY DEF Addable
<1>2. /\ \A q \in W : L[q.id] = P[q.id]
      /\ L[n.id] = NewPath(P, W, n)
  BY <1>0, <1>1 DEF Longer, Ids
<1>3. \A q \in W : NewPath(P, W, n) # P[q.id]
  BY PathsFresh DEF Addable
<1>4. ASSUME Cut(L, W \cup {n}, r) PROVE Cut(P, W, r)
  <2>1. PICK q \in W \cup {n} : \E i \in 1..(Len(L[r.id]) - 1) :
          L[q.id] = SubSeq(L[r.id], 1, i) /\ q.tpl \cap r.tpl # {}
    BY <1>4 DEF Cut
  <2>2. PICK i \in 1..(Len(P[r.id]) - 1) :
          L[q.id] = SubSeq(P[r.id], 1, i) /\ q.tpl \cap r.tpl # {}
    BY <1>2, <2>1
  <2>3. \E y \in W : P[y.id] = SubSeq(P[r.id], 1, i)
    <3>1. Len(P[r.id]) \in Nat
      BY DEF Grove, Pathed, Ids
    <3>2. i \in 1..Len(P[r.id])
      BY <3>1
    <3> QED
      BY <3>2, PrefixThere
  <2>4. q \in W
    BY <1>2, <1>3, <2>2, <2>3
  <2> QED
    BY <1>2, <2>2, <2>4 DEF Cut
<1>5. ASSUME Cut(P, W, r) PROVE Cut(L, W \cup {n}, r)
  BY <1>2, <1>5 DEF Cut
<1> QED
  BY <1>0, <1>4, <1>5

\* The innermost occurrence of a stack is cut when one below has its
\* template.
LEMMA CutOnStack ==
    ASSUME NEW P, NEW W, NEW s, Grove(P, W), Standing(P, W, s), Len(s) \in Nat \ {0},
           NEW r \in W, r.id = s[Len(s)].inst
    PROVE  Cut(P, W, r) <=> \E i \in 1..(Len(s) - 1) : s[i].tpl = s[Len(s)].tpl
<1>1. PICK N \in Nat \ {0} : N = Len(s)
  OBVIOUS
<1>2. /\ Len(P[r.id]) = N
      /\ \A i \in 1..N : SubSeq(P[r.id], 1, i) = P[s[i].inst]
      /\ \A i \in 1..N : \E q \in W : q.id = s[i].inst /\ q.tpl = {s[i].tpl}
  <2>1. \A j \in 1..N :
          /\ \E q \in W : q.id = s[j].inst /\ q.tpl = {s[j].tpl}
          /\ Len(P[s[j].inst]) = j
          /\ \A i \in 1..j : SubSeq(P[s[j].inst], 1, i) = P[s[i].inst]
    BY <1>1 DEF Standing
  <2>2. N \in 1..N /\ r.id = s[N].inst
    BY <1>1
  <2>3. Len(P[s[N].inst]) = N /\ \A i \in 1..N : SubSeq(P[s[N].inst], 1, i) = P[s[i].inst]
    BY <2>1, <2>2
  <2>4. \A i \in 1..N : \E q \in W : q.id = s[i].inst /\ q.tpl = {s[i].tpl}
    BY <2>1
  <2> QED
    BY <2>2, <2>3, <2>4
<1>3. \A q, x \in W : (q.id = x.id => q = x) /\ (P[q.id] = P[x.id] => q = x)
  BY DEF Grove, Forest, Pathed, Distinct, Ids
<1>4. r.tpl = {s[N].tpl}
  BY <1>1, <1>2, <1>3
<1>5. ASSUME Cut(P, W, r) PROVE \E i \in 1..(N - 1) : s[i].tpl = s[N].tpl
  <2>1. PICK q \in W : \E i \in 1..(N - 1) :
          P[q.id] = SubSeq(P[r.id], 1, i) /\ q.tpl \cap r.tpl # {}
    BY <1>2, <1>5 DEF Cut
  <2>2. PICK i \in 1..(N - 1) : P[q.id] = SubSeq(P[r.id], 1, i) /\ q.tpl \cap r.tpl # {}
    BY <2>1
  <2>3. i \in 1..N
    OBVIOUS
  <2>4. PICK x \in W : x.id = s[i].inst /\ x.tpl = {s[i].tpl}
    BY <1>2, <2>3
  <2>5. P[q.id] = P[x.id]
    BY <1>2, <2>2, <2>3, <2>4
  <2>6. q = x
    BY <1>3, <2>5
  <2>7. s[i].tpl = s[N].tpl
    BY <1>4, <2>2, <2>4, <2>6
  <2> QED
    BY <2>7
<1>6. ASSUME NEW i \in 1..(N - 1), s[i].tpl = s[N].tpl PROVE Cut(P, W, r)
  <2>1. i \in 1..N
    OBVIOUS
  <2>2. PICK x \in W : x.id = s[i].inst /\ x.tpl = {s[i].tpl}
    BY <1>2, <2>1
  <2>3. P[x.id] = SubSeq(P[r.id], 1, i) /\ x.tpl \cap r.tpl # {}
    BY <1>2, <1>4, <1>6, <2>1, <2>2
  <2>4. i \in 1..(Len(P[r.id]) - 1)
    BY <1>2
  <2> QED
    BY <2>3, <2>4 DEF Cut
<1> QED
  BY <1>1, <1>5, <1>6

CutRows(P, W) == {r \in W : r.tpl # {} /\ Cut(P, W, r)}

\* A row more is at most one cut more.
LEMMA CutMore ==
    ASSUME NEW P, NEW W, NEW n, Grove(P, W), Addable(W, n)
    PROVE  LET V == W \cup {n}
               L == Longer(P, W, n)
           IN  /\ Cardinality(CutRows(P, W)) \in Nat
               /\ ~(n.tpl # {} /\ Cut(L, V, n)) =>
                    Cardinality(CutRows(L, V)) = Cardinality(CutRows(P, W))
               /\ n.tpl # {} /\ Cut(L, V, n) =>
                    Cardinality(CutRows(L, V)) = Cardinality(CutRows(P, W)) + 1
<1>1. PICK V : V = W \cup {n}
  OBVIOUS
<1>2. PICK L : L = Longer(P, W, n)
  OBVIOUS
<1>3. PICK A : A = CutRows(P, W)
  OBVIOUS
<1>4. IsFiniteSet(A) /\ Cardinality(A) \in Nat
  <2>1. IsFiniteSet(W) /\ A \subseteq W
    BY <1>3 DEF CutRows, Grove, Forest
  <2> QED
    BY <2>1, FS_Subset, FS_CardinalityType
<1>5. n \notin A
  BY <1>3 DEF Addable, Ids, CutRows
<1>6. \A r \in W : Cut(L, V, r) <=> Cut(P, W, r)
  BY <1>1, <1>2, CutStill
<1>7. CASE n.tpl # {} /\ Cut(L, V, n)
  <2>1. CutRows(L, V) = A \cup {n}
    BY <1>1, <1>3, <1>6, <1>7 DEF CutRows
  <2>2. Cardinality(A \cup {n}) = Cardinality(A) + 1
    BY <1>4, <1>5, FS_AddElement
  <2> QED
    BY <1>1, <1>2, <1>3, <1>4, <1>7, <2>1, <2>2
<1>8. CASE ~(n.tpl # {} /\ Cut(L, V, n))
  <2>1. CutRows(L, V) = A
    BY <1>1, <1>3, <1>6, <1>8 DEF CutRows
  <2> QED
    BY <1>1, <1>2, <1>3, <1>4, <1>8, <2>1
<1> QED
  BY <1>7, <1>8

LEMMA PathsNow == \A P : InstsOnce /\ Grove(P, Own) => Paths = P
<1> SUFFICES ASSUME NEW P, InstsOnce, Grove(P, Own) PROVE Paths = P
  OBVIOUS
<1>1. Paths = PathsOf(inst, Occurrences)
  BY Zenon DEF Paths, PathsOf
<1>2. Distinct(inst) /\ Occurrences \subseteq Ids(inst)
  BY DEF InstsOnce, Occurrences
<1> QED
  BY <1>1, <1>2, PathsFound DEF Own

LEMMA PathsNext == \A P : InstsOnce' /\ Grove(P, Own)' => (Paths = P)'
<1>1. (\A P : InstsOnce /\ Grove(P, Own) => Paths = P)'
  BY PathsNow, PTL
<1> QED
  BY <1>1

\* The seal counts the occurrences the guard has cut; the innermost is cut
\* when its rows are stamped.
RecursiveCounted ==
    stats.recursive + ToCut(stack, onPath) = Cardinality(CutRows(Paths, Own))

LEMMA RecursiveInit == Init => RecursiveCounted
<1> SUFFICES ASSUME Init PROVE RecursiveCounted
  OBVIOUS
<1>1. inst = {} /\ stack = <<>> /\ stats.recursive = 0
  BY DEF Init
<1>2. ToCut(stack, onPath) = 0
  BY <1>1 DEF ToCut
<1>3. PICK P : P = Paths
  OBVIOUS
<1>4. CutRows(P, Own) = {}
  BY <1>1 DEF CutRows, Own, OwnOf
<1> QED
  BY <1>1, <1>2, <1>3, <1>4, FS_EmptySet DEF RecursiveCounted

\* No occurrence comes.
LEMMA RecursiveStill ==
    ASSUME NEW P, Unfolding(P), InstsOnce, InstsOnce', Own' = Own, RecursiveCounted,
           stats'.recursive + ToCut(stack', onPath') = stats.recursive + ToCut(stack, onPath)
    PROVE  RecursiveCounted'
<1>1. Grove(P, Own) /\ Grove(P, Own)'
  BY DEF Unfolding
<1>2. Paths = P /\ Paths' = P
  BY <1>1, PathsNow, PathsNext
<1>3. PICK W : W = Own
  OBVIOUS
<1>4. stats.recursive + ToCut(stack, onPath) = Cardinality(CutRows(P, W))
  BY <1>2, <1>3 DEF RecursiveCounted
<1>5. stats'.recursive + ToCut(stack', onPath') = Cardinality(CutRows(P, W))
  BY <1>4
<1> QED
  BY <1>2, <1>3, <1>5 DEF RecursiveCounted

\* The occurrences while the tree is stamped.
LEMMA TreeNext ==
    ASSUME NEW P, Unfolding(P)', phase' = "tree"
    PROVE  /\ Own' = inst' /\ Grove(P, inst') /\ Standing(P, inst', stack')
           /\ NoPackageYet'
<1>1. Grove(P, Own)' /\ NoPackageYet' /\ Growing(P, Own, stack, design)'
  BY DEF Unfolding
<1>2. Own' = inst'
  BY <1>1 DEF NoPackageYet, Own, OwnOf, Occurrences, Ids
<1>3. Grove(P, inst')
  BY <1>1, <1>2
<1>4. Standing(P, inst', stack')
  BY <1>1, <1>2 DEF Growing
<1> QED
  BY <1>1, <1>2, <1>3, <1>4

LEMMA ComesAddable ==
    ASSUME NEW P, Unfolding(P)', phase' = "tree", NEW n, NewInst(n),
           \A r \in KidsOf(inst, n.parent) : r.id < n.id
    PROVE  Addable(inst, n)
<1>1. Grove(P, inst')
  BY TreeNext
<1>2. inst' = inst \cup {n} /\ n.id \notin Ids(inst)
  BY DEF NewInst
<1>3. n \in TreeRow /\ (n.parent # 0 => n.parent \in Ids(inst') /\ n.parent < n.id)
  BY <1>1, <1>2 DEF Grove, Forest
<1>4. n.parent # 0 => n.parent \in Ids(inst)
  <2>1. Ids(inst') = Ids(inst) \cup {n.id}
    BY <1>2 DEF Ids
  <2>2. n.id \in Nat /\ n.parent \in Nat
    BY <1>3 DEF TreeRow
  <2> QED
    BY <1>3, <2>1, <2>2
<1> QED
  BY <1>2, <1>3, <1>4 DEF Addable

\* An occurrence comes.
LEMMA RecursiveMore ==
    ASSUME NEW P, Unfolding(P), NEW Q, Unfolding(Q)', InstsOnce, InstsOnce',
           RecursiveCounted, phase = "tree", phase' = "tree",
           NEW n, NewInst(n), \A r \in KidsOf(inst, n.parent) : r.id < n.id,
           stats.recursive \in Int, stats'.recursive = stats.recursive,
           ToCut(stack, onPath) = 0,
           ToCut(stack', onPath') = IF n.tpl # {} /\ Cut(Q, inst', n) THEN 1 ELSE 0
    PROVE  RecursiveCounted'
<1>1. Own = inst /\ Grove(P, inst)
  BY OwnIsInst DEF Unfolding
<1>2. Own' = inst' /\ Grove(Q, inst') /\ inst' = inst \cup {n}
  BY TreeNext DEF NewInst
<1>3. Addable(inst, n)
  BY ComesAddable
<1>4. PICK W : W = inst
  OBVIOUS
<1>5. PICK L : L = Longer(P, W, n)
  OBVIOUS
<1>6. Grove(L, W \cup {n})
  BY <1>1, <1>3, <1>4, <1>5, GroveGrows
<1>7. Paths = P /\ Paths' = L /\ L = Q
  <2>1. Paths = P
    BY <1>1, PathsNow
  <2>2. Grove(L, Own)' /\ Grove(Q, Own)'
    BY <1>2, <1>4, <1>6
  <2> QED
    BY <2>1, <2>2, PathsNext
<1>8. /\ Cardinality(CutRows(P, W)) \in Nat
      /\ ~(n.tpl # {} /\ Cut(L, W \cup {n}, n)) =>
           Cardinality(CutRows(L, W \cup {n})) = Cardinality(CutRows(P, W))
      /\ n.tpl # {} /\ Cut(L, W \cup {n}, n) =>
           Cardinality(CutRows(L, W \cup {n})) = Cardinality(CutRows(P, W)) + 1
  BY <1>1, <1>3, <1>4, <1>5, CutMore
<1>9. stats.recursive = Cardinality(CutRows(P, W))
  BY <1>1, <1>4, <1>7 DEF RecursiveCounted
<1>10. stats'.recursive + ToCut(stack', onPath') = Cardinality(CutRows(L, W \cup {n}))
  BY <1>2, <1>4, <1>7, <1>8, <1>9
<1> QED
  BY <1>2, <1>4, <1>7, <1>10 DEF RecursiveCounted

LEMMA RecursiveTop ==
    ASSUME TypeOK, PathInv, NodesIssued, InstsOnce, InstsOnce', stats \in Counted,
           RecursiveCounted, NEW P, Unfolding(P), NEW Q, Unfolding(Q)', StampTop
    PROVE  RecursiveCounted'
<1> DEFINE n == TopInst
           t == stack'
<1>1. phase = "tree" /\ phase' = "tree"
  BY DEF StampTop
<1>2. NewInst(n)
  BY InstsMove
<1>3. n.id = last["node"] + 1 /\ n.parent = 0
  BY DEF TopInst, InstRow
<1>4. \A r \in KidsOf(inst, n.parent) : r.id < n.id
  BY <1>3, NodesBound DEF KidsOf, Ids
<1>5. stats'.recursive = stats.recursive /\ stats.recursive \in Int
  BY SealTop, AddsSay DEF Counted
<1>6. ToCut(stack, onPath) = 0 /\ ToCut(stack', onPath') = 0
  BY StagesMove
<1>7. Len(t) = 1 /\ t[1].inst = n.id
  <2>1. PICK none : none = {}
    OBVIOUS
  <2>2. Len(t) = 1 /\ t[1] = NewFrame(design.tops[cursor + 1].tpl, last["node"] + 1, none)
    BY <2>1, StackOfTop
  <2> HIDE DEF t
  <2> QED
    BY <1>3, <2>2, NewFrameFields
<1>8. Grove(Q, inst') /\ Standing(Q, inst', t) /\ n \in inst'
  BY <1>1, <1>2, TreeNext DEF NewInst
<1> HIDE DEF n, t
<1>9. ~Cut(Q, inst', n)
  <2>1. Len(t) \in Nat \ {0} /\ n.id = t[Len(t)].inst /\ 1..(Len(t) - 1) = {}
    BY <1>7
  <2>2. PICK V : V = inst'
    OBVIOUS
  <2>3. PICK s : s = t
    OBVIOUS
  <2>4. Cut(Q, V, n) <=> \E i \in 1..(Len(s) - 1) : s[i].tpl = s[Len(s)].tpl
    BY <1>8, <2>1, <2>2, <2>3, CutOnStack
  <2> QED
    BY <2>1, <2>2, <2>3, <2>4
<1> QED
  BY <1>1, <1>2, <1>4, <1>5, <1>6, <1>9, RecursiveMore

\* The children of the innermost occurrence are older than the one due.
LEMMA DueIsNext ==
    ASSUME TypeOK, ChildDue, NEW P, Unfolding(P)
    PROVE  \A r \in KidsOf(inst, Top.inst) : r.id < ChildId
<1>1. phase = "tree" /\ stack # <<>> /\ Top.stage = "kids"
  BY DEF ChildDue, At
<1>2. Growing(P, inst, stack, design)
  BY <1>1, TreeTyped
<1>3. Underway(inst, Top)
  BY <1>1, <1>2, TopBody DEF Growing
<1> QED
  BY <1>1, <1>3 DEF Underway, ChildId

LEMMA RecursiveBox ==
    ASSUME TypeOK, PathInv, NodesIssued, InstsOnce, InstsOnce', stats \in Counted,
           RecursiveCounted, NEW P, Unfolding(P), NEW Q, Unfolding(Q)', StampUnresolved
    PROVE  RecursiveCounted'
<1> DEFINE n == BoxInst
<1>1. phase = "tree" /\ phase' = "tree" /\ ChildDue
  BY DEF StampUnresolved, ChildDue, At
<1>2. NewInst(n) /\ n.tpl = {}
  BY InstsMove
<1>3. n.id = ChildId /\ n.parent = Top.inst
  BY DEF BoxInst, BlackBoxRow
<1>4. \A r \in KidsOf(inst, n.parent) : r.id < n.id
  BY <1>1, <1>3, DueIsNext
<1>5. stats'.recursive = stats.recursive /\ stats.recursive \in Int
  BY SealBox, AddsSay DEF Counted
<1>6. ToCut(stack, onPath) = 0 /\ ToCut(stack', onPath') = 0
  BY StagesMove
<1> HIDE DEF n
<1> QED
  BY <1>1, <1>2, <1>4, <1>5, <1>6, RecursiveMore

LEMMA RecursiveChild ==
    ASSUME TypeOK, PathInv, NodesIssued, InstsOnce, InstsOnce', stats \in Counted,
           RecursiveCounted, NEW P, Unfolding(P), NEW Q, Unfolding(Q)', StampChildModule
    PROVE  RecursiveCounted'
<1> DEFINE n == ChildInst
<1>1. phase = "tree" /\ phase' = "tree" /\ ChildDue /\ stack # <<>> /\ Top.stage = "kids"
  BY DEF StampChildModule, ChildDue, At
<1>2. NewInst(n) /\ n.tpl # {}
  BY InstsMove
<1>3. n.id = ChildId /\ n.parent = Top.inst
  BY DEF ChildInst, InstRow
<1>4. \A r \in KidsOf(inst, n.parent) : r.id < n.id
  BY <1>1, <1>3, DueIsNext
<1>5. stats'.recursive = stats.recursive /\ stats.recursive \in Int
  BY SealChild, AddsSay DEF Counted
<1>6. /\ ToCut(stack, onPath) = 0
      /\ ToCut(stack', onPath') = IF NextChild.tpl \in onPath THEN 1 ELSE 0
  BY StagesMove
<1>7. Grove(Q, inst') /\ Standing(Q, inst', stack') /\ n \in inst'
  BY <1>1, <1>2, TreeNext DEF NewInst
<1>8. PICK N \in Nat \ {0} : N = Len(stack)
  BY <1>1, Below
<1>9. PICK t : t = stack'
  OBVIOUS
<1>10. /\ Len(t) = N + 1 /\ \A i \in 1..N : t[i].tpl = stack[i].tpl
       /\ t[N + 1].inst = ChildId /\ t[N + 1].tpl = NextChild.tpl
  <2>1. /\ \A i \in 1..(N - 1) : t[i] = stack[i]
        /\ Len(t) = N + 1 /\ t[N] = Waiting /\ t[N + 1] = ChildFrame
    BY <1>1, <1>8, <1>9, StackMoves DEF BelowKept
  <2>2. Waiting.tpl = Top.tpl /\ Top = stack[N]
    BY <1>1, <1>8, FrameFields, TopBody
  <2>3. ChildFrame.inst = ChildId /\ ChildFrame.tpl = NextChild.tpl
    BY NewFrameFields DEF ChildFrame
  <2>4. \A i \in 1..N : i \in 1..(N - 1) \/ i = N
    OBVIOUS
  <2> QED
    BY <2>1, <2>2, <2>3, <2>4
<1>11. onPath = {stack[i].tpl : i \in 1..N}
  <2>1. InChildren(N)
    BY <1>1, <1>8, TopBody DEF InChildren
  <2> QED
    BY <1>1, <1>8, <2>1, Below
<1> HIDE DEF n
<1>12. Cut(Q, inst', n) <=> NextChild.tpl \in onPath
  <2>1. Len(t) \in Nat \ {0} /\ n.id = t[Len(t)].inst /\ Len(t) - 1 = N
    BY <1>3, <1>10
  <2>2. PICK V : V = inst'
    OBVIOUS
  <2>3. Grove(Q, V) /\ Standing(Q, V, t) /\ n \in V
    BY <1>7, <1>9, <2>2
  <2>4. Cut(Q, V, n) <=> \E i \in 1..(Len(t) - 1) : t[i].tpl = t[Len(t)].tpl
    BY <2>1, <2>3, CutOnStack
  <2>5. Cut(Q, V, n) <=> \E i \in 1..N : stack[i].tpl = NextChild.tpl
    BY <1>10, <2>1, <2>4
  <2> QED
    BY <1>11, <2>2, <2>5
<1>13. ToCut(stack', onPath') = IF n.tpl # {} /\ Cut(Q, inst', n) THEN 1 ELSE 0
  BY <1>2, <1>6, <1>12
<1> QED
  BY <1>1, <1>2, <1>4, <1>5, <1>6, <1>13, RecursiveMore

LEMMA RecursiveInside ==
    ASSUME TypeOK, PathInv, NodesIssued, TreeNumbered, InstsOnce, InstsOnce',
           stats \in Counted, RecursiveCounted,
           NEW P, Unfolding(P), NEW Q, Unfolding(Q)',
           StampRows \/ CutRecursion \/ EnterChildren \/ StampConns \/ Return
    PROVE  RecursiveCounted'
<1>1. phase = "tree" /\ phase' = "tree"
  BY OnStack DEF StampRows, CutRecursion, EnterChildren, StampConns, Return
<1>2. inst' = inst
  BY InstsMove
<1>3. Own' = Own
  BY <1>1, <1>2, TreeTyped, TreeNext
<1>4. stats'.recursive + ToCut(stack', onPath') = stats.recursive + ToCut(stack, onPath)
  <2>0. stats.recursive \in Int
    BY DEF Counted
  <2>1. CASE StampRows
    <3>1. stats'.recursive = stats.recursive
      BY <2>1, SealRows, AddsSay
    <3> QED
      BY <2>1, <3>1, StagesMove
  <2>2. CASE CutRecursion
    <3>1. stats'.recursive = stats.recursive + 1
      BY <2>2, SealCut, AddsSay
    <3> QED
      BY <2>0, <2>2, <3>1, StagesMove
  <2>3. CASE EnterChildren \/ Return
    <3>1. stats'.recursive = stats.recursive
      BY <2>3, SealStill, AddsSay
    <3> QED
      BY <2>3, <3>1, StagesMove
  <2>4. CASE StampConns
    <3>1. stats'.recursive = stats.recursive
      BY <2>4, SealConns, AddsSay
    <3> QED
      BY <2>4, <3>1, StagesMove
  <2> QED
    BY <2>1, <2>2, <2>3, <2>4
<1> QED
  BY <1>3, <1>4, RecursiveStill

LEMMA RecursiveAfter ==
    ASSUME TypeOK, PathInv, NodesIssued, InstsOnce, InstsOnce',
           stats \in Counted, RecursiveCounted, NEW P, Unfolding(P),
           StampPackage \/ ResolveRef \/ CrossDep \/ Advance \/ UNCHANGED vars
    PROVE  RecursiveCounted'
<1>1. Own' = Own
  BY OwnStays
<1>2. ToCut(stack', onPath') = ToCut(stack, onPath)
  BY StagesMove
<1>3. stats'.recursive = stats.recursive
  <2>1. CASE StampPackage
    BY <2>1, SealPackage, AddsSay
  <2>2. CASE CrossDep
    BY <2>2, SealDep, AddsSay
  <2>3. CASE ResolveRef \/ Advance \/ UNCHANGED vars
    BY <2>3, SealStill, AddsSay
  <2> QED
    BY <2>1, <2>2, <2>3
<1> QED
  BY <1>1, <1>2, <1>3, RecursiveStill

LEMMA RecursiveStep ==
    TypeOK /\ PathInv /\ NodesIssued /\ TreeNumbered /\ InstsOnce /\ InstsOnce'
      /\ stats \in Counted /\ Unfolded /\ Unfolded' /\ RecursiveCounted /\ [Next]_vars
      => RecursiveCounted'
<1> SUFFICES ASSUME TypeOK, PathInv, NodesIssued, TreeNumbered, InstsOnce, InstsOnce',
                    stats \in Counted, Unfolded, Unfolded', RecursiveCounted, [Next]_vars
             PROVE  RecursiveCounted'
  OBVIOUS
<1>1. PICK P : Unfolding(P)
  BY DEF Unfolded
<1>2. PICK Q : Unfolding(Q)'
  BY DEF Unfolded
<1>3. CASE StampTop
  BY <1>1, <1>2, <1>3, RecursiveTop
<1>4. CASE StampRows \/ CutRecursion \/ EnterChildren \/ StampConns \/ Return
  BY <1>1, <1>2, <1>4, RecursiveInside
<1>5. CASE StampChildModule
  BY <1>1, <1>2, <1>5, RecursiveChild
<1>6. CASE StampUnresolved
  BY <1>1, <1>2, <1>6, RecursiveBox
<1>7. CASE StampPackage \/ ResolveRef \/ CrossDep \/ Advance \/ UNCHANGED vars
  BY <1>1, <1>7, RecursiveAfter
<1> QED
  BY <1>3, <1>4, <1>5, <1>6, <1>7 DEF Next

-----------------------------------------------------------------------------
(* The instances above one, as the paths have them.                        *)

\* A row's parent has its path but for the last place.
LEMMA ParentPath ==
    ASSUME NEW P, NEW W, Grove(P, W), NEW r \in W
    PROVE  /\ P[r.id] \in Seq(Nat) /\ Len(P[r.id]) \in Nat \ {0} /\ r.id \in Nat \ {0}
           /\ Len(P[r.id]) = 1 => r.parent = 0
           /\ Len(P[r.id]) # 1 => /\ r.parent \in Ids(W)
                                  /\ P[r.parent] = SubSeq(P[r.id], 1, Len(P[r.id]) - 1)
                                  /\ Len(P[r.id]) = Len(P[r.parent]) + 1
<1>1. /\ r.id \in Nat \ {0} /\ r.id \in Ids(W) /\ P[r.id] = PathTo(P, W, r)
      /\ r.parent # 0 => r.parent \in Ids(W)
      /\ \A j \in Ids(W) : P[j] \in Seq(Nat) /\ P[j] # <<>>
  <2>1. \A q \in W : P[q.id] # <<>>
    BY DEF Grove, Pathed
  <2> QED
    BY <2>1 DEF Grove, Forest, Pathed, TreeRow, Ids
<1>2. CASE r.parent = 0
  <2>1. P[r.id] = <<Place(W, 0, r.id)>>
    BY <1>1, <1>2 DEF PathTo
  <2>2. Len(P[r.id]) = 1
    BY <2>1
  <2> QED
    BY <1>1, <1>2, <2>2
<1>3. CASE r.parent # 0
  <2>1. PICK a \in Seq(Nat) : a = P[r.parent] /\ a # <<>>
    BY <1>1, <1>3
  <2>2. PICK c \in Nat : c = Place(W, r.parent, r.id)
    BY KidsFinite DEF Grove, Forest
  <2>3. P[r.id] = Append(a, c)
    BY <1>1, <1>3, <2>1, <2>2 DEF PathTo
  <2>4. Len(a) \in Nat \ {0} /\ Len(Append(a, c)) = Len(a) + 1
    BY <2>1, PathAppended
  <2>5. SubSeq(Append(a, c), 1, Len(a)) = SubSeq(a, 1, Len(a)) /\ SubSeq(a, 1, Len(a)) = a
    <3>1. Len(a) \in 1..Len(a)
      BY <2>4
    <3> QED
      BY <2>1, <2>2, <3>1, Initials, Whole
  <2>6. Len(P[r.id]) = Len(a) + 1 /\ Len(P[r.id]) - 1 = Len(a)
    BY <2>3, <2>4
  <2>7. P[r.parent] = SubSeq(P[r.id], 1, Len(P[r.id]) - 1)
    BY <2>1, <2>3, <2>5, <2>6
  <2> QED
    BY <1>1, <1>3, <2>1, <2>4, <2>6, <2>7
<1> QED
  BY <1>2, <1>3

\* No path is longer than there are rows.
Elders(W, i) == {q \in W : q.id <= i}

LEMMA EldersMore ==
    ASSUME NEW W, IsFiniteSet(W), NEW r \in W, NEW j \in Nat, r.id \in Nat, j < r.id,
           \A q \in W : q.id \in Nat
    PROVE  /\ Cardinality(Elders(W, j)) \in Nat /\ Cardinality(Elders(W, r.id)) \in Nat
           /\ Cardinality(Elders(W, j)) + 1 <= Cardinality(Elders(W, r.id))
           /\ Cardinality(Elders(W, r.id)) <= Cardinality(W)
<1>1. PICK A : A = Elders(W, j)
  OBVIOUS
<1>2. PICK B : B = Elders(W, r.id)
  OBVIOUS
<1>3. A \cup {r} \subseteq B /\ r \notin A /\ A \subseteq W /\ B \subseteq W
  BY <1>1, <1>2 DEF Elders
<1>4. IsFiniteSet(A) /\ IsFiniteSet(B)
  BY <1>3, FS_Subset
<1>5. /\ Cardinality(A) \in Nat /\ Cardinality(B) \in Nat
      /\ Cardinality(A \cup {r}) = Cardinality(A) + 1
      /\ Cardinality(A \cup {r}) <= Cardinality(B)
      /\ Cardinality(B) <= Cardinality(W)
  BY <1>3, <1>4, FS_CardinalityType, FS_AddElement, FS_Subset
<1> QED
  BY <1>1, <1>2, <1>5

LEMMA PathBound ==
    ASSUME NEW P, NEW W, Grove(P, W), NEW r \in W
    PROVE  Len(P[r.id]) <= Cardinality(W)
<1> DEFINE OK(x) == Len(P[x.id]) <= Cardinality(Elders(W, x.id))
           Bad == {x.id : x \in {y \in W : ~OK(y)}}
<1>1. /\ IsFiniteSet(W)
      /\ \A x \in W : /\ x.id \in Nat \ {0} /\ x.parent \in Nat
                      /\ x.parent # 0 => x.parent \in Ids(W) /\ x.parent < x.id
  BY DEF Grove, Forest, TreeRow
<1>2. CASE Bad # {}
  <2>1. PICK m \in Bad : \A k \in Bad : m <= k
    <3>1. Bad \subseteq Nat
      BY <1>1
    <3> HIDE DEF Bad
    <3> QED
      BY <1>2, <3>1, Least
  <2>2. PICK x \in W : x.id = m /\ ~OK(x)
    BY <2>1
  <2>3. \A y \in W : y.id < x.id => OK(y)
    <3>1. ASSUME NEW y \in W, y.id < x.id, ~OK(y) PROVE FALSE
      <4>1. y.id \in Bad
        BY <3>1
      <4> HIDE DEF Bad, OK
      <4> QED
        BY <1>1, <2>1, <2>2, <3>1, <4>1
    <3> HIDE DEF OK
    <3> QED
      BY <3>1
  <2>4. Len(P[x.id]) \in Nat \ {0} /\ (Len(P[x.id]) # 1 => x.parent \in Ids(W) /\
          Len(P[x.id]) = Len(P[x.parent]) + 1)
    BY ParentPath
  <2>5. CASE Len(P[x.id]) = 1
    <3>1. PICK z \in Nat : z = 0
      OBVIOUS
    <3>2. z < x.id
      BY <1>1, <3>1
    <3>3. /\ Cardinality(Elders(W, z)) \in Nat /\ Cardinality(Elders(W, x.id)) \in Nat
          /\ Cardinality(Elders(W, z)) + 1 <= Cardinality(Elders(W, x.id))
      BY <1>1, <3>2, EldersMore
    <3> QED
      BY <2>2, <2>5, <3>3
  <2>6. CASE Len(P[x.id]) # 1
    <3>1. PICK q \in W : q.id = x.parent
      BY <2>4, <2>6 DEF Ids
    <3>2. q.id < x.id
      BY <1>1, <2>4, <2>6, <3>1
    <3>3. Len(P[q.id]) <= Cardinality(Elders(W, q.id)) /\ Len(P[q.id]) \in Nat
      BY <2>3, <3>2, ParentPath
    <3>4. /\ Cardinality(Elders(W, q.id)) \in Nat /\ Cardinality(Elders(W, x.id)) \in Nat
          /\ Cardinality(Elders(W, q.id)) + 1 <= Cardinality(Elders(W, x.id))
      BY <1>1, <3>2, EldersMore
    <3> QED
      BY <2>2, <2>4, <2>6, <3>1, <3>3, <3>4
  <2> QED
    BY <2>5, <2>6
<1>3. CASE Bad = {}
  <2>1. OK(r)
    BY <1>3
  <2>2. /\ Cardinality(Elders(W, r.id)) \in Nat
        /\ Cardinality(Elders(W, r.id)) <= Cardinality(W)
    <3>1. PICK z \in Nat : z = 0
      OBVIOUS
    <3>2. z < r.id
      BY <1>1, <3>1
    <3> QED
      BY <1>1, <3>2, EldersMore
  <2>3. Cardinality(W) \in Nat /\ Len(P[r.id]) \in Nat
    BY <1>1, FS_CardinalityType, ParentPath
  <2> QED
    BY <2>1, <2>2, <2>3
<1> QED
  BY <1>2, <1>3

LEMMA Shorter ==
    ASSUME NEW a \in Seq(Nat), NEW l \in 1..Len(a), NEW k \in 1..l
    PROVE  /\ SubSeq(a, 1, l) \in Seq(Nat) /\ Len(SubSeq(a, 1, l)) = l
           /\ SubSeq(SubSeq(a, 1, l), 1, k) = SubSeq(a, 1, k)
<1>1. SubSeq(a, 1, l) \in Seq(Nat) /\ Len(SubSeq(a, 1, l)) = l
  OBVIOUS
<1>2. \A i \in 1..l : SubSeq(a, 1, l)[i] = a[i]
  OBVIOUS
<1>3. PICK b \in Seq(Nat) : b = SubSeq(a, 1, l)
  BY <1>1
<1>4. Len(b) = l /\ \A i \in 1..l : b[i] = a[i]
  BY <1>1, <1>2, <1>3
<1>5. SubSeq(b, 1, k) = SubSeq(a, 1, k)
  <2>1. SubSeq(b, 1, k) \in Seq(Nat) /\ Len(SubSeq(b, 1, k)) = k
    BY <1>4
  <2>2. SubSeq(a, 1, k) \in Seq(Nat) /\ Len(SubSeq(a, 1, k)) = k
    OBVIOUS
  <2>3. \A i \in 1..k : SubSeq(b, 1, k)[i] = b[i] /\ SubSeq(a, 1, k)[i] = a[i] /\ b[i] = a[i]
    BY <1>4
  <2> QED
    BY <2>1, <2>2, <2>3
<1> QED
  BY <1>1, <1>3, <1>5

\* The row at the beginning of a path, and its parent.
LEMMA ParentsUp ==
    ASSUME NEW P, NEW W, Grove(P, W), NEW r \in W, NEW k \in 1..Len(P[r.id]),
           NEW q \in W, P[q.id] = SubSeq(P[r.id], 1, k)
    PROVE  /\ k = 1 => q.parent = 0
           /\ k # 1 => /\ q.parent \in Ids(W) /\ k - 1 \in 1..Len(P[r.id])
                       /\ P[q.parent] = SubSeq(P[r.id], 1, k - 1)
<1>1. PICK a \in Seq(Nat) : a = P[r.id]
  BY ParentPath
<1>2. k \in 1..Len(a) /\ P[q.id] = SubSeq(a, 1, k) /\ Len(a) \in Nat
  BY <1>1
<1>3. Len(P[q.id]) = k
  <2>1. k \in 1..k
    OBVIOUS
  <2> QED
    BY <1>2, <2>1, Shorter
<1>4. /\ k = 1 => q.parent = 0
      /\ k # 1 => /\ q.parent \in Ids(W)
                  /\ P[q.parent] = SubSeq(P[q.id], 1, k - 1)
  BY <1>3, ParentPath
<1>5. k # 1 => SubSeq(P[q.id], 1, k - 1) = SubSeq(a, 1, k - 1) /\ k - 1 \in 1..Len(a)
  <2>1. k # 1 => k - 1 \in 1..k /\ k - 1 \in 1..Len(a)
    BY <1>2
  <2> QED
    BY <1>2, <2>1, Shorter
<1> QED
  BY <1>1, <1>4, <1>5

AboveOf(I, i) ==
    LET up[n \in 0..Cardinality(I)] ==
          IF n = 0 THEN RowOf(I, i).parent
          ELSE IF up[n - 1] = 0 THEN 0 ELSE RowOf(I, up[n - 1]).parent
    IN  {up[n] : n \in DOMAIN up} \ {0}

Ancestors(P, W, r) ==
    {q \in W : \E k \in 1..(Len(P[r.id]) - 1) : P[q.id] = SubSeq(P[r.id], 1, k)}

\* Going up by the parents passes the rows at the beginnings of the path.
LEMMA AboveIs ==
    ASSUME NEW I, IsFiniteSet(I), Distinct(I), NEW W \in SUBSET I,
           NEW P, Grove(P, W), NEW r \in W
    PROVE  AboveOf(I, r.id) = Ids(Ancestors(P, W, r))
<1> DEFINE Up(h, n) == IF n = 0 THEN RowOf(I, r.id).parent
                       ELSE IF h[n - 1] = 0 THEN 0 ELSE RowOf(I, h[n - 1]).parent
           rowAt(k) == CHOOSE q \in W : P[q.id] = SubSeq(P[r.id], 1, k)
<1>1. PICK L \in Nat \ {0} : L = Len(P[r.id])
  BY ParentPath
<1>2. PICK m \in Nat : m = Cardinality(I)
  BY FS_CardinalityType
<1>3. L <= m
  <2>1. L <= Cardinality(W)
    BY <1>1, PathBound
  <2>2. Cardinality(W) <= Cardinality(I) /\ Cardinality(W) \in Nat
    BY FS_Subset, FS_CardinalityType
  <2> QED
    BY <1>2, <2>1, <2>2
<1>4. /\ \A q \in W : RowOf(I, q.id) = q /\ q.id \in Nat \ {0}
      /\ \A q, x \in W : P[q.id] = P[x.id] => q = x
  <2>1. \A q \in W : RowOf(I, q.id) = q
    BY RowOfId
  <2>2. \A q \in W : q.id \in Nat \ {0} /\ q.id \in Ids(W)
    BY DEF Grove, Forest, TreeRow, Ids
  <2>3. \A q, x \in W : q.id = x.id => q = x
    BY DEF Distinct
  <2>4. \A i, j \in Ids(W) : P[i] = P[j] => i = j
    BY DEF Grove, Pathed
  <2> QED
    BY <2>1, <2>2, <2>3, <2>4
<1>5. \A k \in 1..L : rowAt(k) \in W /\ P[rowAt(k).id] = SubSeq(P[r.id], 1, k)
  BY <1>1, PrefixThere
<1>6. \A k \in 1..L : \A q \in W : P[q.id] = SubSeq(P[r.id], 1, k) => q = rowAt(k)
  BY <1>4, <1>5
<1> HIDE DEF rowAt
<1>7. rowAt(L) = r
  <2>1. SubSeq(P[r.id], 1, L) = P[r.id]
    BY <1>1, Whole, ParentPath
  <2> QED
    BY <1>6, <2>1
<1>8. \A k \in 1..L : /\ k = 1 => rowAt(k).parent = 0
                      /\ k # 1 => rowAt(k).parent = rowAt(k - 1).id
  <2>1. ASSUME NEW k \in 1..L
        PROVE  /\ k = 1 => rowAt(k).parent = 0
               /\ k # 1 => rowAt(k).parent = rowAt(k - 1).id
    <3>1. PICK q \in W : q = rowAt(k) /\ P[q.id] = SubSeq(P[r.id], 1, k)
      BY <1>5
    <3>2. /\ k = 1 => q.parent = 0
          /\ k # 1 => /\ q.parent \in Ids(W) /\ k - 1 \in 1..L
                      /\ P[q.parent] = SubSeq(P[r.id], 1, k - 1)
      BY <1>1, <3>1, ParentsUp
    <3>3. k # 1 => \E x \in W : x.id = q.parent /\ x = rowAt(k - 1)
      BY <1>6, <3>2 DEF Ids
    <3> QED
      BY <3>1, <3>2, <3>3
  <2> QED
    BY <2>1
<1>9. PICK g : g = [n \in 0..m |-> IF n <= L - 2 THEN rowAt(L - 1 - n).id ELSE 0]
  OBVIOUS
<1>10. \A n \in 0..m : g[n] = Up(g, n)
  <2>1. ASSUME NEW n \in 0..m PROVE g[n] = Up(g, n)
    <3>1. g[n] = IF n <= L - 2 THEN rowAt(L - 1 - n).id ELSE 0
      BY <1>9
    <3>2. CASE n = 0
      <4>1. Up(g, n) = r.parent
        BY <1>4, <3>2
      <4>2. L \in 1..L
        OBVIOUS
      <4>3. CASE L = 1
        BY <1>7, <1>8, <3>1, <3>2, <4>1, <4>2, <4>3
      <4>4. CASE L # 1
        <5>1. r.parent = rowAt(L - 1).id
          BY <1>7, <1>8, <4>2, <4>4
        <5>2. L - 1 - n = L - 1 /\ n <= L - 2
          BY <3>2, <4>4
        <5> QED
          BY <3>1, <4>1, <5>1, <5>2
      <4> QED
        BY <4>3, <4>4
    <3>3. CASE n # 0
      <4>1. n - 1 \in 0..m /\ g[n - 1] = IF n - 1 <= L - 2 THEN rowAt(L - 1 - (n - 1)).id ELSE 0
        <5>1. n - 1 \in 0..m
          BY <3>3
        <5> QED
          BY <1>9, <5>1
      <4>2. CASE n - 1 <= L - 2
        <5>1. PICK k \in 1..L : k = L - n
          BY <3>3, <4>2
        <5>2. L - 1 - (n - 1) = k /\ L - 1 - n = k - 1
          BY <5>1
        <5>3. g[n - 1] = rowAt(k).id
          BY <4>1, <4>2, <5>2
        <5>4. rowAt(k) \in W
          BY <1>5
        <5>5. Up(g, n) = rowAt(k).parent
          BY <1>4, <3>3, <5>3, <5>4
        <5>6. CASE k = 1
          <6>1. ~(n <= L - 2)
            BY <5>1, <5>6
          <6> QED
            BY <1>8, <3>1, <5>5, <5>6, <6>1
        <5>7. CASE k # 1
          <6>1. n <= L - 2
            BY <5>1, <5>7
          <6> QED
            BY <1>8, <3>1, <5>2, <5>5, <5>7, <6>1
        <5> QED
          BY <5>6, <5>7
      <4>3. CASE ~(n - 1 <= L - 2)
        <5>1. ~(n <= L - 2)
          BY <4>3
        <5> QED
          BY <3>1, <3>3, <4>1, <4>3, <5>1
      <4> QED
        BY <4>2, <4>3
    <3> QED
      BY <3>2, <3>3
  <2> QED
    BY <2>1
<1>11. g = [n \in 0..m |-> Up(g, n)]
  <2>1. g = [n \in 0..m |-> g[n]]
    BY <1>9
  <2> HIDE DEF Up
  <2> QED
    BY <1>10, <2>1
<1>12. PICK f : f = CHOOSE h : h = [n \in 0..m |-> Up(h, n)]
  OBVIOUS
<1>13. AboveOf(I, r.id) = {f[n] : n \in DOMAIN f} \ {0}
  BY <1>2, <1>12, Zenon DEF AboveOf
<1>14. f = [n \in 0..m |-> Up(f, n)]
  BY <1>11, <1>12
<1>15. \A n \in 0..m : f[n] = Up(f, n)
  BY <1>14
<1>16. \A n \in 0..m : f[n] = g[n]
  <2>1. PICK B : B = {n \in 0..m : f[n] # g[n]}
    OBVIOUS
  <2>2. CASE B # {}
    <3>1. PICK i \in B : \A j \in B : i <= j
      BY <2>1, <2>2, Least
    <3>2. i \in 0..m /\ f[i] # g[i] /\ \A j \in 0..m : j < i => f[j] = g[j]
      BY <2>1, <3>1
    <3>3. f[i] = Up(f, i) /\ g[i] = Up(g, i)
      BY <1>10, <1>15, <3>2
    <3>4. i # 0 => i - 1 \in 0..m /\ f[i - 1] = g[i - 1]
      BY <3>2
    <3> QED
      BY <3>2, <3>3, <3>4
  <2> QED
    BY <2>1, <2>2
<1> HIDE DEF Up
<1>17. AboveOf(I, r.id) = {g[n] : n \in 0..m} \ {0}
  BY <1>13, <1>14, <1>16
<1>18. ASSUME NEW a \in AboveOf(I, r.id) PROVE a \in Ids(Ancestors(P, W, r))
  <2>1. PICK n \in 0..m : a = g[n] /\ a # 0
    BY <1>17
  <2>2. n <= L - 2 /\ a = rowAt(L - 1 - n).id
    BY <1>9, <2>1
  <2>3. PICK k \in 1..(L - 1) : k = L - 1 - n
    BY <2>2
  <2>4. k \in 1..L
    OBVIOUS
  <2>5. rowAt(k) \in Ancestors(P, W, r)
    BY <1>1, <1>5, <2>3, <2>4 DEF Ancestors
  <2> QED
    BY <2>2, <2>3, <2>5 DEF Ids
<1>19. ASSUME NEW a \in Ids(Ancestors(P, W, r)) PROVE a \in AboveOf(I, r.id)
  <2>1. PICK q \in W : a = q.id /\ \E k \in 1..(L - 1) : P[q.id] = SubSeq(P[r.id], 1, k)
    BY <1>1 DEF Ids, Ancestors
  <2>2. PICK k \in 1..(L - 1) : P[q.id] = SubSeq(P[r.id], 1, k)
    BY <2>1
  <2>3. q = rowAt(k)
    <3>1. k \in 1..L
      OBVIOUS
    <3> QED
      BY <1>6, <2>2, <3>1
  <2>4. PICK n \in 0..m : n = L - 1 - k
    BY <1>3
  <2>5. n <= L - 2 /\ L - 1 - n = k
    BY <2>4
  <2>6. g[n] = rowAt(k).id
    BY <1>9, <2>5
  <2> QED
    BY <1>4, <1>17, <2>1, <2>3, <2>6
<1> QED
  BY <1>18, <1>19

LEMMA AboveNow == \A i : InstAbove(i) = AboveOf(inst, i)
  BY Zenon DEF InstAbove, AboveOf

\* Every instance with a template is an occurrence.
LEMMA BodiesOwn ==
    ASSUME InstsOnce, OfTemplates
    PROVE  /\ BodiesOf(inst) \subseteq Own /\ Own \subseteq inst
           /\ {i \in Ids(inst) : Bodied(i)} = Ids(BodiesOf(inst))
           /\ \A r \in inst : RowOf(inst, r.id) = r
<1>1. \A r \in inst : RowOf(inst, r.id) = r /\ r.id \in Ids(inst)
  BY RowOfId DEF InstsOnce
<1>2. {i \in Ids(inst) : Bodied(i)} = Ids(BodiesOf(inst))
  BY <1>1 DEF Bodied, BodiesOf, Ids
<1>3. ASSUME NEW r \in BodiesOf(inst) PROVE r \in Own
  <2>1. r \in inst /\ r.tpl # {}
    BY DEF BodiesOf
  <2>2. ~\E n \in tree : n.kind = "package" /\ n.id = r.id
    BY <2>1 DEF OfTemplates
  <2>3. r.id \in Occurrences
    BY <1>1, <2>1, <2>2 DEF Occurrences
  <2> QED
    BY <2>1, <2>3 DEF Own, OwnOf
<1>4. Own \subseteq inst
  BY DEF Own, OwnOf
<1> QED
  BY <1>1, <1>2, <1>3, <1>4

\* The instances under another of their template are those that are cut.
LEMMA RecursiveAre ==
    ASSUME InstsOnce, OfTemplates, InstsCounted, NEW P, Unfolding(P)
    PROVE  {i \in {k \in Ids(inst) : Bodied(k)} : \E a \in InstAbove(i) :
              RowOf(inst, a).tpl = RowOf(inst, i).tpl} = Ids(CutRows(P, Own))
<1>1. PICK I : I = inst
  OBVIOUS
<1>2. PICK W : W = Own
  OBVIOUS
<1>3. /\ Grove(P, W) /\ W \in SUBSET I /\ IsFiniteSet(I) /\ Distinct(I)
      /\ BodiesOf(I) \subseteq W /\ {k \in Ids(inst) : Bodied(k)} = Ids(BodiesOf(I))
      /\ \A r \in I : RowOf(I, r.id) = r
      /\ \A r \in I : r.tpl = {} \/ \E t : r.tpl = {t}
  BY <1>1, <1>2, BodiesOwn DEF Unfolding, InstsOnce, InstsCounted, OfTemplates
<1>4. ASSUME NEW r \in BodiesOf(I)
      PROVE  (\E a \in InstAbove(r.id) : RowOf(I, a).tpl = RowOf(I, r.id).tpl) <=> Cut(P, W, r)
  <2>1. r \in W /\ r \in I /\ r.tpl # {} /\ RowOf(I, r.id) = r
    BY <1>3 DEF BodiesOf
  <2>2. InstAbove(r.id) = Ids(Ancestors(P, W, r))
    <3>1. AboveOf(I, r.id) = Ids(Ancestors(P, W, r))
      BY <1>3, <2>1, AboveIs
    <3> QED
      BY <1>1, <3>1, AboveNow
  <2>3. \A q \in Ancestors(P, W, r) : q \in I /\ RowOf(I, q.id) = q
    BY <1>3 DEF Ancestors
  <2>4. (\E a \in InstAbove(r.id) : RowOf(I, a).tpl = RowOf(I, r.id).tpl)
          <=> \E q \in Ancestors(P, W, r) : q.tpl = r.tpl
    BY <2>1, <2>2, <2>3 DEF Ids
  <2>5. \A q \in I : q.tpl = r.tpl <=> q.tpl \cap r.tpl # {}
    BY <1>3, <2>1
  <2>6. (\E q \in Ancestors(P, W, r) : q.tpl = r.tpl)
          <=> \E q \in Ancestors(P, W, r) : q.tpl \cap r.tpl # {}
    BY <2>3, <2>5
  <2>7. (\E q \in Ancestors(P, W, r) : q.tpl \cap r.tpl # {}) <=> Cut(P, W, r)
    BY DEF Ancestors, Cut
  <2> QED
    BY <2>4, <2>6, <2>7
<1>5. CutRows(P, W) = {r \in BodiesOf(I) : Cut(P, W, r)}
  BY <1>3 DEF CutRows, BodiesOf
<1>6. Ids(CutRows(P, W)) =
        {i \in Ids(BodiesOf(I)) : \E a \in InstAbove(i) : RowOf(I, a).tpl = RowOf(I, i).tpl}
  BY <1>4, <1>5 DEF Ids
<1> QED
  BY <1>1, <1>2, <1>3, <1>6

LEMMA StatsOfRows ==
    ASSUME TypeOK, NodesIssued, TablesIssued, InstsOnce, SealInv, Unfolded, RecursiveCounted
    PROVE  StatsAgree
<1>1. PICK P : Unfolding(P)
  BY DEF Unfolded
<1> SUFFICES ASSUME phase = "done" PROVE StatsAgree
  BY DEF StatsAgree
<1>2. stack = <<>> /\ stats \in Counted
  BY DEF SealInv, AfterTree
<1>3. Begun(stack) = 0 /\ ToCut(stack, onPath) = 0
  BY <1>2 DEF Begun, ToCut
<1>4. Distinct(inst) /\ Ids(inst) \subseteq 1..last["node"] /\ last["node"] \in Nat
  BY NodesBound DEF InstsOnce
<1>5. stats.insts = Cardinality(inst)
  BY DEF SealInv, InstsCounted
<1>6. stats.stamped = Cardinality({i \in Ids(inst) : Bodied(i)})
  <2>1. stats.stamped = Cardinality(BodiesOf(inst))
    BY <1>2, <1>3 DEF SealInv, StampedCounted, Counted
  <2>2. PICK B : B = BodiesOf(inst)
    OBVIOUS
  <2>3. Distinct(B) /\ Ids(B) \subseteq 1..last["node"]
    BY <1>4, <2>2 DEF BodiesOf, Distinct, Ids
  <2>4. Cardinality(B) = Cardinality(Ids(B))
    BY <1>4, <2>3, AsManyIds
  <2> QED
    BY <2>1, <2>2, <2>4, BodiesOwn DEF SealInv
<1>7. stats.conns = Cardinality(conn) /\ stats.deps = Cardinality(dep)
  <2>1. last["conn"] \in Nat /\ last["dep"] \in Nat
    BY DEF TypeOK, Counter, Reserved
  <2>2. IsDense(conn, last["conn"]) /\ IsDense(dep, last["dep"])
    BY <2>1, BlockIsDense DEF TablesIssued
  <2> QED
    BY <2>2 DEF IsDense, SealInv, RowsSealed
<1>8. stats.duplicatePaths =
        Cardinality({r \in tree : r.kind # "package"})
          - Cardinality({<<r.parent, r.name>> : r \in {q \in tree : q.kind # "package"}})
  BY DEF SealInv, DuplicatesCounted, NotedOf, KeysOf
<1>9. stats.recursive =
        Cardinality({i \in {k \in Ids(inst) : Bodied(k)} : \E a \in InstAbove(i) :
                       RowOf(inst, a).tpl = RowOf(inst, i).tpl})
  <2>1. Paths = P
    BY <1>1, PathsNow DEF Unfolding
  <2>2. PICK C : C = CutRows(P, Own)
    OBVIOUS
  <2>3. stats.recursive = Cardinality(C)
    BY <1>2, <1>3, <2>1, <2>2 DEF RecursiveCounted, Counted
  <2>4. Distinct(C) /\ Ids(C) \subseteq 1..last["node"]
    BY <1>4, <2>2 DEF CutRows, Own, OwnOf, Distinct, Ids
  <2>5. Cardinality(C) = Cardinality(Ids(C))
    BY <1>4, <2>4, AsManyIds
  <2> QED
    BY <1>1, <2>2, <2>3, <2>5, RecursiveAre DEF SealInv
<1>10. LET noted == {r \in tree : r.kind # "package"}
           bodies == {i \in Ids(inst) : Bodied(i)}
       IN  /\ stats.insts = Cardinality(inst)
           /\ stats.stamped = Cardinality(bodies)
           /\ stats.conns = Cardinality(conn)
           /\ stats.deps = Cardinality(dep)
           /\ stats.duplicatePaths =
                Cardinality(noted)
                  - Cardinality({<<r.parent, r.name>> : r \in noted})
           /\ stats.recursive =
                Cardinality({i \in bodies : \E a \in InstAbove(i) :
                               RowOf(inst, a).tpl = RowOf(inst, i).tpl})
  BY <1>5, <1>6, <1>7, <1>8, <1>9
<1> QED
  BY <1>10, Zenon DEF StatsAgree

(* For every design whose templates have indices of their own: the nodes   *)
(* under one parent are numbered 0, 1, ... though three loops number them, *)
(* and the seal counts the rows: each duplicated path and each instance    *)
(* the recursion guard cut, however deep, and no other.                    *)
THEOREM TreeIsCounted == Spec => []TreeCounted
<1> DEFINE Inv == TreeNumbered /\ SealInv /\ Unfolded /\ RecursiveCounted
<1>1. Init => Inv
  BY TreeNumberedInit, SealInit, UnfoldedInit, RecursiveInit
<1>2. /\ TypeOK /\ PathInv /\ IdsInv /\ HomeInv /\ HomeInv' /\ Inv /\ [Next]_vars
      => Inv'
  <2> SUFFICES ASSUME TypeOK, PathInv, IdsInv, HomeInv, HomeInv', Inv, [Next]_vars
               PROVE  Inv'
    OBVIOUS
  <2>1. Fresh /\ NodesIssued /\ InstsOnce /\ InstsOnce' /\ stats \in Counted
    BY DEF IdsInv, HomeInv, SealInv
  <2>2. TreeNumbered' /\ SealInv'
    BY <2>1, TreeNumberedStep, SealStep
  <2>3. Unfolded'
    BY <2>1, UnfoldStep
  <2> QED
    BY <2>1, <2>2, <2>3, RecursiveStep
<1>3. TypeOK /\ IdsInv /\ HomeInv /\ Inv => TreeCounted
  BY OrdinalsOfRows, StatsOfRows DEF IdsInv, HomeInv, TreeCounted
<1> HIDE DEF Inv
<1> QED
  BY <1>1, <1>2, <1>3, HomeInductive, PTL DEF Spec

-----------------------------------------------------------------------------
(* Interface bindings.  What a port is bound to is handed down when a      *)
(* child is entered and written as rows when it has returned, after all    *)
(* that was stamped below it; so what an occurrence hands on is compared   *)
(* with what it was handed, and that with its rows once they are there.    *)

TermsOf(T, i) == {r.id : r \in {x \in T : x.inst = i}}

\* The k-th of a set of ids.
Kth(S, k) == CHOOSE x \in S : Cardinality({y \in S : y <= x}) = k

\* BoundRow, of any connection rows.
RowAt(C, t, s) ==
    LET m == {c \in C : c.term = t /\ c.seg = s}
    IN  IF m = {} THEN 0 ELSE (CHOOSE c \in m : TRUE).iface

Given(base, bind) == [childBase |-> base, bind |-> bind]
IsIface(cn) == cn.iface /\ cn.term # 0

\* The rows of instance x, child c of an occurrence that was bound as bind
\* and numbers its children from base, say what its connections do.
Tied(C, T, d, base, bind, c, x) ==
    c.kind = "module" =>
      \E q \in Nat :
        /\ d.body[c.tpl].terms \in Nat
        /\ TermsOf(T, x) = (q + 1)..(q + d.body[c.tpl].terms)
        /\ \A n \in 1..Len(c.conns) : IsIface(c.conns[n]) =>
             /\ c.conns[n].term \in 1..d.body[c.tpl].terms
             /\ RowAt(C, q + c.conns[n].term, c.conns[n].seg)
                  = Bound(Given(base, bind), c.conns[n])

\* The rows of instance i of a template with n terminals say what bind does.
Carries(C, T, bind, n, i) ==
    /\ n \in Nat
    /\ \E q \in Nat :
         /\ TermsOf(T, i) = (q + 1)..(q + n)
         /\ \A p \in 1..n, s \in Nat : BoundTo(bind, p, s) = RowAt(C, q + p, s)

\* What the frame f hands its child c, and what rows will say.
Hands(d, f, c, bind) ==
    /\ bind \in SUBSET Binding
    /\ \A p \in 1..d.body[c.tpl].terms, s \in Nat :
         /\ \A n \in 1..Len(c.conns) :
              IsIface(c.conns[n]) /\ c.conns[n].term = p /\ c.conns[n].seg = s =>
                BoundTo(bind, p, s) = Bound(f, c.conns[n])
         /\ (\A n \in 1..Len(c.conns) :
               ~(IsIface(c.conns[n]) /\ c.conns[n].term = p /\ c.conns[n].seg = s)) =>
              BoundTo(bind, p, s) = 0

LEMMA KthIs ==
    ASSUME NEW b \in Nat, NEW n \in Nat, NEW k \in 1..n
    PROVE  Kth((b + 1)..(b + n), k) = b + k
<1> DEFINE S == (b + 1)..(b + n)
<1>1. ASSUME NEW x \in S
      PROVE  Cardinality({y \in S : y <= x}) = x - b
  <2>1. {y \in S : y <= x} = (b + 1)..x
    OBVIOUS
  <2>2. Cardinality((b + 1)..x) = x - b
    <3>1. b + 1 \in Int /\ x \in Int /\ ~(b + 1 > x)
      BY <1>1
    <3>2. Cardinality((b + 1)..x) = x - (b + 1) + 1
      BY <3>1, FS_Interval
    <3> QED
      BY <3>1, <3>2
  <2> QED
    BY <2>1, <2>2
<1>2. b + k \in S /\ Cardinality({y \in S : y <= b + k}) = k
  <2>1. b + k \in S /\ (b + k) - b = k
    OBVIOUS
  <2> QED
    BY <1>1, <2>1
<1>3. \A x \in S : Cardinality({y \in S : y <= x}) = k => x = b + k
  BY <1>1
<1> HIDE DEF S
<1>4. Kth(S, k) \in S /\ Cardinality({y \in S : y <= Kth(S, k)}) = k
  BY <1>2 DEF Kth
<1> QED
  BY <1>3, <1>4 DEF S

LEMMA RowIs ==
    ASSUME NEW C, NEW t, NEW s
    PROVE  \/ \E c \in C : c.term = t /\ c.seg = s /\ c.iface = RowAt(C, t, s)
           \/ RowAt(C, t, s) = 0 /\ \A c \in C : ~(c.term = t /\ c.seg = s)
<1> DEFINE m == {c \in C : c.term = t /\ c.seg = s}
<1>1. CASE m = {}
  BY <1>1 DEF RowAt
<1>2. CASE m # {}
  <2>1. (CHOOSE c \in m : TRUE) \in m
    BY <1>2
  <2>2. RowAt(C, t, s) = (CHOOSE c \in m : TRUE).iface
    BY <1>2 DEF RowAt
  <2> HIDE DEF m
  <2>3. PICK x \in m : RowAt(C, t, s) = x.iface
    BY <2>1, <2>2
  <2> QED
    BY <2>3 DEF m
<1> QED
  BY <1>1, <1>2

LEMMA BoundIs ==
    ASSUME NEW bind, NEW p, NEW s
    PROVE  \/ \E e \in bind : e.term = p /\ e.seg = s /\ e.inst = BoundTo(bind, p, s)
           \/ BoundTo(bind, p, s) = 0 /\ \A e \in bind : ~(e.term = p /\ e.seg = s)
<1> DEFINE m == {e \in bind : e.term = p /\ e.seg = s}
<1>1. CASE m = {}
  BY <1>1 DEF BoundTo
<1>2. CASE m # {}
  <2>1. (CHOOSE e \in m : TRUE) \in m
    BY <1>2
  <2>2. BoundTo(bind, p, s) = (CHOOSE e \in m : TRUE).inst
    BY <1>2 DEF BoundTo
  <2> HIDE DEF m
  <2>3. PICK x \in m : BoundTo(bind, p, s) = x.inst
    BY <2>1, <2>2
  <2> QED
    BY <2>3 DEF m
<1> QED
  BY <1>1, <1>2

LEMMA RowStays ==
    ASSUME NEW C, NEW D, C \subseteq D, NEW t, NEW s, \A c \in D \ C : c.term # t
    PROVE  RowAt(D, t, s) = RowAt(C, t, s)
<1> DEFINE m == {c \in C : c.term = t /\ c.seg = s}
           n == {c \in D : c.term = t /\ c.seg = s}
<1>1. n = m
  OBVIOUS
<1>2. /\ RowAt(C, t, s) = IF m = {} THEN 0 ELSE (CHOOSE c \in m : TRUE).iface
      /\ RowAt(D, t, s) = IF n = {} THEN 0 ELSE (CHOOSE c \in n : TRUE).iface
  BY Zenon DEF RowAt
<1> HIDE DEF m, n
<1> QED
  BY <1>1, <1>2

\* What BindOf hands is what the connections say, as no two share a segment.
LEMMA BindHands ==
    ASSUME design \in Designs, NEW t \in Tpl, NEW i \in 1..Len(BodyOf(t).children),
           NEW c, c = BodyOf(t).children[i], c.kind = "module", NEW f \in Frame
    PROVE  Hands(design, f, c, BindOf(f, c))
<1> DEFINE at(j) == <<c.conns[j].term, c.conns[j].seg>>
           binding == {j \in 1..Len(c.conns) :
                         c.conns[j].iface /\ c.conns[j].term \in 1..BodyOf(c.tpl).terms}
           winning == {j \in binding : \A k \in binding : at(k) = at(j) => k <= j}
           entry(j) == [term |-> c.conns[j].term, seg |-> c.conns[j].seg,
                        inst |-> Bound(f, c.conns[j])]
<1>0. PICK bind : bind = BindOf(f, c)
  OBVIOUS
<1>1. c \in Child /\ bind \in SUBSET Binding
  BY <1>0, BodyType, BodyParts, BindOfType
<1>2. bind = {entry(j) : j \in winning}
  BY <1>0 DEF BindOf
<1>3. Len(c.conns) \in Nat /\ \A n \in 1..Len(c.conns) : c.conns[n] \in Conn
  BY <1>1 DEF Child
<1>4. \A n, m \in 1..Len(c.conns) :
        IsIface(c.conns[n]) /\ c.conns[m].term = c.conns[n].term
          /\ c.conns[m].seg = c.conns[n].seg => m = n
  BY SegmentsOnce DEF IfacesLocal, IsIface, BodyOf
<1>5. ASSUME NEW p \in 1..BodyOf(c.tpl).terms, NEW s \in Nat
      PROVE  /\ \A n \in 1..Len(c.conns) :
                  IsIface(c.conns[n]) /\ c.conns[n].term = p /\ c.conns[n].seg = s =>
                    BoundTo(bind, p, s) = Bound(f, c.conns[n])
             /\ (\A n \in 1..Len(c.conns) :
                   ~(IsIface(c.conns[n]) /\ c.conns[n].term = p /\ c.conns[n].seg = s)) =>
                  BoundTo(bind, p, s) = 0
  <2>1. \A e \in bind : \E j \in 1..Len(c.conns) : IsIface(c.conns[j]) /\ e = entry(j)
    <3>1. \A j \in winning : j \in 1..Len(c.conns) /\ IsIface(c.conns[j])
      <4>1. \A j \in 1..Len(c.conns) : c.conns[j].term \in 1..BodyOf(c.tpl).terms
              => c.conns[j].term # 0
        OBVIOUS
      <4> QED
        BY <4>1 DEF IsIface
    <3> HIDE DEF winning, entry
    <3> QED
      BY <1>2, <3>1
  <2>2. ASSUME NEW n \in 1..Len(c.conns), IsIface(c.conns[n]), c.conns[n].term = p,
               c.conns[n].seg = s
        PROVE  BoundTo(bind, p, s) = Bound(f, c.conns[n])
    <3>1. n \in winning
      <4>1. n \in binding
        BY <2>2 DEF IsIface
      <4>2. \A k \in binding : at(k) = at(n) => k <= n
        <5>1. ASSUME NEW k \in binding, at(k) = at(n) PROVE k <= n
          <6>1. k = n
            BY <1>4, <2>2, <5>1
          <6> QED
            BY <1>3, <6>1
        <5> QED
          BY <5>1
      <4> QED
        BY <4>1, <4>2
    <3>2. entry(n) \in bind /\ entry(n).term = p /\ entry(n).seg = s
      BY <1>2, <2>2, <3>1
    <3>3. ASSUME NEW e \in bind, e.term = p, e.seg = s
          PROVE  e.inst = Bound(f, c.conns[n])
      <4>1. PICK j \in 1..Len(c.conns) : IsIface(c.conns[j]) /\ e = entry(j)
        BY <2>1
      <4>2. c.conns[j].term = p /\ c.conns[j].seg = s
        BY <3>3, <4>1
      <4>3. n = j
        BY <1>4, <2>2, <4>1, <4>2
      <4> QED
        BY <4>1, <4>3
    <3>4. \E e \in bind : e.term = p /\ e.seg = s
      BY <3>2
    <3> HIDE DEF entry, winning, binding
    <3>5. PICK e \in bind : e.term = p /\ e.seg = s /\ e.inst = BoundTo(bind, p, s)
      BY <3>4, BoundIs, SMT
    <3> QED
      BY <3>3, <3>5
  <2>3. ASSUME \A n \in 1..Len(c.conns) :
                 ~(IsIface(c.conns[n]) /\ c.conns[n].term = p /\ c.conns[n].seg = s)
        PROVE  BoundTo(bind, p, s) = 0
    <3>1. ASSUME NEW e \in bind, e.term = p, e.seg = s PROVE FALSE
      <4>1. PICK j \in 1..Len(c.conns) : IsIface(c.conns[j]) /\ e = entry(j)
        BY <2>1
      <4>2. c.conns[j].term = p /\ c.conns[j].seg = s
        BY <3>1, <4>1
      <4> QED
        BY <2>3, <4>1, <4>2
    <3> QED
      BY <3>1, BoundIs, SMT
  <2> QED
    BY <2>2, <2>3
<1>6. BodyOf(c.tpl) = design.body[c.tpl]
  BY DEF BodyOf
<1>7. Hands(design, f, c, bind)
  BY <1>1, <1>5, <1>6 DEF Hands
<1> QED
  BY <1>0, <1>7

-----------------------------------------------------------------------------
(* What the rows of a stack of occurrences say, as they are written.       *)

On(s, i) == \E j \in 1..Len(s) : s[j].inst = i
DueOf(d, f) == d.body[f.tpl].children[f.next]

\* The instance whose connections are written next.
Awaited(s, i) ==
    Len(s) # 0 /\ Innermost(s).stage = "conns"
      /\ i = Innermost(s).childBase + Innermost(s).next

\* The occurrences of a stack, numbered one below the other.
Stacked(s) ==
    /\ Len(s) \in Nat
    /\ \A j \in 1..Len(s) :
         /\ s[j].inst \in Nat \ {0} /\ s[j].childBase \in Nat /\ s[j].next \in Nat \ {0}
         /\ s[j].stage \in {"rows", "guard", "kids", "conns"}
         /\ j < Len(s) => s[j].stage = "conns"
         /\ s[j].stage \in {"kids", "conns"} => s[j].inst <= s[j].childBase
    /\ \A i, j \in 1..Len(s) : i < j => s[i].childBase < s[j].inst

RowsThere(I, T) ==
    /\ Distinct(I) /\ Distinct(T)
    /\ \A r \in I : r.id \in Nat \ {0} /\ r.parent \in Ids(I) \cup {0}
    /\ \A x \in T : x.inst \in Ids(I)

KidIds(I, i) == Ids(KidsOf(I, i))

\* The children an occurrence has so far, and the connections of those that
\* have returned.
KidsTied(f, C, T, d) ==
    f.stage \in {"kids", "conns"} =>
      \A k \in 1..(f.next - 1) :
        Tied(C, T, d, f.childBase, f.bind, d.body[f.tpl].children[k], f.childBase + k)

FrameTied(f, I, T, C, d) ==
    /\ \E r \in I : r.id = f.inst /\ r.tpl = {f.tpl}
    /\ f.stage = "rows" => TermsOf(T, f.inst) = {}
    /\ f.stage \in {"rows", "guard"} => KidIds(I, f.inst) = {}
    /\ f.stage = "kids" =>
         /\ KidIds(I, f.inst) = (f.childBase + 1)..(f.childBase + f.next - 1)
         /\ f.next <= Len(d.body[f.tpl].children) + 1
    /\ f.stage = "conns" =>
         /\ KidIds(I, f.inst) = (f.childBase + 1)..(f.childBase + f.next)
         /\ \E r \in I : r.id = f.childBase + f.next /\ r.tpl = {DueOf(d, f).tpl}
    /\ KidsTied(f, C, T, d)

\* An occurrence stamps the child its parent waits for, bound as the parent
\* says; a top is bound to nothing.
Handed(s, I, d) ==
    /\ \A j \in 1..(Len(s) - 1) :
         /\ s[j + 1].inst = s[j].childBase + s[j].next
         /\ Hands(d, s[j], DueOf(d, s[j]), s[j + 1].bind)
    /\ Len(s) # 0 => /\ s[1].bind = {}
                     /\ \E r \in I : r.id = s[1].inst /\ r.parent = 0

\* The n terminals of instance i are numbered one after the other.
Blocked(T, i, n) == \E q \in Nat : TermsOf(T, i) = (q + 1)..(q + n)

HaveTerms(s, I, T, d) ==
    \A r \in I : \A t \in Tpl : r.tpl = {t} =>
      \/ \E j \in 1..Len(s) : s[j].inst = r.id /\ s[j].stage = "rows"
      \/ Blocked(T, r.id, d.body[t].terms)

\* An occurrence has connections when its parent has written them.
Untied(s, I, T, C) ==
    \A c \in C : \E x \in T, r \in I :
      /\ x.id = c.term /\ r.id = x.inst /\ r.parent # 0
      /\ ~On(s, r.id) /\ ~Awaited(s, r.id)

\* An occurrence that was left, with children numbered from b.
LeftAs(r, t, b, bind, s, I, T, C, d) ==
    /\ r.tpl = {t}
    /\ KidIds(I, r.id) = (b + 1)..(b + Len(d.body[t].children))
    /\ \A k \in 1..Len(d.body[t].children) :
         Tied(C, T, d, b, bind, d.body[t].children[k], b + k)
    /\ Awaited(s, r.id) => /\ t = DueOf(d, Innermost(s)).tpl
                           /\ Hands(d, Innermost(s), DueOf(d, Innermost(s)), bind)
    /\ ~Awaited(s, r.id) => Carries(C, T, bind, d.body[t].terms, r.id)

LeftTied(r, s, I, T, C, d) ==
    \/ KidIds(I, r.id) = {}
    \/ On(s, r.id)
    \/ \E t \in Tpl, b \in Nat, bind \in SUBSET Binding :
         LeftAs(r, t, b, bind, s, I, T, C, d)

BoundAs(s, I, T, C, d) ==
    /\ RowsThere(I, T)
    /\ \A j \in 1..Len(s) : FrameTied(s[j], I, T, C, d)
    /\ Handed(s, I, d) /\ HaveTerms(s, I, T, d) /\ Untied(s, I, T, C)
    /\ \A r \in I : LeftTied(r, s, I, T, C, d)

-----------------------------------------------------------------------------
(* A step adds rows to one instance, x, and instances under one, p.        *)

Adds1(T, U, C, D, x) ==
    /\ T \subseteq U /\ C \subseteq D /\ Distinct(U)
    /\ \A t \in U \ T : t.inst = x
    /\ \A c \in D \ C : \E t \in U : t.id = c.term /\ t.inst = x

LEMMA TermsStay ==
    ASSUME NEW T, NEW U, NEW C, NEW D, NEW x, Adds1(T, U, C, D, x), NEW y, y # x
    PROVE  TermsOf(U, y) = TermsOf(T, y)
<1>1. {t \in U : t.inst = y} = {t \in T : t.inst = y}
  BY DEF Adds1
<1> QED
  BY <1>1, Zenon DEF TermsOf

LEMMA OwnRowStays ==
    ASSUME NEW T, NEW U, NEW C, NEW D, NEW x, Adds1(T, U, C, D, x), NEW y, y # x,
           NEW i \in TermsOf(U, y), NEW s
    PROVE  RowAt(D, i, s) = RowAt(C, i, s)
<1>1. PICK t \in U : t.id = i /\ t.inst = y
  BY DEF TermsOf
<1>2. \A c \in D \ C : c.term # i
  BY <1>1 DEF Adds1, Distinct
<1>3. C \subseteq D
  BY DEF Adds1
<1> QED
  BY <1>2, <1>3, RowStays

LEMMA TiedStays ==
    ASSUME NEW T, NEW U, NEW C, NEW D, NEW x, Adds1(T, U, C, D, x), NEW y, y # x,
           NEW d, NEW b, NEW bind, NEW c, Tied(C, T, d, b, bind, c, y)
    PROVE  Tied(D, U, d, b, bind, c, y)
<1> SUFFICES ASSUME c.kind = "module" PROVE Tied(D, U, d, b, bind, c, y)
  BY DEF Tied
<1>1. PICK q \in Nat :
        /\ d.body[c.tpl].terms \in Nat
        /\ TermsOf(T, y) = (q + 1)..(q + d.body[c.tpl].terms)
        /\ \A n \in 1..Len(c.conns) : IsIface(c.conns[n]) =>
             /\ c.conns[n].term \in 1..d.body[c.tpl].terms
             /\ RowAt(C, q + c.conns[n].term, c.conns[n].seg)
                  = Bound(Given(b, bind), c.conns[n])
  BY DEF Tied
<1>2. TermsOf(U, y) = TermsOf(T, y)
  BY TermsStay
<1>3. ASSUME NEW n \in 1..Len(c.conns), IsIface(c.conns[n])
      PROVE  /\ c.conns[n].term \in 1..d.body[c.tpl].terms
             /\ RowAt(D, q + c.conns[n].term, c.conns[n].seg)
                  = Bound(Given(b, bind), c.conns[n])
  <2>1. PICK p : p = c.conns[n].term
    OBVIOUS
  <2>2. PICK m : m = d.body[c.tpl].terms
    OBVIOUS
  <2>3. m \in Nat /\ p \in 1..m /\ TermsOf(U, y) = (q + 1)..(q + m)
    BY <1>1, <1>2, <1>3, <2>1, <2>2
  <2>4. q + p \in TermsOf(U, y)
    BY <2>3
  <2>5. RowAt(D, q + p, c.conns[n].seg) = RowAt(C, q + p, c.conns[n].seg)
    BY <2>4, OwnRowStays
  <2> QED
    BY <1>1, <1>3, <2>1, <2>5
<1> QED
  BY <1>1, <1>2, <1>3 DEF Tied

LEMMA CarriesStays ==
    ASSUME NEW T, NEW U, NEW C, NEW D, NEW x, Adds1(T, U, C, D, x), NEW y, y # x,
           NEW bind, NEW n, Carries(C, T, bind, n, y)
    PROVE  Carries(D, U, bind, n, y)
<1>1. PICK q \in Nat :
        /\ TermsOf(T, y) = (q + 1)..(q + n)
        /\ \A p \in 1..n, s \in Nat : BoundTo(bind, p, s) = RowAt(C, q + p, s)
  BY DEF Carries
<1>2. TermsOf(U, y) = TermsOf(T, y)
  BY TermsStay
<1>3. ASSUME NEW p \in 1..n, NEW s \in Nat
      PROVE  BoundTo(bind, p, s) = RowAt(D, q + p, s)
  <2>1. q + p \in TermsOf(U, y)
    <3>1. n \in Nat
      BY DEF Carries
    <3> QED
      BY <1>1, <1>2, <3>1
  <2>2. RowAt(D, q + p, s) = RowAt(C, q + p, s)
    BY <2>1, OwnRowStays
  <2> QED
    BY <1>1, <2>2
<1> QED
  BY <1>1, <1>2, <1>3 DEF Carries

-----------------------------------------------------------------------------
(* The instance that gets the rows is none whose rows are relied on.       *)

Busy(s, I, x) ==
    \/ x \notin Ids(I)
    \/ \E r \in I : r.id = x /\ r.parent = 0
    \/ \E j \in 1..Len(s) : s[j].stage = "conns" /\ x = s[j].childBase + s[j].next

LEMMA StackDistinct ==
    ASSUME NEW s, Stacked(s), NEW i \in 1..Len(s), NEW j \in 1..Len(s)
    PROVE  /\ s[i].inst = s[j].inst => i = j
           /\ s[j].stage \in {"kids", "conns"} /\ i <= j => s[i].inst <= s[j].childBase
<1>1. ASSUME NEW k \in 1..Len(s), NEW m \in 1..Len(s), k < m
      PROVE  s[k].inst < s[m].inst
  <2>1. k < Len(s)
    BY <1>1 DEF Stacked
  <2>2. s[k].stage = "conns" /\ s[k].inst <= s[k].childBase
    BY <2>1 DEF Stacked
  <2>3. s[k].childBase < s[m].inst
    BY <1>1 DEF Stacked
  <2>4. s[k].inst \in Nat /\ s[m].inst \in Nat /\ s[k].childBase \in Nat
    BY DEF Stacked
  <2> QED
    BY <2>2, <2>3, <2>4
<1>2. s[i].inst = s[j].inst => i = j
  <2>1. s[i].inst \in Nat /\ s[j].inst \in Nat /\ i \in Nat /\ j \in Nat
    BY DEF Stacked
  <2> QED
    BY <1>1, <2>1
<1>3. s[j].stage \in {"kids", "conns"} /\ i <= j => s[i].inst <= s[j].childBase
  <2>1. s[i].inst \in Nat /\ s[j].inst \in Nat /\ s[j].childBase \in Nat
    BY DEF Stacked
  <2>2. s[j].stage \in {"kids", "conns"} => s[j].inst <= s[j].childBase
    BY DEF Stacked
  <2>3. i <= j => i = j \/ i < j
    OBVIOUS
  <2> QED
    BY <1>1, <2>1, <2>2, <2>3
<1> QED
  BY <1>2, <1>3

LEMMA BusyApart ==
    ASSUME NEW s, Stacked(s), NEW I, NEW T, RowsThere(I, T), NEW C, NEW d,
           \A j \in 1..Len(s) : FrameTied(s[j], I, T, C, d), NEW x, Busy(s, I, x)
    PROVE  /\ \A j \in 1..Len(s) : s[j].stage \in {"kids", "conns"} =>
                \A k \in 1..(s[j].next - 1) : s[j].childBase + k # x
           /\ \A r \in I : ~On(s, r.id) => x \notin KidIds(I, r.id)
<1>1. \A p, q : \A y \in KidIds(I, p) : y \in KidIds(I, q) => p = q
  BY DEF KidIds, KidsOf, Ids, RowsThere, Distinct
<1>2. \A p : p # 0 /\ x \in KidIds(I, p) =>
        \E j \in 1..Len(s) : /\ s[j].stage = "conns" /\ x = s[j].childBase + s[j].next
                             /\ p = s[j].inst
  <2> SUFFICES ASSUME NEW p, p # 0, x \in KidIds(I, p)
               PROVE  \E j \in 1..Len(s) :
                        /\ s[j].stage = "conns" /\ x = s[j].childBase + s[j].next
                        /\ p = s[j].inst
    OBVIOUS
  <2>1. PICK r \in I : r.id = x /\ r.parent = p
    BY DEF KidIds, KidsOf, Ids
  <2>2. PICK j \in 1..Len(s) : s[j].stage = "conns" /\ x = s[j].childBase + s[j].next
    BY <2>1 DEF Busy, RowsThere, Distinct, Ids
  <2>3. x \in KidIds(I, s[j].inst)
    <3>1. KidIds(I, s[j].inst) = (s[j].childBase + 1)..(s[j].childBase + s[j].next)
      BY <2>2 DEF FrameTied
    <3>2. s[j].childBase \in Nat /\ s[j].next \in Nat \ {0}
      BY DEF Stacked
    <3> QED
      BY <2>2, <3>1, <3>2
  <2> QED
    BY <1>1, <2>2, <2>3
<1>3. ASSUME NEW j \in 1..Len(s), s[j].stage \in {"kids", "conns"},
             NEW k \in 1..(s[j].next - 1), s[j].childBase + k = x
      PROVE  FALSE
  <2>1. s[j].childBase \in Nat /\ s[j].next \in Nat \ {0} /\ s[j].inst # 0
    BY DEF Stacked
  <2>2. \/ KidIds(I, s[j].inst) = (s[j].childBase + 1)..(s[j].childBase + s[j].next - 1)
        \/ KidIds(I, s[j].inst) = (s[j].childBase + 1)..(s[j].childBase + s[j].next)
    BY <1>3 DEF FrameTied
  <2>3. x \in KidIds(I, s[j].inst)
    BY <1>3, <2>1, <2>2
  <2>4. PICK i \in 1..Len(s) : x = s[i].childBase + s[i].next /\ s[j].inst = s[i].inst
    BY <1>2, <2>1, <2>3
  <2>5. i = j
    BY <2>4, StackDistinct
  <2> QED
    BY <1>3, <2>1, <2>4, <2>5
<1>4. ASSUME NEW r \in I, ~On(s, r.id) PROVE x \notin KidIds(I, r.id)
  <2>1. r.id # 0
    BY DEF RowsThere
  <2> QED
    BY <1>2, <1>4, <2>1 DEF On
<1> QED
  BY <1>3, <1>4

-----------------------------------------------------------------------------
(* What a step keeps.                                                      *)

Grows1(s, I, J, T, U, C, D, x, p) ==
    /\ I \subseteq J /\ \A r \in J \ I : r.parent = p /\ r.id \notin Ids(I)
    /\ RowsThere(J, U) /\ Adds1(T, U, C, D, x) /\ Busy(s, I, x)
    /\ p = 0 \/ (Len(s) # 0 /\ p = Innermost(s).inst)

LEMMA KidsSame ==
    ASSUME NEW I, NEW J, NEW y, I \subseteq J, \A r \in J \ I : r.parent # y
    PROVE  KidIds(J, y) = KidIds(I, y)
<1>1. KidsOf(J, y) = KidsOf(I, y)
  BY DEF KidsOf
<1> QED
  BY <1>1, Zenon DEF KidIds

LEMMA TiesKept ==
    ASSUME NEW s, NEW I, NEW J, NEW T, NEW U, NEW C, NEW D, NEW d, NEW x, NEW p,
           Stacked(s), BoundAs(s, I, T, C, d), Grows1(s, I, J, T, U, C, D, x, p),
           NEW j \in 1..Len(s)
    PROVE  KidsTied(s[j], D, U, d)
<1> SUFFICES ASSUME s[j].stage \in {"kids", "conns"}, NEW k \in 1..(s[j].next - 1)
             PROVE  Tied(D, U, d, s[j].childBase, s[j].bind,
                         d.body[s[j].tpl].children[k], s[j].childBase + k)
  BY DEF KidsTied
<1>1. Tied(C, T, d, s[j].childBase, s[j].bind,
           d.body[s[j].tpl].children[k], s[j].childBase + k)
  BY DEF BoundAs, FrameTied, KidsTied
<1>2. s[j].childBase + k # x
  BY BusyApart DEF BoundAs, Grows1
<1>3. Adds1(T, U, C, D, x)
  BY DEF Grows1
<1> QED
  BY <1>1, <1>2, <1>3, TiedStays

LEMMA BelowTied ==
    ASSUME NEW s, NEW I, NEW J, NEW T, NEW U, NEW C, NEW D, NEW d, NEW x, NEW p,
           Stacked(s), BoundAs(s, I, T, C, d), Grows1(s, I, J, T, U, C, D, x, p),
           NEW j \in 1..(Len(s) - 1)
    PROVE  FrameTied(s[j], J, U, D, d)
<1>1. j \in 1..Len(s) /\ Len(s) \in 1..Len(s) /\ j # Len(s) /\ s[j].stage = "conns"
  BY DEF Stacked
<1>2. s[j].inst # p
  BY <1>1, StackDistinct DEF Grows1, Stacked, Innermost
<1>3. KidIds(J, s[j].inst) = KidIds(I, s[j].inst)
  <2>1. I \subseteq J /\ \A r \in J \ I : r.parent # s[j].inst
    BY <1>2 DEF Grows1
  <2> QED
    BY <2>1, KidsSame
<1>4. KidsTied(s[j], D, U, d)
  BY <1>1, TiesKept
<1>5. FrameTied(s[j], I, T, C, d) /\ I \subseteq J
  BY <1>1 DEF BoundAs, Grows1
<1> QED
  BY <1>1, <1>3, <1>4, <1>5 DEF FrameTied

\* The children of an occurrence that was left.
LEMMA ChildrenKept ==
    ASSUME NEW s, NEW I, NEW J, NEW T, NEW U, NEW C, NEW D, NEW d, NEW x, NEW p,
           Stacked(s), BoundAs(s, I, T, C, d), Grows1(s, I, J, T, U, C, D, x, p),
           NEW r \in I, ~On(s, r.id)
    PROVE  /\ KidIds(J, r.id) = KidIds(I, r.id)
           /\ \A t \in Tpl, b \in Nat, bind \in SUBSET Binding :
                LeftAs(r, t, b, bind, s, I, T, C, d) =>
                  \A k \in 1..Len(d.body[t].children) :
                    Tied(D, U, d, b, bind, d.body[t].children[k], b + k)
<1>1. r.id # p
  <2>1. r.id # 0
    BY DEF BoundAs, RowsThere
  <2>2. Len(s) # 0 => On(s, Innermost(s).inst)
    BY DEF On, Innermost, Stacked
  <2> QED
    BY <2>1, <2>2 DEF Grows1
<1>2. KidIds(J, r.id) = KidIds(I, r.id)
  <2>1. I \subseteq J /\ \A n \in J \ I : n.parent # r.id
    BY <1>1 DEF Grows1
  <2> QED
    BY <2>1, KidsSame
<1>3. ASSUME NEW t \in Tpl, NEW b \in Nat, NEW bind \in SUBSET Binding,
             LeftAs(r, t, b, bind, s, I, T, C, d),
             NEW k \in 1..Len(d.body[t].children)
      PROVE  Tied(D, U, d, b, bind, d.body[t].children[k], b + k)
  <2>1. Tied(C, T, d, b, bind, d.body[t].children[k], b + k)
    BY <1>3 DEF LeftAs
  <2>2. b + k # x
    <3>1. x \notin KidIds(I, r.id)
      BY BusyApart DEF BoundAs, Grows1
    <3>2. PICK m : m = Len(d.body[t].children)
      OBVIOUS
    <3>3. k \in 1..m /\ KidIds(I, r.id) = (b + 1)..(b + m)
      BY <1>3, <3>2 DEF LeftAs
    <3>4. m \in Nat
      BY <1>3, <3>2 DEF LeftAs
    <3>5. b + k \in (b + 1)..(b + m)
      BY <3>3, <3>4
    <3> QED
      BY <3>1, <3>3, <3>5
  <2>3. Adds1(T, U, C, D, x)
    BY DEF Grows1
  <2> QED
    BY <2>1, <2>2, <2>3, TiedStays
<1> QED
  BY <1>2, <1>3

\* An occurrence that was left, and gets no rows.
LEMMA LeftKept ==
    ASSUME NEW s, NEW I, NEW J, NEW T, NEW U, NEW C, NEW D, NEW d, NEW x, NEW p,
           Stacked(s), BoundAs(s, I, T, C, d), Grows1(s, I, J, T, U, C, D, x, p),
           NEW r \in I, ~On(s, r.id), r.id # x, ~Awaited(s, r.id),
           NEW z, ~Awaited(z, r.id)
    PROVE  LeftTied(r, z, J, U, D, d)
<1>1. KidIds(J, r.id) = KidIds(I, r.id)
  BY ChildrenKept
<1>2. CASE KidIds(I, r.id) = {}
  BY <1>1, <1>2 DEF LeftTied
<1>3. CASE KidIds(I, r.id) # {}
  <2>1. PICK t \in Tpl, b \in Nat, bind \in SUBSET Binding :
          LeftAs(r, t, b, bind, s, I, T, C, d)
    BY <1>3 DEF BoundAs, LeftTied
  <2>2. /\ r.tpl = {t} /\ KidIds(J, r.id) = (b + 1)..(b + Len(d.body[t].children))
        /\ Carries(C, T, bind, d.body[t].terms, r.id)
    BY <1>1, <2>1 DEF LeftAs
  <2>3. Adds1(T, U, C, D, x)
    BY DEF Grows1
  <2>4. Carries(D, U, bind, d.body[t].terms, r.id)
    BY <2>2, <2>3, CarriesStays
  <2>5. \A k \in 1..Len(d.body[t].children) :
          Tied(D, U, d, b, bind, d.body[t].children[k], b + k)
    BY <2>1, ChildrenKept
  <2>6. LeftAs(r, t, b, bind, z, J, U, D, d)
    BY <2>2, <2>4, <2>5 DEF LeftAs
  <2> QED
    BY <2>6 DEF LeftTied
<1> QED
  BY <1>2, <1>3

\* An instance that has just come has no children.
LEMMA NewLeft ==
    ASSUME NEW s, NEW I, NEW J, NEW T, NEW U, NEW C, NEW D, NEW d, NEW x, NEW p,
           Stacked(s), BoundAs(s, I, T, C, d), Grows1(s, I, J, T, U, C, D, x, p),
           NEW r \in J \ I
    PROVE  KidIds(J, r.id) = {}
<1>1. r.id \notin Ids(I) /\ r.id # 0
  BY DEF Grows1, RowsThere
<1>2. r.id # p
  <2>1. Len(s) # 0 => Innermost(s).inst \in Ids(I)
    <3>1. Len(s) # 0 => Len(s) \in 1..Len(s)
      BY DEF Stacked
    <3> QED
      BY <3>1 DEF BoundAs, FrameTied, Innermost, Ids
  <2> QED
    BY <1>1, <2>1 DEF Grows1
<1>3. \A c \in J : c.parent # r.id
  <2>1. \A c \in J \ I : c.parent = p
    BY DEF Grows1
  <2>2. \A c \in I : c.parent \in Ids(I) \cup {0}
    BY DEF BoundAs, RowsThere
  <2> QED
    BY <1>1, <1>2, <2>1, <2>2
<1>4. KidsOf(J, r.id) = {}
  BY <1>3 DEF KidsOf
<1> QED
  BY <1>4 DEF KidIds, Ids

\* The terminals of the instances that get none.
LEMMA TermsKept ==
    ASSUME NEW s, NEW I, NEW J, NEW T, NEW U, NEW C, NEW D, NEW d, NEW x, NEW p,
           Stacked(s), BoundAs(s, I, T, C, d), Grows1(s, I, J, T, U, C, D, x, p),
           NEW r \in I, NEW t \in Tpl, r.tpl = {t}, r.id # x,
           ~(Len(s) # 0 /\ Innermost(s).stage = "rows" /\ Innermost(s).inst = r.id)
    PROVE  Blocked(U, r.id, d.body[t].terms)
<1>1. \A j \in 1..Len(s) : s[j].stage = "rows" => j = Len(s)
  BY DEF Stacked
<1>2. \A j \in 1..Len(s) : ~(s[j].inst = r.id /\ s[j].stage = "rows")
  BY <1>1 DEF Innermost
<1>3. Blocked(T, r.id, d.body[t].terms)
  BY <1>2 DEF BoundAs, HaveTerms
<1>4. TermsOf(U, r.id) = TermsOf(T, r.id)
  BY TermsStay DEF Grows1
<1> QED
  BY <1>3, <1>4 DEF Blocked

\* Connections stay connections of instances that are done with.
LEMMA UntiedKept ==
    ASSUME NEW s, NEW I, NEW J, NEW T, NEW U, NEW C, NEW D, NEW d, NEW x, NEW p,
           BoundAs(s, I, T, C, d), Grows1(s, I, J, T, U, C, D, x, p), NEW z,
           \A i \in Ids(I) : ~On(s, i) /\ ~Awaited(s, i) => ~On(z, i) /\ ~Awaited(z, i),
           \A c \in D \ C : \E t \in U, r \in J :
              /\ t.id = c.term /\ r.id = t.inst /\ r.parent # 0
              /\ ~On(z, r.id) /\ ~Awaited(z, r.id)
    PROVE  Untied(z, J, U, D)
<1>1. ASSUME NEW c \in C
      PROVE  \E t \in U, r \in J : /\ t.id = c.term /\ r.id = t.inst /\ r.parent # 0
                                   /\ ~On(z, r.id) /\ ~Awaited(z, r.id)
  <2>1. PICK t \in T, r \in I : /\ t.id = c.term /\ r.id = t.inst /\ r.parent # 0
                                /\ ~On(s, r.id) /\ ~Awaited(s, r.id)
    BY DEF BoundAs, Untied
  <2>2. t \in U /\ r \in J /\ r.id \in Ids(I)
    BY DEF Grows1, Adds1, Ids
  <2> QED
    BY <2>1, <2>2
<1> QED
  BY <1>1 DEF Untied

-----------------------------------------------------------------------------
(* The ways a step goes.                                                   *)

\* Instance x has all its terminals.
Filled(J, U, d, x) ==
    \A r \in J, t \in Tpl : r.id = x /\ r.tpl = {t} => Blocked(U, x, d.body[t].terms)

\* The connections that come are of instances that have been left.
Settled(s, J, U, C, D) ==
    \A c \in D \ C : \E t \in U, r \in J :
      t.id = c.term /\ r.id = t.inst /\ r.parent # 0 /\ ~On(s, r.id)

\* The child the innermost occurrence f waits for is x, and has its rows.
Served(s, f, D, U, d, x) ==
    \A i : Awaited(s, i) =>
      /\ i = x
      /\ \A bind : Hands(d, f, DueOf(d, f), bind) =>
           Carries(D, U, bind, d.body[DueOf(d, f).tpl].terms, i)

\* The innermost occurrence goes on: what it waited for has its connections.
LEMMA BoundGoesOn ==
    ASSUME NEW s, NEW I, NEW J, NEW T, NEW U, NEW C, NEW D, NEW d, NEW x, NEW p,
           Stacked(s), BoundAs(s, I, T, C, d), Grows1(s, I, J, T, U, C, D, x, p),
           Len(s) # 0, NEW z, Len(z) = Len(s), \A i \in 1..(Len(s) - 1) : z[i] = s[i],
           NEW f, f = s[Len(s)], NEW g, g = z[Len(s)],
           g.inst = f.inst, g.bind = f.bind, g.stage # "conns",
           FrameTied(g, J, U, D, d), f.stage = "rows" => x = f.inst,
           Filled(J, U, d, x), \A r \in J \ I : r.tpl = {},
           Settled(s, J, U, C, D), Served(s, f, D, U, d, x),
           On(s, x) \/ Awaited(s, x) \/ x \notin Ids(I)
    PROVE  BoundAs(z, J, U, D, d)
<1>1. Len(s) \in 1..Len(s) /\ Innermost(s) = f /\ Innermost(z) = g
  BY DEF Stacked, Innermost
<1>2. (\A i : On(z, i) <=> On(s, i)) /\ (\A i : ~Awaited(z, i))
  <2>1. \A j \in 1..Len(s) : z[j].inst = s[j].inst
    <3>1. \A j \in 1..Len(s) : j \in 1..(Len(s) - 1) \/ j = Len(s)
      BY <1>1
    <3> QED
      BY <3>1
  <2>2. \A i : On(z, i) <=> On(s, i)
    BY <2>1 DEF On
  <2>3. \A i : ~Awaited(z, i)
    BY <1>1 DEF Awaited
  <2> QED
    BY <2>2, <2>3
<1>3. RowsThere(J, U)
  BY DEF Grows1
<1>4. ASSUME NEW j \in 1..Len(z) PROVE FrameTied(z[j], J, U, D, d)
  <2>1. CASE j = Len(s)
    BY <2>1
  <2>2. CASE j # Len(s)
    <3>1. j \in 1..(Len(s) - 1)
      BY <1>1, <2>2
    <3> QED
      BY <3>1, BelowTied
  <2> QED
    BY <2>1, <2>2
<1>5. Handed(z, J, d)
  <2>1. Handed(s, I, d) /\ I \subseteq J
    BY DEF BoundAs, Grows1
  <2>2. ASSUME NEW j \in 1..(Len(z) - 1)
        PROVE  z[j] = s[j] /\ z[j + 1].inst = s[j + 1].inst /\ z[j + 1].bind = s[j + 1].bind
    <3>1. j \in 1..(Len(s) - 1) /\ (j + 1 = Len(s) \/ j + 1 \in 1..(Len(s) - 1))
      BY <1>1
    <3> QED
      BY <3>1
  <2>3. z[1].inst = s[1].inst /\ z[1].bind = s[1].bind
    <3>1. 1 = Len(s) \/ 1 \in 1..(Len(s) - 1)
      BY <1>1
    <3> QED
      BY <3>1
  <2> QED
    BY <2>1, <2>2, <2>3 DEF Handed
<1>6. HaveTerms(z, J, U, d)
  <2> SUFFICES ASSUME NEW r \in J, NEW t \in Tpl, r.tpl = {t}
               PROVE  Blocked(U, r.id, d.body[t].terms)
    BY DEF HaveTerms
  <2>1. r \in I
    OBVIOUS
  <2>2. CASE r.id = x
    BY <2>2 DEF Filled
  <2>3. CASE r.id # x
    <3>1. ~(Len(s) # 0 /\ Innermost(s).stage = "rows" /\ Innermost(s).inst = r.id)
      BY <1>1, <2>3
    <3> QED
      BY <2>1, <2>3, <3>1, TermsKept
  <2> QED
    BY <2>2, <2>3
<1>7. Untied(z, J, U, D)
  <2>1. \A i \in Ids(I) : ~On(s, i) /\ ~Awaited(s, i) => ~On(z, i) /\ ~Awaited(z, i)
    BY <1>2
  <2>2. \A c \in D \ C : \E t \in U, r \in J :
          t.id = c.term /\ r.id = t.inst /\ r.parent # 0
            /\ ~On(z, r.id) /\ ~Awaited(z, r.id)
    BY <1>2 DEF Settled
  <2> QED
    BY <2>1, <2>2, UntiedKept
<1>8. ASSUME NEW r \in J PROVE LeftTied(r, z, J, U, D, d)
  <2>1. CASE r \notin I
    BY <2>1, NewLeft DEF LeftTied
  <2>2. CASE On(s, r.id)
    BY <1>2, <2>2 DEF LeftTied
  <2>3. CASE r \in I /\ ~On(s, r.id) /\ r.id # x
    BY <1>2, <2>3, LeftKept DEF Served
  <2>4. CASE r \in I /\ ~On(s, r.id) /\ r.id = x
    <3>1. Awaited(s, r.id)
      BY <2>4 DEF Ids
    <3>2. KidIds(J, r.id) = KidIds(I, r.id)
      BY <2>4, ChildrenKept
    <3>3. CASE KidIds(I, r.id) = {}
      BY <3>2, <3>3 DEF LeftTied
    <3>4. CASE KidIds(I, r.id) # {}
      <4>1. PICK t \in Tpl, b \in Nat, bind \in SUBSET Binding :
              LeftAs(r, t, b, bind, s, I, T, C, d)
        BY <2>4, <3>4 DEF BoundAs, LeftTied
      <4>2. Carries(D, U, bind, d.body[t].terms, r.id)
        BY <1>1, <3>1, <4>1 DEF LeftAs, Served
      <4>3. \A k \in 1..Len(d.body[t].children) :
              Tied(D, U, d, b, bind, d.body[t].children[k], b + k)
        BY <2>4, <4>1, ChildrenKept
      <4>4. r.tpl = {t} /\ KidIds(J, r.id) = (b + 1)..(b + Len(d.body[t].children))
        BY <3>2, <4>1 DEF LeftAs
      <4>5. LeftAs(r, t, b, bind, z, J, U, D, d)
        BY <1>2, <4>2, <4>3, <4>4 DEF LeftAs
      <4> QED
        BY <4>5 DEF LeftTied
    <3> QED
      BY <3>3, <3>4
  <2> QED
    BY <2>1, <2>2, <2>3, <2>4
<1> QED
  BY <1>3, <1>4, <1>5, <1>6, <1>7, <1>8 DEF BoundAs

LEMMA HandsSame ==
    ASSUME NEW d, NEW f, NEW g, g.childBase = f.childBase, g.bind = f.bind,
           NEW c, NEW bind, Hands(d, f, c, bind)
    PROVE  Hands(d, g, c, bind)
<1>1. \A k : Bound(g, k) = Bound(f, k)
  BY DEF Bound
<1> QED
  BY <1>1 DEF Hands

\* Nothing is written but instances.
LEMMA OnlyInsts ==
    ASSUME NEW s, NEW I, NEW J, NEW T, NEW C, NEW d, NEW p, BoundAs(s, I, T, C, d),
           I \subseteq J, \A r \in J \ I : r.parent = p /\ r.id \notin Ids(I),
           RowsThere(J, T), p = 0 \/ (Len(s) # 0 /\ p = Innermost(s).inst)
    PROVE  Grows1(s, I, J, T, T, C, C, 0, p)
<1>1. 0 \notin Ids(I)
  BY DEF BoundAs, RowsThere, Ids
<1>2. Adds1(T, T, C, C, 0)
  BY DEF RowsThere, Adds1
<1> QED
  BY <1>1, <1>2 DEF Grows1, Busy

\* The innermost occurrence hands over to a child.
LEMMA BoundPush ==
    ASSUME NEW s, NEW I, NEW J, NEW T, NEW C, NEW d, Stacked(s), BoundAs(s, I, T, C, d),
           Len(s) # 0, NEW f, f = s[Len(s)], f.stage = "kids",
           NEW n, J = I \cup {n}, n.id = f.childBase + f.next, n.id \notin Ids(I),
           n.parent = f.inst, n.tpl = {DueOf(d, f).tpl}, RowsThere(J, T),
           NEW z, Len(z) = Len(s) + 1, \A i \in 1..(Len(s) - 1) : z[i] = s[i],
           NEW g, g = z[Len(s)], g.inst = f.inst, g.tpl = f.tpl, g.bind = f.bind,
           g.childBase = f.childBase, g.next = f.next, g.stage = "conns",
           NEW h, h = z[Len(s) + 1], h.inst = n.id, h.tpl = DueOf(d, f).tpl,
           h.stage = "rows", Hands(d, f, DueOf(d, f), h.bind)
    PROVE  BoundAs(z, J, T, C, d)
<1>1. /\ Len(s) \in 1..Len(s) /\ Len(s) \in Nat /\ Innermost(s) = f /\ Innermost(z) = h
      /\ \A j \in 1..Len(s) : j \in 1..(Len(s) - 1) \/ j = Len(s)
      /\ \A j \in 1..Len(z) : j \in 1..(Len(s) - 1) \/ j = Len(s) \/ j = Len(s) + 1
      /\ \A j \in 1..Len(s) : j \in 1..Len(z)
      /\ Len(s) + 1 \in 1..Len(z)
  BY DEF Stacked, Innermost
<1>2. Grows1(s, I, J, T, T, C, C, 0, f.inst)
  <2>1. I \subseteq J /\ \A r \in J \ I : r.parent = f.inst /\ r.id \notin Ids(I)
    OBVIOUS
  <2> QED
    BY <1>1, <2>1, OnlyInsts
<1>3. \A i : ~Awaited(z, i) /\ ~Awaited(s, i)
  BY <1>1 DEF Awaited
<1>4. \A i : On(z, i) <=> On(s, i) \/ i = n.id
  <2>1. \A j \in 1..Len(s) : j \in 1..Len(z) /\ z[j].inst = s[j].inst
    BY <1>1
  <2>2. \A j \in 1..Len(z) : j \in 1..Len(s) \/ z[j].inst = n.id
    BY <1>1
  <2>3. On(z, n.id)
    BY <1>1 DEF On
  <2> QED
    BY <2>1, <2>2, <2>3 DEF On
<1>5. n \in J /\ n \notin I /\ KidIds(J, n.id) = {}
  <2>1. n \in J /\ n \notin I
    BY DEF Ids
  <2> QED
    BY <1>2, <2>1, NewLeft
<1>6. FrameTied(g, J, T, C, d)
  <2>1. \E r \in J : r.id = f.inst /\ r.tpl = {f.tpl}
    BY <1>1 DEF BoundAs, FrameTied
  <2>2. KidIds(J, f.inst) = KidIds(I, f.inst) \cup {n.id}
    BY DEF KidIds, KidsOf, Ids
  <2>3. KidIds(I, f.inst) = (f.childBase + 1)..(f.childBase + f.next - 1)
    BY <1>1 DEF BoundAs, FrameTied
  <2>4. KidIds(J, f.inst) = (f.childBase + 1)..(f.childBase + f.next)
    <3>1. PICK a, m : a = f.childBase /\ m = f.next
      OBVIOUS
    <3>2. a \in Nat /\ m \in Nat \ {0}
      BY <1>1, <3>1 DEF Stacked
    <3>3. ((a + 1)..(a + m - 1)) \cup {a + m} = (a + 1)..(a + m)
      BY <3>2
    <3> QED
      BY <2>2, <2>3, <3>1, <3>3
  <2>5. KidsTied(f, C, T, d)
    BY <1>1 DEF BoundAs, FrameTied
  <2>6. KidsTied(g, C, T, d)
    BY <2>5 DEF KidsTied
  <2>7. \E r \in J : r.id = g.childBase + g.next /\ r.tpl = {DueOf(d, g).tpl}
    BY <1>5 DEF DueOf
  <2> QED
    BY <2>1, <2>4, <2>6, <2>7 DEF FrameTied
<1>7. FrameTied(h, J, T, C, d)
  <2>1. TermsOf(T, n.id) = {}
    BY DEF BoundAs, RowsThere, TermsOf
  <2>2. \E r \in J : r.id = h.inst /\ r.tpl = {h.tpl}
    BY <1>5
  <2>3. KidIds(J, h.inst) = {} /\ TermsOf(T, h.inst) = {}
    BY <1>5, <2>1
  <2> QED
    BY <2>2, <2>3 DEF FrameTied, KidsTied
<1>8. ASSUME NEW j \in 1..Len(z) PROVE FrameTied(z[j], J, T, C, d)
  <2>1. CASE j \in 1..(Len(s) - 1)
    BY <1>2, <2>1, BelowTied
  <2>2. CASE j = Len(s)
    BY <1>6, <2>2
  <2>3. CASE j = Len(s) + 1
    BY <1>7, <2>3
  <2> QED
    BY <1>1, <2>1, <2>2, <2>3
<1>9. Handed(z, J, d)
  <2>1. Handed(s, I, d) /\ I \subseteq J
    BY DEF BoundAs
  <2>2. ASSUME NEW j \in 1..(Len(z) - 1)
        PROVE  /\ z[j + 1].inst = z[j].childBase + z[j].next
               /\ Hands(d, z[j], DueOf(d, z[j]), z[j + 1].bind)
    <3>1. CASE j = Len(s)
      <4>1. DueOf(d, g) = DueOf(d, f)
        BY DEF DueOf
      <4>2. Hands(d, g, DueOf(d, f), h.bind)
        BY HandsSame
      <4> QED
        BY <3>1, <4>1, <4>2
    <3>2. CASE j # Len(s)
      <4>1. j \in 1..(Len(s) - 1) /\ (j + 1 = Len(s) \/ j + 1 \in 1..(Len(s) - 1))
        BY <1>1, <3>2
      <4>2. z[j] = s[j] /\ z[j + 1].inst = s[j + 1].inst /\ z[j + 1].bind = s[j + 1].bind
        BY <4>1
      <4> QED
        BY <2>1, <4>1, <4>2 DEF Handed
    <3> QED
      BY <3>1, <3>2
  <2>3. z[1].inst = s[1].inst /\ z[1].bind = s[1].bind
    <3>1. 1 = Len(s) \/ 1 \in 1..(Len(s) - 1)
      <4>1. Len(s) \in Nat /\ Len(s) # 0
        BY <1>1
      <4>2. \A m \in Nat : m # 0 => 1 = m \/ 1 \in 1..(m - 1)
        OBVIOUS
      <4> QED
        BY <4>1, <4>2, Zenon
    <3> QED
      BY <3>1
  <2>4. z[1].bind = {} /\ \E r \in J : r.id = z[1].inst /\ r.parent = 0
    BY <2>1, <2>3 DEF Handed
  <2> QED
    BY <2>2, <2>4 DEF Handed
<1>10. HaveTerms(z, J, T, d)
  <2> SUFFICES ASSUME NEW r \in J, NEW t \in Tpl, r.tpl = {t}
               PROVE  \/ \E j \in 1..Len(z) : z[j].inst = r.id /\ z[j].stage = "rows"
                      \/ Blocked(T, r.id, d.body[t].terms)
    BY DEF HaveTerms
  <2>1. CASE r = n
    BY <1>1, <2>1
  <2>2. CASE r # n
    <3>1. r \in I /\ r.id # 0
      BY <2>2 DEF BoundAs, RowsThere
    <3>2. ~(Len(s) # 0 /\ Innermost(s).stage = "rows" /\ Innermost(s).inst = r.id)
      BY <1>1
    <3> QED
      BY <1>2, <3>1, <3>2, TermsKept
  <2> QED
    BY <2>1, <2>2
<1>11. Untied(z, J, T, C)
  <2>1. \A i \in Ids(I) : ~On(s, i) /\ ~Awaited(s, i) => ~On(z, i) /\ ~Awaited(z, i)
    BY <1>3, <1>4
  <2>2. C \ C = {}
    OBVIOUS
  <2> QED
    BY <1>2, <2>1, <2>2, UntiedKept
<1>12. ASSUME NEW r \in J PROVE LeftTied(r, z, J, T, C, d)
  <2>1. CASE r = n
    BY <1>5, <2>1 DEF LeftTied
  <2>2. CASE On(s, r.id)
    BY <1>4, <2>2 DEF LeftTied
  <2>3. CASE r # n /\ ~On(s, r.id)
    <3>1. r \in I /\ r.id # 0
      BY <2>3 DEF BoundAs, RowsThere
    <3> QED
      BY <1>2, <1>3, <2>3, <3>1, LeftKept
  <2> QED
    BY <2>1, <2>2, <2>3
<1> QED
  BY <1>8, <1>9, <1>10, <1>11, <1>12 DEF BoundAs

\* A top comes, or a package when the tree is done.
LEMMA BoundTop ==
    ASSUME NEW s, NEW I, NEW J, NEW T, NEW C, NEW d, Stacked(s), BoundAs(s, I, T, C, d),
           Len(s) = 0, NEW n, J \subseteq I \cup {n}, I \subseteq J, n.id \notin Ids(I),
           n.parent = 0, RowsThere(J, T),
           NEW z, \/ Len(z) = 0 /\ n.tpl = {}
                  \/ /\ Len(z) = 1 /\ n \in J /\ z[1].inst = n.id /\ n.tpl = {z[1].tpl}
                     /\ z[1].stage = "rows" /\ z[1].bind = {}
    PROVE  BoundAs(z, J, T, C, d)
<1>1. Grows1(s, I, J, T, T, C, C, 0, 0)
  <2>1. \A r \in J \ I : r.parent = 0 /\ r.id \notin Ids(I)
    OBVIOUS
  <2> QED
    BY <2>1, OnlyInsts
<1>2. (\A i : ~Awaited(z, i) /\ ~Awaited(s, i)) /\ (\A i : ~On(s, i))
      /\ (\A i : On(z, i) => i = n.id)
  <2>1. Len(z) = 1 => Innermost(z) = z[1]
    BY DEF Innermost
  <2>2. \A j \in 1..Len(z) : Len(z) = 1 /\ j = 1
    <3>1. Len(z) = 0 \/ Len(z) = 1
      OBVIOUS
    <3>2. \A m : m = 0 \/ m = 1 => \A j \in 1..m : m = 1 /\ j = 1
      OBVIOUS
    <3> QED
      BY <3>1, <3>2, Zenon
  <2> QED
    BY <2>1, <2>2 DEF Awaited, On
<1>3. n \in J => n \notin I /\ KidIds(J, n.id) = {}
  <2>1. n \notin I
    BY DEF Ids
  <2> QED
    BY <1>1, <2>1, NewLeft
<1>4. ASSUME NEW j \in 1..Len(z) PROVE FrameTied(z[j], J, T, C, d)
  <2>1. Len(z) = 1 /\ j = 1
    <3>1. Len(z) = 0 \/ Len(z) = 1
      OBVIOUS
    <3>2. \A m : m = 0 \/ m = 1 => \A k \in 1..m : m = 1 /\ k = 1
      OBVIOUS
    <3> QED
      BY <3>1, <3>2, Zenon
  <2>2. TermsOf(T, n.id) = {}
    BY DEF BoundAs, RowsThere, TermsOf
  <2>3. \E r \in J : r.id = z[1].inst /\ r.tpl = {z[1].tpl}
    BY <2>1
  <2>4. KidIds(J, z[1].inst) = {} /\ TermsOf(T, z[1].inst) = {}
    BY <1>3, <2>1, <2>2
  <2> QED
    BY <2>1, <2>3, <2>4 DEF FrameTied, KidsTied
<1>5. Handed(z, J, d)
  BY DEF Handed
<1>6. HaveTerms(z, J, T, d)
  <2> SUFFICES ASSUME NEW r \in J, NEW t \in Tpl, r.tpl = {t}
               PROVE  \/ \E j \in 1..Len(z) : z[j].inst = r.id /\ z[j].stage = "rows"
                      \/ Blocked(T, r.id, d.body[t].terms)
    BY DEF HaveTerms
  <2>1. CASE r = n
    <3>1. Len(z) = 1 /\ 1 \in 1..Len(z)
      BY <2>1
    <3> QED
      BY <2>1, <3>1
  <2>2. CASE r # n
    <3>1. r \in I /\ r.id # 0
      BY <2>2 DEF BoundAs, RowsThere
    <3> QED
      BY <1>1, <3>1, TermsKept
  <2> QED
    BY <2>1, <2>2
<1>7. Untied(z, J, T, C)
  <2>1. \A i \in Ids(I) : ~On(s, i) /\ ~Awaited(s, i) => ~On(z, i) /\ ~Awaited(z, i)
    BY <1>2
  <2>2. C \ C = {}
    OBVIOUS
  <2> QED
    BY <1>1, <2>1, <2>2, UntiedKept
<1>8. ASSUME NEW r \in J PROVE LeftTied(r, z, J, T, C, d)
  <2>1. CASE r = n
    BY <1>3, <2>1 DEF LeftTied
  <2>2. CASE r # n
    <3>1. r \in I /\ r.id # 0
      BY <2>2 DEF BoundAs, RowsThere
    <3> QED
      BY <1>1, <1>2, <3>1, LeftKept
  <2> QED
    BY <2>1, <2>2
<1> QED
  BY <1>4, <1>5, <1>6, <1>7, <1>8 DEF BoundAs

\* An occurrence whose children have all returned, or which has none, is left.
LEMMA BoundPop ==
    ASSUME NEW s, NEW I, NEW T, NEW C, NEW d, Stacked(s), BoundAs(s, I, T, C, d),
           Len(s) # 0, NEW f, f = s[Len(s)], f.tpl \in Tpl, f.bind \in SUBSET Binding,
           d.body[f.tpl].terms \in Nat, Len(d.body[f.tpl].children) \in Nat,
           \/ f.stage = "guard"
           \/ f.stage = "kids" /\ f.next > Len(d.body[f.tpl].children),
           NEW z, Len(z) = Len(s) - 1, \A i \in 1..(Len(s) - 1) : z[i] = s[i]
    PROVE  BoundAs(z, I, T, C, d)
<1>1. /\ Len(s) \in 1..Len(s) /\ Len(s) \in Nat /\ Innermost(s) = f
      /\ \A j \in 1..Len(s) : j \in 1..(Len(s) - 1) \/ j = Len(s)
      /\ \A j \in 1..Len(z) : j \in 1..Len(s) /\ z[j] = s[j] /\ j # Len(s)
      /\ \A j \in 1..(Len(s) - 1) : j \in 1..Len(z)
  BY DEF Stacked, Innermost
<1>2. Grows1(s, I, I, T, T, C, C, 0, 0)
  <2>1. I \subseteq I /\ \A r \in I \ I : r.parent = 0 /\ r.id \notin Ids(I)
    OBVIOUS
  <2>2. RowsThere(I, T)
    BY DEF BoundAs
  <2> QED
    BY <2>1, <2>2, OnlyInsts
<1>3. \A i : ~Awaited(s, i)
  BY <1>1 DEF Awaited
<1>4. \A i : On(s, i) <=> On(z, i) \/ i = f.inst
  <2>1. \A i : On(z, i) => On(s, i)
    BY <1>1 DEF On
  <2>2. On(s, f.inst)
    BY <1>1 DEF On
  <2>3. \A i : On(s, i) => On(z, i) \/ i = f.inst
    BY <1>1 DEF On
  <2> QED
    BY <2>1, <2>2, <2>3
\* What the next occurrence waits for is the one that is left.
<1>5. ASSUME Len(z) # 0
      PROVE  /\ Len(s) - 1 \in 1..(Len(s) - 1) /\ Innermost(z) = s[Len(s) - 1]
             /\ s[Len(s) - 1].stage = "conns"
             /\ f.inst = Innermost(z).childBase + Innermost(z).next
             /\ Hands(d, Innermost(z), DueOf(d, Innermost(z)), f.bind)
             /\ \E r \in I : r.id = f.inst /\ r.tpl = {DueOf(d, Innermost(z)).tpl}
  <2>1. PICK m : m = Len(s) - 1
    OBVIOUS
  <2>2. m \in 1..(Len(s) - 1) /\ m \in 1..Len(s) /\ m < Len(s) /\ m + 1 = Len(s) /\ m = Len(z)
    BY <1>1, <1>5, <2>1
  <2>3. Innermost(z) = s[m] /\ s[m].stage = "conns"
    BY <2>2 DEF Innermost, Stacked
  <2>4. /\ s[m + 1].inst = s[m].childBase + s[m].next
        /\ Hands(d, s[m], DueOf(d, s[m]), s[m + 1].bind)
    BY <2>2 DEF BoundAs, Handed
  <2>5. \E r \in I : r.id = s[m].childBase + s[m].next /\ r.tpl = {DueOf(d, s[m]).tpl}
    BY <2>2, <2>3 DEF BoundAs, FrameTied
  <2> QED
    BY <2>1, <2>2, <2>3, <2>4, <2>5
<1>6. \A i : Awaited(z, i) => i = f.inst
  BY <1>5 DEF Awaited
<1>7. ASSUME NEW j \in 1..Len(z) PROVE FrameTied(z[j], I, T, C, d)
  BY <1>1 DEF BoundAs
<1>8. Handed(z, I, d)
  <2>1. Handed(s, I, d)
    BY DEF BoundAs
  <2>2. \A j \in 1..(Len(z) - 1) :
          j \in 1..(Len(s) - 1) /\ z[j] = s[j] /\ z[j + 1] = s[j + 1]
    <3>1. \A m \in Nat : \A j \in 1..(m - 1) : j \in 1..m /\ j + 1 \in 1..m
      OBVIOUS
    <3>2. Len(z) \in Nat
      BY <1>1
    <3> QED
      BY <1>1, <3>1, <3>2
  <2>3. Len(z) # 0 => z[1] = s[1]
    <3>1. \A m \in Nat : m # 0 => 1 \in 1..m
      OBVIOUS
    <3>2. Len(z) \in Nat
      BY <1>1
    <3> QED
      BY <1>1, <3>1, <3>2
  <2> QED
    BY <2>1, <2>2, <2>3 DEF Handed
<1>9. HaveTerms(z, I, T, d)
  <2> SUFFICES ASSUME NEW r \in I, NEW t \in Tpl, r.tpl = {t}
               PROVE  Blocked(T, r.id, d.body[t].terms)
    BY DEF HaveTerms
  <2>1. r.id # 0
    BY DEF BoundAs, RowsThere
  <2>2. ~(Len(s) # 0 /\ Innermost(s).stage = "rows" /\ Innermost(s).inst = r.id)
    BY <1>1
  <2> QED
    BY <1>2, <2>1, <2>2, TermsKept
<1>10. Untied(z, I, T, C)
  <2>1. \A i \in Ids(I) : ~On(s, i) /\ ~Awaited(s, i) => ~On(z, i) /\ ~Awaited(z, i)
    BY <1>4, <1>6
  <2>2. C \ C = {}
    OBVIOUS
  <2> QED
    BY <1>2, <2>1, <2>2, UntiedKept
\* A top has no connections and was bound to nothing.
<1>11. ASSUME Len(z) = 0
       PROVE  Carries(C, T, f.bind, d.body[f.tpl].terms, f.inst)
  <2>1. f.bind = {} /\ \E r \in I : r.id = f.inst /\ r.parent = 0
    <3>1. Len(s) = 1
      BY <1>1, <1>11
    <3> QED
      BY <3>1 DEF BoundAs, Handed
  <2>2. PICK q \in Nat : TermsOf(T, f.inst) = (q + 1)..(q + d.body[f.tpl].terms)
    <3>1. PICK r \in I : r.id = f.inst /\ r.tpl = {f.tpl}
      <4>1. FrameTied(f, I, T, C, d)
        BY <1>1 DEF BoundAs
      <4> QED
        BY <4>1 DEF FrameTied
    <3>2. r.id # 0 /\ ~(Len(s) # 0 /\ Innermost(s).stage = "rows" /\ Innermost(s).inst = r.id)
      BY <1>1 DEF BoundAs, RowsThere
    <3>3. Blocked(T, r.id, d.body[f.tpl].terms)
      BY <1>2, <3>1, <3>2, TermsKept
    <3> QED
      BY <3>1, <3>3 DEF Blocked
  <2>3. ASSUME NEW i \in TermsOf(T, f.inst), NEW v PROVE RowAt(C, i, v) = 0
    <3>1. \A c \in C : c.term # i
      <4>1. ASSUME NEW c \in C, c.term = i PROVE FALSE
        <5>1. PICK x \in T, r \in I : x.id = i /\ r.id = x.inst /\ r.parent # 0
          BY <4>1 DEF BoundAs, Untied
        <5>2. PICK y \in T : y.id = i /\ y.inst = f.inst
          BY DEF TermsOf
        <5>3. x = y
          BY <5>1, <5>2 DEF BoundAs, RowsThere, Distinct
        <5> QED
          BY <2>1, <5>1, <5>2, <5>3 DEF BoundAs, RowsThere, Distinct
      <4> QED
        BY <4>1
    <3> QED
      BY <3>1, RowIs, SMT
  <2>4. \A p, v : BoundTo({}, p, v) = 0
    BY BoundIs, SMT
  <2>5. ASSUME NEW p \in 1..d.body[f.tpl].terms, NEW v \in Nat
        PROVE  BoundTo(f.bind, p, v) = RowAt(C, q + p, v)
    <3>1. q + p \in TermsOf(T, f.inst)
      BY <2>2
    <3> QED
      BY <2>1, <2>3, <2>4, <3>1
  <2> QED
    BY <2>2, <2>5 DEF Carries
<1>12. ASSUME NEW r \in I PROVE LeftTied(r, z, I, T, C, d)
  <2>1. CASE On(z, r.id)
    BY <2>1 DEF LeftTied
  <2>2. CASE ~On(s, r.id)
    <3>1. r.id # 0 /\ ~Awaited(z, r.id)
      BY <1>4, <1>6, <2>2 DEF BoundAs, RowsThere
    <3> QED
      BY <1>2, <1>3, <2>2, <3>1, LeftKept
  <2>3. CASE r.id = f.inst
    <3>1. FrameTied(f, I, T, C, d)
      BY <1>1 DEF BoundAs
    <3>2. CASE f.stage = "guard"
      BY <2>3, <3>1, <3>2 DEF FrameTied, LeftTied
    <3>3. CASE f.stage = "kids"
      <4>1. r.tpl = {f.tpl}
        BY <2>3, <3>1 DEF FrameTied, BoundAs, RowsThere, Distinct
      <4>2. f.childBase \in Nat /\ f.next \in Nat
        BY <1>1 DEF Stacked
      <4>3. f.next = Len(d.body[f.tpl].children) + 1
        <5>1. f.next <= Len(d.body[f.tpl].children) + 1
          BY <3>1, <3>3 DEF FrameTied
        <5>2. f.next > Len(d.body[f.tpl].children) /\ Len(d.body[f.tpl].children) \in Nat
          BY <3>3
        <5>3. \A m \in Nat, n \in Nat : n <= m + 1 /\ n > m => n = m + 1
          OBVIOUS
        <5> QED
          BY <4>2, <5>1, <5>2, <5>3, Zenon
      <4>4. f.next - 1 = Len(d.body[f.tpl].children)
            /\ f.childBase + f.next - 1 = f.childBase + Len(d.body[f.tpl].children)
        BY <4>2, <4>3
      <4>5. KidIds(I, r.id) = (f.childBase + 1)..(f.childBase + Len(d.body[f.tpl].children))
        BY <2>3, <3>1, <3>3, <4>4 DEF FrameTied
      <4>6. \A k \in 1..Len(d.body[f.tpl].children) :
              Tied(C, T, d, f.childBase, f.bind, d.body[f.tpl].children[k], f.childBase + k)
        BY <3>1, <3>3, <4>4 DEF FrameTied, KidsTied
      <4>7. Awaited(z, r.id) => /\ f.tpl = DueOf(d, Innermost(z)).tpl
                                /\ Hands(d, Innermost(z), DueOf(d, Innermost(z)), f.bind)
        <5>1. ASSUME Awaited(z, r.id)
              PROVE  /\ f.tpl = DueOf(d, Innermost(z)).tpl
                     /\ Hands(d, Innermost(z), DueOf(d, Innermost(z)), f.bind)
          <6>1. Len(z) # 0
            BY <5>1 DEF Awaited
          <6>2. r.tpl = {DueOf(d, Innermost(z)).tpl}
            BY <1>5, <2>3, <6>1 DEF BoundAs, RowsThere, Distinct
          <6> QED
            BY <1>5, <4>1, <6>1, <6>2
        <5> QED
          BY <5>1
      <4>8. ~Awaited(z, r.id) => Carries(C, T, f.bind, d.body[f.tpl].terms, r.id)
        <5>1. Len(z) # 0 => Awaited(z, r.id)
          BY <1>5, <2>3 DEF Awaited
        <5> QED
          BY <1>11, <2>3, <5>1
      <4>9. LeftAs(r, f.tpl, f.childBase, f.bind, z, I, T, C, d)
        BY <4>1, <4>5, <4>6, <4>7, <4>8 DEF LeftAs
      <4> QED
        BY <4>2, <4>9 DEF LeftTied
    <3> QED
      BY <3>2, <3>3
  <2> QED
    BY <1>4, <2>1, <2>2, <2>3
<1>13. RowsThere(I, T)
  BY DEF BoundAs
<1> QED
  BY <1>7, <1>8, <1>9, <1>10, <1>12, <1>13 DEF BoundAs

-----------------------------------------------------------------------------
(* The steps.                                                              *)

BoundInv == BoundAs(stack, inst, term, conn, design)

LEMMA StackedNow ==
    ASSUME TypeOK, PathInv, NodesIssued, TreeNumbered
    PROVE  Stacked(stack)
<1>1. Len(stack) \in Nat
  BY DEF TypeOK
<1>2. ASSUME NEW j \in 1..Len(stack)
      PROVE  /\ stack[j].inst \in Nat \ {0} /\ stack[j].childBase \in Nat
             /\ stack[j].next \in Nat \ {0}
             /\ stack[j].stage \in {"rows", "guard", "kids", "conns"}
             /\ j < Len(stack) => stack[j].stage = "conns"
             /\ stack[j].stage \in {"kids", "conns"} => stack[j].inst <= stack[j].childBase
  <2>1. PICK f : f = stack[j]
    OBVIOUS
  <2>2. PICK b : b = BodyOf(f.tpl)
    OBVIOUS
  <2>3. /\ f \in Frame /\ Len(b.scopes) \in Nat
        /\ f.inst \in Nat /\ f.scopeBase \in Nat
        /\ f.childBase \in Nat /\ f.next \in Nat \ {0}
    BY <2>1, <2>2, FrameBody
  <2>4. FrameNumbered(f, b, tree, last["node"])
    BY <2>1, <2>2 DEF TreeNumbered, FramesNumbered
  <2>5. f.inst \in Ids(tree) /\ f.inst # 0
    BY <2>4 DEF FrameNumbered, NodesIssued
  <2>6. f.stage \in {"kids", "conns"} => f.inst <= f.childBase
    <3>1. ASSUME f.stage \in {"kids", "conns"} PROVE f.inst <= f.childBase
      <4>1. f.inst <= f.scopeBase /\ f.scopeBase + Len(b.scopes) <= f.childBase
        BY <2>4, <3>1 DEF FrameNumbered
      <4> QED
        BY <2>3, <4>1
    <3> QED
      BY <3>1
  <2>7. j < Len(stack) => f.stage = "conns"
    BY <1>1, <2>1 DEF PathInv, Suspended
  <2>8. f.stage \in {"rows", "guard", "kids", "conns"}
    BY <2>3 DEF Frame
  <2> QED
    BY <2>1, <2>3, <2>5, <2>6, <2>7, <2>8
<1>3. \A i, j \in 1..Len(stack) : i < j => stack[i].childBase < stack[j].inst
  BY DEF TreeNumbered, Climbing
<1> QED
  BY <1>1, <1>2, <1>3 DEF Stacked

LEMMA BindKept ==
    ASSUME TypeOK, stack # <<>>
    PROVE  /\ Waiting.bind = Top.bind /\ Entering.bind = Top.bind
           /\ Following.bind = Top.bind
<1>1. Top \in Frame
  BY TopType DEF TypeOK
<1> QED
  BY <1>1 DEF Frame, Waiting, Entering, Following

\* The innermost occurrence, the last of the stack.
LEMMA Innermost1 ==
    ASSUME TypeOK, stack # <<>>
    PROVE  /\ Len(stack) \in Nat \ {0} /\ Len(stack) \in 1..Len(stack)
           /\ Top = stack[Len(stack)] /\ Innermost(stack) = Top
           /\ Top \in Frame /\ Top.tpl \in Tpl /\ Top.bind \in SUBSET Binding
           /\ Top.inst \in Nat /\ Top.childBase \in Nat /\ Top.next \in Nat \ {0}
           /\ BodyOf(Top.tpl) \in Body /\ BodyOf(Top.tpl) = design.body[Top.tpl]
           /\ DueOf(design, Top) = NextChild
<1>1. Len(stack) \in Nat \ {0} /\ Top \in Frame /\ Top = stack[Len(stack)]
      /\ BodyOf(Top.tpl) \in Body
  BY TopBody
<1> QED
  BY <1>1 DEF Frame, Innermost, BodyOf, DueOf, NextChild

\* The rows that are there after a step.
LEMMA RowsThereMore ==
    ASSUME BoundInv, NodesIssued', InstsOnce', TablesIssued', inst \subseteq inst',
           \A r \in inst' \ inst : r.parent \in Ids(inst) \cup {0},
           \A x \in term' \ term : x.inst \in Ids(inst')
    PROVE  RowsThere(inst', term')
<1>1. PICK I, J, T, U : I = inst /\ J = inst' /\ T = term /\ U = term'
  OBVIOUS
<1>2. RowsThere(I, T)
  BY <1>1 DEF BoundInv, BoundAs
<1>3. Distinct(J) /\ Distinct(U)
  BY <1>1 DEF InstsOnce, TablesIssued, Block
<1>4. \A i \in Ids(J) : i \in Nat \ {0}
  <2>1. Ids(J) \subseteq Ids(tree')
    BY <1>1 DEF InstsOnce
  <2>2. PICK n : n = last'["node"]
    OBVIOUS
  <2>3. Ids(tree') \subseteq 1..n
    BY <2>2 DEF NodesIssued
  <2> QED
    BY <2>1, <2>3
<1>5. I \subseteq J /\ Ids(I) \subseteq Ids(J)
  BY <1>1 DEF Ids
<1>6. \A r \in J : r.id \in Ids(J) /\ r.parent \in Ids(J) \cup {0}
  BY <1>1, <1>2, <1>5 DEF RowsThere, Ids
<1>7. \A x \in U : x.inst \in Ids(J)
  BY <1>1, <1>2, <1>5 DEF RowsThere
<1> QED
  BY <1>1, <1>3, <1>4, <1>6, <1>7 DEF RowsThere

LEMMA BoundInit == Init => BoundInv
<1> SUFFICES ASSUME Init PROVE BoundInv
  OBVIOUS
<1>1. stack = <<>> /\ inst = {} /\ term = {} /\ conn = {}
  BY DEF Init
<1>2. Len(stack) = 0
  BY <1>1
<1>3. BoundAs(stack, {}, {}, {}, design)
  <2>1. RowsThere({}, {})
    BY DEF RowsThere, Distinct
  <2>2. Handed(stack, {}, design) /\ HaveTerms(stack, {}, {}, design)
        /\ Untied(stack, {}, {}, {})
    BY <1>2 DEF Handed, HaveTerms, Untied
  <2> QED
    BY <1>2, <2>1, <2>2 DEF BoundAs
<1> QED
  BY <1>1, <1>3 DEF BoundInv

LEMMA BoundStampTop ==
    ASSUME TypeOK, PathInv, NodesIssued, TreeNumbered, InstsOnce, BoundInv,
           NodesIssued', InstsOnce', TablesIssued', StampTop
    PROVE  BoundInv'
<1>1. /\ term' = term /\ conn' = conn /\ design' = design
      /\ NewInst(TopInst) /\ TopInst.parent = 0
      /\ TopInst.tpl = {design.tops[cursor + 1].tpl}
  BY InstsMove DEF StampTop, TopInst, InstRow
<1>2. PICK n : n = TopInst
  OBVIOUS
<1>3. PICK z, J : z = stack' /\ J = inst'
  OBVIOUS
<1>4. /\ J = inst \cup {n} /\ n.id \notin Ids(inst) /\ n.parent = 0
      /\ n.id = last["node"] + 1
  BY <1>1, <1>2, <1>3 DEF NewInst, TopInst, InstRow
<1>5. /\ Len(stack) = 0 /\ Len(z) = 1 /\ z[1].inst = n.id
      /\ n.tpl = {z[1].tpl} /\ z[1].stage = "rows" /\ z[1].bind = {}
  BY <1>1, <1>2, <1>3, <1>4, StackOfTop, NewFrameFields
<1>6. RowsThere(J, term)
  <2>1. inst \subseteq inst' /\ (\A r \in inst' \ inst : r.parent \in Ids(inst) \cup {0})
        /\ \A x \in term' \ term : x.inst \in Ids(inst')
    BY <1>1, <1>3, <1>4
  <2> QED
    BY <1>1, <1>3, <2>1, RowsThereMore
<1>7. PICK s, I, T, C, d : /\ s = stack /\ I = inst /\ T = term /\ C = conn /\ d = design
  OBVIOUS
<1>8. BoundAs(z, J, T, C, d)
  <2>1. Stacked(s) /\ BoundAs(s, I, T, C, d)
    BY <1>7, StackedNow DEF BoundInv
  <2>2. J \subseteq I \cup {n} /\ I \subseteq J /\ n \in J /\ n.id \notin Ids(I)
        /\ RowsThere(J, T) /\ Len(s) = 0
    BY <1>4, <1>5, <1>6, <1>7
  <2> QED
    BY <1>4, <1>5, <2>1, <2>2, BoundTop
<1> QED
  BY <1>1, <1>3, <1>7, <1>8 DEF BoundInv

LEMMA BoundStampChild ==
    ASSUME TypeOK, PathInv, NodesIssued, TreeNumbered, InstsOnce, BoundInv,
           NodesIssued', InstsOnce', TablesIssued', StampChildModule
    PROVE  BoundInv'
<1>1. /\ term' = term /\ conn' = conn /\ design' = design /\ stack # <<>>
      /\ Top.stage = "kids" /\ NextChild.kind = "module" /\ NewInst(ChildInst)
      /\ Top.next \in 1..Len(BodyOf(Top.tpl).children)
  <2>1. /\ term' = term /\ conn' = conn /\ design' = design /\ stack # <<>>
        /\ Top.stage = "kids" /\ NextChild.kind = "module"
        /\ Top.next <= Len(BodyOf(Top.tpl).children)
    BY DEF StampChildModule, ChildDue, At
  <2> QED
    BY <2>1, InstsMove, NextChildType
<1>2. PICK s, I, T, C, d : /\ s = stack /\ I = inst /\ T = term /\ C = conn /\ d = design
  OBVIOUS
<1>3. PICK z, J : z = stack' /\ J = inst'
  OBVIOUS
<1>4. PICK f, g, h, n, c : /\ f = Top /\ g = Waiting /\ h = ChildFrame /\ n = ChildInst
                           /\ c = NextChild
  OBVIOUS
<1>5. /\ Len(s) # 0 /\ Len(s) \in 1..Len(s) /\ f = s[Len(s)] /\ f.stage = "kids"
      /\ DueOf(d, f) = c /\ f \in Frame /\ f.tpl \in Tpl /\ f.inst = Top.inst
      /\ f.childBase + f.next = ChildId
  BY <1>1, <1>2, <1>4, Innermost1 DEF ChildId
<1>6. /\ J = I \cup {n} /\ n.id = f.childBase + f.next /\ n.id \notin Ids(I)
      /\ n.parent = f.inst /\ n.tpl = {c.tpl}
  BY <1>1, <1>2, <1>3, <1>4, <1>5 DEF NewInst, ChildInst, InstRow
<1>7. /\ Len(z) = Len(s) + 1 /\ (\A i \in 1..(Len(s) - 1) : z[i] = s[i])
      /\ g = z[Len(s)] /\ h = z[Len(s) + 1]
  BY <1>1, <1>2, <1>3, <1>4, StackMoves DEF BelowKept
<1>8. /\ g.inst = f.inst /\ g.tpl = f.tpl /\ g.bind = f.bind
      /\ g.childBase = f.childBase /\ g.next = f.next /\ g.stage = "conns"
  BY <1>1, <1>4, FrameFields, BindKept
<1>9. h.inst = n.id /\ h.tpl = c.tpl /\ h.stage = "rows" /\ h.bind = BindOf(f, c)
  BY <1>4, <1>5, <1>6, NewFrameFields DEF ChildFrame
<1>10. Hands(d, f, c, h.bind)
  <2>1. PICK t, i : t = Top.tpl /\ i = Top.next
    OBVIOUS
  <2>2. t \in Tpl /\ i \in 1..Len(BodyOf(t).children) /\ c = BodyOf(t).children[i]
        /\ c.kind = "module"
    BY <1>1, <1>4, <1>5, <2>1 DEF NextChild
  <2>3. design \in Designs
    BY DEF TypeOK
  <2>4. Hands(design, f, c, BindOf(f, c))
    BY <1>5, <2>2, <2>3, BindHands
  <2> QED
    BY <1>2, <1>9, <2>4
<1>11. Stacked(s) /\ BoundAs(s, I, T, C, d)
  BY <1>2, StackedNow DEF BoundInv
<1>12. RowsThere(J, T)
  <2>1. f.inst \in Ids(I)
    BY <1>5, <1>11 DEF BoundAs, FrameTied, Ids
  <2>2. inst \subseteq inst' /\ (\A r \in inst' \ inst : r.parent \in Ids(inst) \cup {0})
        /\ \A x \in term' \ term : x.inst \in Ids(inst')
    BY <1>1, <1>2, <1>3, <1>6, <2>1
  <2> QED
    BY <1>1, <1>2, <1>3, <2>2, RowsThereMore
<1>13. BoundAs(z, J, T, C, d)
  BY <1>5, <1>6, <1>7, <1>8, <1>9, <1>10, <1>11, <1>12, BoundPush
<1> QED
  BY <1>1, <1>2, <1>3, <1>13 DEF BoundInv

LEMMA BoundReturn ==
    ASSUME TypeOK, PathInv, NodesIssued, TreeNumbered, InstsOnce, BoundInv,
           CutRecursion \/ Return
    PROVE  BoundInv'
<1>1. /\ inst' = inst /\ term' = term /\ conn' = conn /\ design' = design /\ stack # <<>>
      /\ \/ Top.stage = "guard"
         \/ Top.stage = "kids" /\ Top.next > Len(BodyOf(Top.tpl).children)
  BY DEF CutRecursion, Return, At, dbVars
<1>2. PICK s, I, T, C, d, z, f :
        /\ s = stack /\ I = inst /\ T = term /\ C = conn /\ d = design /\ z = stack'
        /\ f = Top
  OBVIOUS
<1>3. /\ Len(s) # 0 /\ f = s[Len(s)] /\ f.tpl \in Tpl /\ f.bind \in SUBSET Binding
      /\ BodyOf(f.tpl) = d.body[f.tpl] /\ BodyOf(f.tpl) \in Body
  BY <1>1, <1>2, Innermost1
<1>4. d.body[f.tpl].terms \in Nat /\ Len(d.body[f.tpl].children) \in Nat
  BY <1>3, BodyParts
<1>5. \/ f.stage = "guard"
      \/ f.stage = "kids" /\ f.next > Len(d.body[f.tpl].children)
  BY <1>1, <1>2, <1>3
<1>6. Len(z) = Len(s) - 1 /\ \A i \in 1..(Len(s) - 1) : z[i] = s[i]
  BY <1>1, <1>2, StackMoves DEF BelowKept
<1>7. Stacked(s) /\ BoundAs(s, I, T, C, d)
  BY <1>2, StackedNow DEF BoundInv
<1>8. BoundAs(z, I, T, C, d)
  BY <1>3, <1>4, <1>5, <1>6, <1>7, BoundPop
<1> QED
  BY <1>1, <1>2, <1>8 DEF BoundInv

LEMMA BoundAfter ==
    ASSUME TypeOK, PathInv, NodesIssued, TreeNumbered, InstsOnce, AfterTree, BoundInv,
           NodesIssued', InstsOnce', TablesIssued',
           StampPackage \/ ResolveRef \/ CrossDep \/ Advance \/ UNCHANGED vars
    PROVE  BoundInv'
<1>1. term' = term /\ conn' = conn /\ design' = design /\ stack' = stack
  BY DEF StampPackage, ResolveRef, CrossDep, Advance, dbVars, vars
<1>2. CASE StampPackage
  <2>1. PICK s, I, T, C, d : /\ s = stack /\ I = inst /\ T = term /\ C = conn /\ d = design
    OBVIOUS
  <2>2. PICK n, J : n = PackageInst /\ J = inst'
    OBVIOUS
  <2>3. Len(s) = 0
    <3>1. phase = "packages"
      BY <1>2 DEF StampPackage
    <3> QED
      BY <2>1, <3>1 DEF AfterTree
  <2>4. J = I \cup {n} /\ n.id \notin Ids(I) /\ n.parent = 0 /\ n.tpl = {}
    BY <1>2, <2>1, <2>2, InstsMove DEF NewInst, PackageInst, BlackBoxRow
  <2>5. RowsThere(J, T)
    <3>1. inst \subseteq inst' /\ (\A r \in inst' \ inst : r.parent \in Ids(inst) \cup {0})
          /\ \A x \in term' \ term : x.inst \in Ids(inst')
      BY <1>1, <2>1, <2>2, <2>4
    <3> QED
      BY <1>1, <2>1, <2>2, <3>1, RowsThereMore
  <2>6. Stacked(s) /\ BoundAs(s, I, T, C, d)
    BY <2>1, StackedNow DEF BoundInv
  <2>7. BoundAs(s, J, T, C, d)
    <3>1. J \subseteq I \cup {n} /\ I \subseteq J
      BY <2>4
    <3> QED
      BY <2>3, <2>4, <2>5, <2>6, <3>1, BoundTop
  <2> QED
    BY <1>1, <2>1, <2>2, <2>7 DEF BoundInv
<1>3. CASE ~StampPackage
  <2>1. inst' = inst
    BY <1>3 DEF ResolveRef, CrossDep, Advance, dbVars, vars
  <2> QED
    BY <1>1, <2>1 DEF BoundInv
<1> QED
  BY <1>2, <1>3

\* The innermost occurrence has its row, and what was written is as it is
\* before a step.
LEMMA TopTied ==
    ASSUME TypeOK, PathInv, NodesIssued, TreeNumbered, BoundInv, stack # <<>>
    PROVE  /\ Stacked(stack) /\ BoundAs(stack, inst, term, conn, design)
           /\ FrameTied(Top, inst, term, conn, design)
           /\ On(stack, Top.inst) /\ Top.inst \in Ids(inst) /\ Busy(stack, inst, Top.inst)
<1>1. PICK s, I, T, C, d : /\ s = stack /\ I = inst /\ T = term /\ C = conn /\ d = design
  OBVIOUS
<1>2. PICK f : f = Top
  OBVIOUS
<1>3. Len(s) \in Nat \ {0} /\ Len(s) \in 1..Len(s) /\ f = s[Len(s)]
  BY <1>1, <1>2, Innermost1
<1>4. Stacked(s) /\ BoundAs(s, I, T, C, d)
  BY <1>1, StackedNow DEF BoundInv
<1>5. FrameTied(f, I, T, C, d)
  BY <1>3, <1>4 DEF BoundAs
<1>6. On(s, f.inst) /\ f.inst \in Ids(I)
  BY <1>3, <1>5 DEF On, FrameTied, Ids
<1>7. Busy(s, I, f.inst)
  <2>1. Handed(s, I, d)
    BY <1>4 DEF BoundAs
  <2>2. CASE Len(s) = 1
    BY <1>3, <2>1, <2>2 DEF Handed, Busy
  <2>3. CASE Len(s) # 1
    <3>1. PICK j : j = Len(s) - 1
      OBVIOUS
    <3>2. j \in 1..(Len(s) - 1) /\ j \in 1..Len(s) /\ j < Len(s) /\ j + 1 = Len(s)
      BY <1>3, <2>3, <3>1
    <3>3. s[j].stage = "conns"
      BY <1>4, <3>2 DEF Stacked
    <3>4. f.inst = s[j].childBase + s[j].next
      BY <1>3, <2>1, <3>2 DEF Handed
    <3> QED
      BY <3>2, <3>3, <3>4 DEF Busy
  <2> QED
    BY <2>2, <2>3
<1> QED
  BY <1>1, <1>2, <1>4, <1>5, <1>6, <1>7

LEMMA BoundStampRows ==
    ASSUME TypeOK, PathInv, NodesIssued, TreeNumbered, InstsOnce, BoundInv,
           NodesIssued', InstsOnce', TablesIssued', StampRows
    PROVE  BoundInv'
<1>1. PICK b : b = BodyOf(Top.tpl)
  OBVIOUS
<1>2. PICK s, I, T, C, d : /\ s = stack /\ I = inst /\ T = term /\ C = conn /\ d = design
  OBVIOUS
<1>3. PICK f, g, z, U : f = Top /\ g = Stamped /\ z = stack' /\ U = term'
  OBVIOUS
<1>4. /\ stack # <<>> /\ f.stage = "rows" /\ U = T \cup TermRows(g, b)
      /\ inst' = inst /\ conn' = conn /\ design' = design
  BY <1>1, <1>2, <1>3, RowsStamped
<1>5. /\ Len(s) \in Nat \ {0} /\ Len(s) \in 1..Len(s) /\ f = s[Len(s)] /\ Innermost(s) = f
      /\ f \in Frame /\ f.tpl \in Tpl /\ b = d.body[f.tpl] /\ b \in Body
  BY <1>1, <1>2, <1>3, <1>4, Innermost1
<1>6. /\ g.stage = "guard" /\ g.inst = f.inst /\ g.bind = f.bind /\ g.tpl = f.tpl
      /\ g.base["term"] = last["term"] /\ last["term"] \in Nat
  BY <1>3, <1>4, StampedType DEF TypeOK, Reserved, Counter
<1>7. Len(z) = Len(s) /\ (\A i \in 1..(Len(s) - 1) : z[i] = s[i]) /\ g = z[Len(s)]
  BY <1>2, <1>3, <1>4, StackMoves DEF Topped, BelowKept
<1>8. /\ Stacked(s) /\ BoundAs(s, I, T, C, d) /\ FrameTied(f, I, T, C, d)
      /\ On(s, f.inst) /\ f.inst \in Ids(I) /\ Busy(s, I, f.inst)
  BY <1>2, <1>3, <1>4, TopTied
<1>9. \A t \in TermRows(g, b) : t.inst = f.inst
  BY <1>6 DEF TermRows
<1>10. RowsThere(I, U)
  <2>1. inst \subseteq inst' /\ (\A r \in inst' \ inst : r.parent \in Ids(inst) \cup {0})
        /\ \A x \in term' \ term : x.inst \in Ids(inst')
    BY <1>2, <1>3, <1>4, <1>8, <1>9
  <2> QED
    BY <1>2, <1>3, <1>4, <2>1, RowsThereMore
<1>11. Grows1(s, I, I, T, U, C, C, f.inst, 0)
  <2>1. Adds1(T, U, C, C, f.inst)
    BY <1>4, <1>9, <1>10 DEF Adds1, RowsThere
  <2> QED
    BY <1>8, <1>10, <2>1 DEF Grows1
<1>12. FrameTied(g, I, U, C, d)
  BY <1>4, <1>6, <1>8 DEF FrameTied, KidsTied
<1>13. ASSUME NEW r \in I, NEW t \in Tpl, r.id = f.inst, r.tpl = {t}
       PROVE  Blocked(U, f.inst, d.body[t].terms)
  <2>1. t = f.tpl
    BY <1>8, <1>10, <1>13 DEF FrameTied, RowsThere, Distinct
  <2>2. PICK n, q : n = b.terms /\ q = last["term"]
    OBVIOUS
  <2>3. n \in Nat /\ q \in Nat
    BY <1>5, <1>6, <2>2, BodyParts
  <2>4. Block(TermRows(g, b), q, q + Size(b, "term"))
    BY <1>1, <1>3, <1>4, <2>2, RowsFillBlocks
  <2>5. Ids(TermRows(g, b)) = (q + 1)..(q + n)
    BY <2>2, <2>4 DEF Block, Size
  <2>6. TermsOf(TermRows(g, b), f.inst) = Ids(TermRows(g, b))
    BY <1>9 DEF TermsOf, Ids
  <2>7. TermsOf(T, f.inst) = {}
    BY <1>4, <1>8 DEF FrameTied
  <2>8. TermsOf(U, f.inst) = TermsOf(TermRows(g, b), f.inst)
    BY <1>4, <2>7 DEF TermsOf
  <2> QED
    BY <1>5, <2>1, <2>2, <2>3, <2>5, <2>6, <2>8 DEF Blocked
<1>14. \A i : ~Awaited(s, i)
  BY <1>4, <1>5 DEF Awaited
<1>15. BoundAs(z, I, U, C, d)
  <2>1. PICK x : x = f.inst
    OBVIOUS
  <2>2. Filled(I, U, d, x) /\ Settled(s, I, U, C, C) /\ Served(s, f, C, U, d, x)
    BY <1>13, <1>14, <2>1 DEF Filled, Settled, Served
  <2>3. Grows1(s, I, I, T, U, C, C, x, 0) /\ On(s, x) /\ g.stage # "conns" /\ Len(s) # 0
    BY <1>5, <1>6, <1>8, <1>11, <2>1
  <2> QED
    BY <1>5, <1>6, <1>7, <1>8, <1>12, <2>1, <2>2, <2>3, BoundGoesOn
<1> QED
  BY <1>2, <1>3, <1>4, <1>15 DEF BoundInv

LEMMA BoundEnter ==
    ASSUME TypeOK, PathInv, NodesIssued, TreeNumbered, InstsOnce, BoundInv, Fresh,
           EnterChildren
    PROVE  BoundInv'
<1>1. PICK s, I, T, C, d : /\ s = stack /\ I = inst /\ T = term /\ C = conn /\ d = design
  OBVIOUS
<1>2. PICK f, g, z : f = Top /\ g = Entering /\ z = stack'
  OBVIOUS
<1>3. /\ stack # <<>> /\ f.stage = "guard"
      /\ inst' = inst /\ conn' = conn /\ term' = term /\ design' = design
  BY <1>2 DEF EnterChildren, At, dbVars
<1>4. /\ Len(s) \in Nat \ {0} /\ Len(s) \in 1..Len(s) /\ f = s[Len(s)] /\ Innermost(s) = f
      /\ f \in Frame /\ f.tpl \in Tpl /\ BodyOf(f.tpl) = d.body[f.tpl]
      /\ BodyOf(f.tpl) \in Body /\ f.next = 1
  <2>1. /\ Len(s) \in Nat \ {0} /\ Len(s) \in 1..Len(s) /\ f = s[Len(s)] /\ Innermost(s) = f
        /\ f \in Frame /\ f.tpl \in Tpl /\ BodyOf(f.tpl) = d.body[f.tpl]
        /\ BodyOf(f.tpl) \in Body
    BY <1>1, <1>2, <1>3, Innermost1
  <2> QED
    BY <1>1, <1>3, <2>1 DEF Fresh
<1>5. /\ g.stage = "kids" /\ g.inst = f.inst /\ g.bind = f.bind /\ g.tpl = f.tpl
      /\ g.next = 1 /\ g.childBase = last["node"] /\ last["node"] \in Nat
  BY <1>2, <1>3, <1>4, FrameFields, BindKept DEF TypeOK, Counter
<1>6. Len(z) = Len(s) /\ (\A i \in 1..(Len(s) - 1) : z[i] = s[i]) /\ g = z[Len(s)]
  BY <1>1, <1>2, <1>3, StackMoves DEF Topped, BelowKept
<1>7. /\ Stacked(s) /\ BoundAs(s, I, T, C, d) /\ FrameTied(f, I, T, C, d)
  BY <1>1, <1>2, <1>3, TopTied
<1>8. Grows1(s, I, I, T, T, C, C, 0, 0)
  <2>1. RowsThere(I, T) /\ I \subseteq I /\ \A r \in I \ I : r.parent = 0 /\ r.id \notin Ids(I)
    BY <1>7 DEF BoundAs
  <2> QED
    BY <1>7, <2>1, OnlyInsts
<1>9. FrameTied(g, I, T, C, d)
  <2>1. KidIds(I, g.inst) = {}
    BY <1>3, <1>5, <1>7 DEF FrameTied
  <2>2. KidIds(I, g.inst) = (g.childBase + 1)..(g.childBase + g.next - 1)
    BY <1>5, <2>1
  <2>3. g.next <= Len(d.body[g.tpl].children) + 1
    <3>1. PICK m : m = Len(BodyOf(f.tpl).children)
      OBVIOUS
    <3>2. m \in Nat
      BY <1>4, <3>1, BodyParts
    <3>3. 1 <= m + 1
      BY <3>2
    <3> QED
      BY <1>4, <1>5, <3>1, <3>3
  <2>4. KidsTied(g, C, T, d)
    BY <1>5 DEF KidsTied
  <2> QED
    BY <1>5, <1>7, <2>2, <2>3, <2>4 DEF FrameTied
<1>10. \A i : ~Awaited(s, i)
  BY <1>3, <1>4 DEF Awaited
<1>11. 0 \notin Ids(I) /\ \A r \in I : r.id # 0
  BY <1>7 DEF BoundAs, RowsThere, Ids
<1>12. BoundAs(z, I, T, C, d)
  <2>1. Filled(I, T, d, 0) /\ Settled(s, I, T, C, C) /\ Served(s, f, C, T, d, 0)
    BY <1>10, <1>11 DEF Filled, Settled, Served
  <2>2. g.stage # "conns" /\ Len(s) # 0 /\ f.stage # "rows"
    BY <1>3, <1>4, <1>5
  <2> QED
    BY <1>4, <1>5, <1>6, <1>7, <1>8, <1>9, <1>11, <2>1, <2>2, BoundGoesOn
<1> QED
  BY <1>1, <1>2, <1>3, <1>12 DEF BoundInv

\* The row e says what connection cn of the child that f waits for does; the
\* ids of the child's terminals follow q.
Says(e, f, q, cn) ==
    /\ e.term = q + cn.term /\ e.seg = cn.seg
    /\ e.iface = IF cn.iface THEN Bound(f, cn) ELSE 0

\* The connections k of a child, once they are written.
Written(C, D, f, q, k) ==
    /\ C \subseteq D
    /\ \A e \in D \ C : \E i \in 1..Len(k) : k[i].term # 0 /\ Says(e, f, q, k[i])
    /\ \A i \in 1..Len(k) : k[i].term # 0 => \E e \in D : Says(e, f, q, k[i])

\* No two of the connections are to the same segment of a port, and every
\* one is to one of n terminals.
SegmentsApart(k, n) ==
    /\ \A i \in 1..Len(k) : k[i].term \in 0..n
    /\ \A i, m \in 1..Len(k) :
         IsIface(k[i]) /\ k[m].term = k[i].term /\ k[m].seg = k[i].seg => m = i

Unconnected(C, q, n) == \A e \in C : e.term \notin (q + 1)..(q + n)

\* The rows of the n terminals after q say what the connections k do.
RowsTell(D, f, q, n, k) ==
    \A p \in 1..n, s \in Nat :
      /\ \A i \in 1..Len(k) : IsIface(k[i]) /\ k[i].term = p /\ k[i].seg = s =>
           RowAt(D, q + p, s) = Bound(f, k[i])
      /\ (\A i \in 1..Len(k) : ~(IsIface(k[i]) /\ k[i].term = p /\ k[i].seg = s)) =>
           RowAt(D, q + p, s) = 0

LEMMA RowsSay ==
    ASSUME NEW C, NEW D, NEW f, NEW q \in Nat, NEW n \in Nat, NEW k, Written(C, D, f, q, k),
           Unconnected(C, q, n), SegmentsApart(k, n)
    PROVE  RowsTell(D, f, q, n, k)
<1> SUFFICES ASSUME NEW p \in 1..n, NEW s \in Nat
             PROVE  /\ \A i \in 1..Len(k) : IsIface(k[i]) /\ k[i].term = p /\ k[i].seg = s =>
                          RowAt(D, q + p, s) = Bound(f, k[i])
                    /\ (\A i \in 1..Len(k) :
                          ~(IsIface(k[i]) /\ k[i].term = p /\ k[i].seg = s)) =>
                          RowAt(D, q + p, s) = 0
  BY DEF RowsTell
<1>1. ASSUME NEW e \in D, e.term = q + p, e.seg = s
      PROVE  \E i \in 1..Len(k) : k[i].term = p /\ k[i].seg = s /\ Says(e, f, q, k[i])
  <2>1. e \notin C
    BY <1>1 DEF Unconnected
  <2>2. PICK i \in 1..Len(k) : k[i].term # 0 /\ Says(e, f, q, k[i])
    BY <1>1, <2>1 DEF Written
  <2>3. k[i].term = p
    <3>1. k[i].term \in Nat /\ q + p = q + k[i].term
      BY <1>1, <2>2 DEF Says, SegmentsApart
    <3>2. \A a \in Nat : q + p = q + a => a = p
      OBVIOUS
    <3> QED
      BY <3>1, <3>2, Zenon
  <2> QED
    BY <1>1, <2>2, <2>3 DEF Says
<1>2. p # 0
  OBVIOUS
<1>3. PICK v : v = RowAt(D, q + p, s)
  OBVIOUS
<1>4. \/ \E e \in D : e.term = q + p /\ e.seg = s /\ e.iface = v
      \/ v = 0 /\ \A e \in D : ~(e.term = q + p /\ e.seg = s)
  BY <1>3, RowIs
<1>5. ASSUME NEW i \in 1..Len(k), IsIface(k[i]), k[i].term = p, k[i].seg = s
      PROVE  v = Bound(f, k[i])
  <2>1. PICK e \in D : Says(e, f, q, k[i])
    BY <1>2, <1>5 DEF Written
  <2>2. PICK y \in D : y.term = q + p /\ y.seg = s /\ y.iface = v
    BY <1>4, <1>5, <2>1 DEF Says
  <2>3. PICK m \in 1..Len(k) : k[m].term = p /\ k[m].seg = s /\ Says(y, f, q, k[m])
    BY <1>1, <2>2
  <2>4. m = i
    BY <1>5, <2>3 DEF SegmentsApart
  <2> QED
    BY <1>5, <2>2, <2>3, <2>4 DEF Says, IsIface
<1>6. ASSUME \A i \in 1..Len(k) : ~(IsIface(k[i]) /\ k[i].term = p /\ k[i].seg = s)
      PROVE  v = 0
  <2>1. CASE \E e \in D : e.term = q + p /\ e.seg = s /\ e.iface = v
    <3>1. PICK e \in D : e.term = q + p /\ e.seg = s /\ e.iface = v
      BY <2>1
    <3>2. PICK m \in 1..Len(k) : k[m].term = p /\ k[m].seg = s /\ Says(e, f, q, k[m])
      BY <1>1, <3>1
    <3>3. ~k[m].iface
      BY <1>2, <1>6, <3>2 DEF IsIface
    <3> QED
      BY <3>1, <3>2, <3>3 DEF Says
  <2> QED
    BY <1>4, <2>1
<1> QED
  BY <1>3, <1>5, <1>6

\* The child that has returned: its terminals are those after termBase, and
\* nothing is connected to them yet.
LEMMA ChildReturned ==
    ASSUME TypeOK, PathInv, NodesIssued, TreeNumbered, ChildTold, BoundInv, At("conns")
    PROVE  /\ NextChild.kind = "module" /\ Top.termBase \in Nat
           /\ BodyOf(NextChild.tpl).terms \in Nat
           /\ ~On(stack, ChildId) /\ Awaited(stack, ChildId) /\ Busy(stack, inst, ChildId)
           /\ \E r \in inst : /\ r.id = ChildId /\ r.parent = Top.inst
                              /\ r.tpl = {NextChild.tpl}
           /\ TermsOf(term, ChildId)
                = (Top.termBase + 1)..(Top.termBase + BodyOf(NextChild.tpl).terms)
           /\ \A e \in conn : e.term \notin TermsOf(term, ChildId)
<1>1. PICK s, I, T, C, d : /\ s = stack /\ I = inst /\ T = term /\ C = conn /\ d = design
  OBVIOUS
<1>2. PICK f, c, x : f = Top /\ c = NextChild /\ x = ChildId
  OBVIOUS
<1>3. stack # <<>> /\ f.stage = "conns"
  BY <1>2 DEF At
<1>4. /\ Len(s) \in Nat \ {0} /\ Len(s) \in 1..Len(s) /\ f = s[Len(s)] /\ Innermost(s) = f
      /\ f \in Frame /\ DueOf(d, f) = c
  BY <1>1, <1>2, <1>3, Innermost1
<1>5. /\ c \in Child /\ x = f.childBase + f.next
      /\ f.childBase \in Nat /\ f.next \in Nat \ {0} /\ f.termBase \in Nat /\ f.inst \in Nat
  BY <1>2, <1>3, <1>4, WaitsForChild, NextChildType DEF ChildId, Frame
<1>6. /\ Stacked(s) /\ BoundAs(s, I, T, C, d) /\ FrameTied(f, I, T, C, d)
      /\ RowsThere(I, T) /\ HaveTerms(s, I, T, d) /\ Untied(s, I, T, C)
  BY <1>1, <1>2, <1>3, TopTied DEF BoundAs
<1>7. PICK n, q : n = BodyOf(c.tpl).terms /\ q = f.termBase
  OBVIOUS
<1>8. c.tpl \in Tpl /\ n \in Nat /\ q \in Nat /\ n = d.body[c.tpl].terms
  <2>1. c.tpl \in Tpl /\ design \in Designs
    BY <1>5 DEF Child, TypeOK
  <2>2. n \in Nat
    BY <1>7, <2>1, BodyType, BodyParts
  <2> QED
    BY <1>1, <1>5, <1>7, <2>1, <2>2 DEF BodyOf
<1>9. /\ c.kind = "module" /\ \E r \in I : r.id = x /\ r.parent = f.inst
      /\ \A k \in 1..n : \E r \in T : r.id = q + k /\ r.inst = x
  <2>1. ChildAt(f) = c
    BY <1>2 DEF ChildAt, NextChild
  <2>2. Told(f, I) /\ HasTerms(f, T)
    <3>1. ~(Len(s) < Len(s))
      BY <1>4
    <3> QED
      BY <1>1, <1>3, <1>4, <3>1 DEF ChildTold
  <2> QED
    BY <1>5, <1>7, <2>1, <2>2 DEF Told, HasTerms, Owned
<1>10. ~On(s, x)
  <2>1. ASSUME NEW j \in 1..Len(s), s[j].inst = x PROVE FALSE
    <3>1. s[j].inst <= f.childBase
      <4>1. j <= Len(s)
        BY <1>4
      <4> QED
        BY <1>3, <1>4, <1>6, <4>1, StackDistinct
    <3> QED
      BY <1>5, <2>1, <3>1
  <2> QED
    BY <2>1 DEF On
<1>11. Awaited(s, x) /\ Busy(s, I, x)
  BY <1>3, <1>4, <1>5 DEF Awaited, Busy
<1>12. PICK r \in I : r.id = x /\ r.tpl = {c.tpl}
  BY <1>3, <1>4, <1>5, <1>6 DEF FrameTied
<1>13. r.parent = f.inst
  BY <1>6, <1>9, <1>12 DEF RowsThere, Distinct
<1>14. TermsOf(T, x) = (q + 1)..(q + n)
  <2>1. Blocked(T, x, n)
    <3>1. ~\E j \in 1..Len(s) : s[j].inst = r.id /\ s[j].stage = "rows"
      BY <1>10, <1>12 DEF On
    <3> QED
      BY <1>6, <1>8, <1>12, <3>1 DEF HaveTerms
  <2>2. PICK a \in Nat : TermsOf(T, x) = (a + 1)..(a + n)
    BY <2>1 DEF Blocked
  <2>3. \A k \in 1..n : q + k \in (a + 1)..(a + n)
    BY <1>9, <2>2 DEF TermsOf
  <2>4. CASE n = 0
    BY <1>8, <2>2, <2>4
  <2>5. CASE n # 0
    <3>1. 1 \in 1..n /\ n \in 1..n
      BY <1>8, <2>5
    <3>2. q + 1 \in (a + 1)..(a + n) /\ q + n \in (a + 1)..(a + n)
      BY <2>3, <3>1
    <3>3. q = a
      BY <1>8, <3>2
    <3> QED
      BY <2>2, <3>3
  <2> QED
    BY <2>4, <2>5
<1>15. ASSUME NEW e \in C PROVE e.term \notin TermsOf(T, x)
  <2>1. PICK y \in T : y.id = e.term /\ ~Awaited(s, y.inst)
    BY <1>6 DEF Untied
  <2> QED
    BY <1>6, <1>11, <2>1 DEF TermsOf, RowsThere, Distinct
<1> QED
  BY <1>1, <1>2, <1>7, <1>8, <1>9, <1>10, <1>11, <1>12, <1>13, <1>14, <1>15

LEMMA ConnsWritten ==
    ASSUME TypeOK, PathInv, StampConns
    PROVE  Written(conn, conn', Top, Top.termBase, NextChild.conns)
<1>1. PICK k, f, q : k = NextChild.conns /\ f = Top /\ q = Top.termBase
  OBVIOUS
<1> DEFINE made == {i \in 1..Len(k) : k[i].term # 0}
           row(i) == ConnRow(f, last["conn"] + Rank(made, i), k[i], q + k[i].term)
<1>2. conn' = conn \cup {row(i) : i \in made}
  BY <1>1 DEF StampConns, ChildTerm
<1>3. \A i : Says(row(i), f, q, k[i])
  BY DEF Says, ConnRow
<1>4. \A i : i \in made <=> i \in 1..Len(k) /\ k[i].term # 0
  OBVIOUS
<1> HIDE DEF made, row
<1>5. Written(conn, conn', f, q, k)
  BY <1>2, <1>3, <1>4 DEF Written
<1> QED
  BY <1>1, <1>5

\* What a template says of the connections of a child module.
LEMMA IfaceConns ==
    ASSUME design \in Designs, NEW t \in Tpl, NEW j \in 1..Len(BodyOf(t).children),
           NEW c, c = BodyOf(t).children[j], c.kind = "module"
    PROVE  /\ \A i \in 1..Len(c.conns) : c.conns[i].term \in 0..BodyOf(c.tpl).terms
           /\ \A i, m \in 1..Len(c.conns) :
                IsIface(c.conns[i]) /\ c.conns[m].term = c.conns[i].term
                  /\ c.conns[m].seg = c.conns[i].seg => m = i
           /\ \A i \in 1..Len(c.conns) : IsIface(c.conns[i]) =>
                /\ c.conns[i].child \in 0..Len(BodyOf(t).children)
                /\ c.conns[i].ownTerm \in 0..BodyOf(t).terms
<1>1. ConnsLocal(design, BodyOf(t)) /\ IfacesLocal(BodyOf(t))
  BY IndicesLocal, SegmentsOnce DEF BodyOf
<1>2. \A i \in 1..Len(c.conns) : c.conns[i].term \in 0..BodyOf(c.tpl).terms
  BY <1>1 DEF ConnsLocal, BodyOf
<1>3. \A i \in 1..Len(c.conns) : IsIface(c.conns[i]) =>
        /\ c.conns[i].child \in 0..Len(BodyOf(t).children)
        /\ c.conns[i].ownTerm \in 0..BodyOf(t).terms
        /\ \A m \in 1..Len(c.conns) :
             c.conns[m].term = c.conns[i].term /\ c.conns[m].seg = c.conns[i].seg => m = i
  BY <1>1 DEF IfacesLocal, IsIface
<1> QED
  BY <1>2, <1>3

\* Whatever the child was handed, its rows say it.
LEMMA HandedIsWritten ==
    ASSUME NEW D, NEW T, NEW d, NEW f, NEW c, NEW q \in Nat, NEW n \in Nat, NEW x,
           n = d.body[c.tpl].terms, TermsOf(T, x) = (q + 1)..(q + n),
           RowsTell(D, f, q, n, c.conns)
    PROVE  \A bind : Hands(d, f, c, bind) => Carries(D, T, bind, n, x)
<1> SUFFICES ASSUME NEW bind, Hands(d, f, c, bind) PROVE Carries(D, T, bind, n, x)
  OBVIOUS
<1>1. ASSUME NEW p \in 1..n, NEW s \in Nat PROVE BoundTo(bind, p, s) = RowAt(D, q + p, s)
  <2>1. CASE \E i \in 1..Len(c.conns) :
               IsIface(c.conns[i]) /\ c.conns[i].term = p /\ c.conns[i].seg = s
    <3>1. PICK i \in 1..Len(c.conns) :
            IsIface(c.conns[i]) /\ c.conns[i].term = p /\ c.conns[i].seg = s
      BY <2>1
    <3>2. BoundTo(bind, p, s) = Bound(f, c.conns[i])
      BY <3>1 DEF Hands
    <3>3. RowAt(D, q + p, s) = Bound(f, c.conns[i])
      BY <3>1 DEF RowsTell
    <3> QED
      BY <3>2, <3>3
  <2>2. CASE \A i \in 1..Len(c.conns) :
               ~(IsIface(c.conns[i]) /\ c.conns[i].term = p /\ c.conns[i].seg = s)
    <3>1. BoundTo(bind, p, s) = 0
      BY <2>2 DEF Hands
    <3>2. RowAt(D, q + p, s) = 0
      BY <2>2 DEF RowsTell
    <3> QED
      BY <3>1, <3>2
  <2> QED
    BY <2>1, <2>2
<1> QED
  BY <1>1 DEF Carries

\* A child more is tied.
LEMMA TiedMore ==
    ASSUME NEW f, NEW g, NEW C, NEW D, NEW T, NEW U, NEW d, KidsTied(f, D, U, d),
           f.stage \in {"kids", "conns"}, f.next \in Nat \ {0},
           g.tpl = f.tpl, g.bind = f.bind, g.childBase = f.childBase, g.next = f.next + 1,
           Tied(D, U, d, f.childBase, f.bind, DueOf(d, f), f.childBase + f.next)
    PROVE  KidsTied(g, D, U, d)
<1> SUFFICES ASSUME NEW k \in 1..(g.next - 1)
             PROVE  Tied(D, U, d, g.childBase, g.bind, d.body[g.tpl].children[k],
                         g.childBase + k)
  BY DEF KidsTied
<1>1. CASE k = f.next
  BY <1>1 DEF DueOf
<1>2. CASE k # f.next
  <2>1. k \in 1..(f.next - 1)
    BY <1>2
  <2> QED
    BY <2>1 DEF KidsTied
<1> QED
  BY <1>1, <1>2

LEMMA BoundConns ==
    ASSUME TypeOK, PathInv, NodesIssued, TreeNumbered, InstsOnce, ChildTold, BoundInv,
           NodesIssued', InstsOnce', TablesIssued', StampConns
    PROVE  BoundInv'
<1>1. PICK s, I, T, C, d : /\ s = stack /\ I = inst /\ T = term /\ C = conn /\ d = design
  OBVIOUS
<1>2. PICK f, g, z, D : f = Top /\ g = Following /\ z = stack' /\ D = conn'
  OBVIOUS
<1>3. PICK c, x, q, n : /\ c = NextChild /\ x = ChildId /\ q = Top.termBase
                        /\ n = BodyOf(NextChild.tpl).terms
  OBVIOUS
<1>4. /\ At("conns") /\ stack # <<>> /\ f.stage = "conns"
      /\ inst' = inst /\ term' = term /\ design' = design
  BY <1>2 DEF StampConns, At
<1>5. /\ Len(s) \in Nat \ {0} /\ Len(s) \in 1..Len(s) /\ f = s[Len(s)] /\ Innermost(s) = f
      /\ f \in Frame /\ f.tpl \in Tpl /\ DueOf(d, f) = c /\ f.next \in Nat \ {0}
      /\ f.childBase \in Nat /\ BodyOf(f.tpl) = d.body[f.tpl] /\ f.inst \in Nat
  BY <1>1, <1>2, <1>3, <1>4, Innermost1
<1>6. /\ c \in Child /\ x = f.childBase + f.next /\ c = BodyOf(f.tpl).children[f.next]
      /\ f.next \in 1..Len(BodyOf(f.tpl).children) /\ design \in Designs
  BY <1>2, <1>3, <1>4, WaitsForChild, NextChildType DEF ChildId, NextChild, TypeOK
<1>7. /\ g.stage = "kids" /\ g.inst = f.inst /\ g.bind = f.bind /\ g.tpl = f.tpl
      /\ g.next = f.next + 1 /\ g.childBase = f.childBase
  BY <1>2, <1>4, FrameFields, BindKept
<1>8. Len(z) = Len(s) /\ (\A i \in 1..(Len(s) - 1) : z[i] = s[i]) /\ g = z[Len(s)]
  BY <1>1, <1>2, <1>4, StackMoves DEF Topped, BelowKept
<1>9. /\ Stacked(s) /\ BoundAs(s, I, T, C, d) /\ FrameTied(f, I, T, C, d)
      /\ RowsThere(I, T) /\ HaveTerms(s, I, T, d) /\ f.inst \in Ids(I)
  BY <1>1, <1>2, <1>4, TopTied DEF BoundAs
<1>10. /\ c.kind = "module" /\ q \in Nat /\ n \in Nat /\ n = d.body[c.tpl].terms
       /\ ~On(s, x) /\ Awaited(s, x) /\ Busy(s, I, x)
       /\ TermsOf(T, x) = (q + 1)..(q + n)
       /\ Unconnected(C, q, n)
  BY <1>1, <1>3, <1>4, ChildReturned DEF BodyOf, Unconnected
<1>11. PICK r \in I : r.id = x /\ r.parent = f.inst /\ r.tpl = {c.tpl}
  BY <1>1, <1>2, <1>3, <1>4, ChildReturned
<1>12. Written(C, D, f, q, c.conns) /\ SegmentsApart(c.conns, n)
  <2>1. Written(C, D, f, q, c.conns)
    BY <1>1, <1>2, <1>3, ConnsWritten
  <2>2. PICK t, j : t = f.tpl /\ j = f.next
    OBVIOUS
  <2>3. /\ design \in Designs /\ t \in Tpl /\ j \in 1..Len(BodyOf(t).children)
        /\ c = BodyOf(t).children[j] /\ c.kind = "module"
    BY <1>5, <1>6, <1>10, <2>2
  <2>4. n = BodyOf(c.tpl).terms
    BY <1>3
  <2> QED
    BY <2>1, <2>3, <2>4, IfaceConns DEF SegmentsApart
<1>13. RowsTell(D, f, q, n, c.conns)
  BY <1>10, <1>12, RowsSay
<1>14. \A e \in D \ C : \E t \in T : t.id = e.term /\ t.inst = x
  <2> SUFFICES ASSUME NEW e \in D \ C PROVE e.term \in TermsOf(T, x)
    BY DEF TermsOf
  <2>1. PICK i \in 1..Len(c.conns) : c.conns[i].term # 0 /\ Says(e, f, q, c.conns[i])
    BY <1>12 DEF Written
  <2>2. c.conns[i].term \in 0..n /\ c.conns[i].term # 0 /\ e.term = q + c.conns[i].term
    BY <1>12, <2>1 DEF Says, SegmentsApart
  <2>3. \A a \in 0..n : a # 0 => q + a \in (q + 1)..(q + n)
    BY <1>10
  <2> QED
    BY <1>10, <2>2, <2>3, Zenon
<1>15. Grows1(s, I, I, T, T, C, D, x, 0)
  <2>1. Adds1(T, T, C, D, x)
    BY <1>9, <1>12, <1>14 DEF Adds1, RowsThere, Written
  <2> QED
    BY <1>9, <1>10, <2>1 DEF Grows1
<1>16. Tied(D, T, d, f.childBase, f.bind, c, x)
  <2>1. \A i \in 1..Len(c.conns) :
          c.conns[i].seg \in Nat /\ Bound(Given(f.childBase, f.bind), c.conns[i])
                                      = Bound(f, c.conns[i])
    <3>1. c.conns \in Seq(Conn)
      BY <1>6 DEF Child
    <3>2. \A i \in 1..Len(c.conns) : c.conns[i] \in Conn
      BY <3>1, ElementType
    <3>3. \A cn : Bound(Given(f.childBase, f.bind), cn) = Bound(f, cn)
      BY DEF Bound, Given
    <3> QED
      BY <3>2, <3>3 DEF Conn
  <2>2. \A i \in 1..Len(c.conns) : IsIface(c.conns[i]) => c.conns[i].term \in 1..n
    BY <1>10, <1>12 DEF IsIface, SegmentsApart
  <2>3. \A i \in 1..Len(c.conns) : IsIface(c.conns[i]) =>
          RowAt(D, q + c.conns[i].term, c.conns[i].seg)
            = Bound(Given(f.childBase, f.bind), c.conns[i])
    BY <1>13, <2>1, <2>2 DEF RowsTell
  <2> QED
    BY <1>10, <2>2, <2>3 DEF Tied
<1>17. FrameTied(g, I, T, D, d)
  <2>1. KidsTied(f, D, T, d)
    BY <1>5, <1>9, <1>15, TiesKept
  <2>2. KidsTied(g, D, T, d)
    BY <1>4, <1>5, <1>6, <1>7, <1>16, <2>1, TiedMore
  <2>3. KidIds(I, f.inst) = (f.childBase + 1)..(f.childBase + f.next)
    BY <1>4, <1>9 DEF FrameTied
  <2>4. f.childBase + g.next - 1 = f.childBase + f.next
    BY <1>5, <1>7
  <2>5. g.next <= Len(d.body[g.tpl].children) + 1
    <3>1. PICK m : m = Len(BodyOf(f.tpl).children)
      OBVIOUS
    <3>2. m = Len(d.body[g.tpl].children) /\ f.next \in 1..m
      BY <1>5, <1>6, <1>7, <3>1
    <3>3. f.next + 1 <= m + 1
      <4>1. f.next <= m /\ f.next \in Int /\ m \in Int
        BY <1>5, <1>6, <3>1, <3>2, BodyType, BodyParts
      <4> QED
        BY <4>1
    <3> QED
      BY <1>7, <3>2, <3>3
  <2> QED
    BY <1>7, <1>9, <2>2, <2>3, <2>4, <2>5 DEF FrameTied
<1>18. BoundAs(z, I, T, D, d)
  <2>1. Filled(I, T, d, x)
    BY <1>9, <1>10, <1>11 DEF RowsThere, Distinct, Blocked, Filled
  <2>2. Settled(s, I, T, C, D)
    <3>1. f.inst # 0
      BY <1>9 DEF RowsThere, Ids
    <3> QED
      BY <1>10, <1>11, <1>14, <3>1 DEF Settled
  <2>3. Served(s, f, D, T, d, x)
    <3>1. \A i : Awaited(s, i) => i = x
      BY <1>5, <1>6 DEF Awaited
    <3>2. \A bind : Hands(d, f, c, bind) => Carries(D, T, bind, n, x)
      BY <1>10, <1>13, HandedIsWritten
    <3> QED
      BY <1>5, <1>10, <3>1, <3>2 DEF Served
  <2>4. /\ g.stage # "conns" /\ Len(s) # 0 /\ f.stage # "rows" /\ \A y \in I \ I : y.tpl = {}
        /\ f = s[Len(s)] /\ g.inst = f.inst /\ g.bind = f.bind
        /\ Stacked(s) /\ BoundAs(s, I, T, C, d) /\ Awaited(s, x)
    BY <1>4, <1>5, <1>7, <1>9, <1>10
  <2> QED
    BY <1>8, <1>15, <1>17, <2>1, <2>2, <2>3, <2>4, BoundGoesOn
<1> QED
  BY <1>1, <1>2, <1>4, <1>18 DEF BoundInv

\* The rows of a black box: terminals of its own, and connections to these.
LEMMA BoxWritten ==
    ASSUME TypeOK, StampUnresolved
    PROVE  /\ term \subseteq term' /\ conn \subseteq conn'
           /\ \A t \in term' \ term : t.inst = ChildId
           /\ \A e \in conn' \ conn : \E t \in term' : t.id = e.term /\ t.inst = ChildId
<1>1. PICK a, m, x, k, f : /\ a = last["term"] /\ m = NextChild.ports /\ x = ChildId
                           /\ k = NextChild.conns /\ f = Top
  OBVIOUS
<1> DEFINE made == {i \in 1..Len(k) : k[i].term \in 1..m}
           row(i) == ConnRow(f, last["conn"] + i, [k[i] EXCEPT !.iface = FALSE],
                             a + k[i].term)
           port(i) == [id |-> a + i, inst |-> x]
<1>2. term' = term \cup {port(i) : i \in 1..m} /\ conn' = conn \cup {row(i) : i \in made}
  BY <1>1 DEF StampUnresolved
<1>3. \A i \in made : row(i).term = a + k[i].term /\ k[i].term \in 1..m
  BY DEF ConnRow
<1>4. \A i \in 1..m : port(i).id = a + i /\ port(i).inst = x
  OBVIOUS
<1> HIDE DEF made, row, port
<1>5. \A i \in 1..m : port(i) \in term'
  BY <1>2
<1>6. ASSUME NEW e \in conn' \ conn PROVE \E t \in term' : t.id = e.term /\ t.inst = x
  <2>1. PICK i \in made : e = row(i)
    BY <1>2
  <2>2. e.term = a + k[i].term /\ k[i].term \in 1..m
    BY <1>3, <2>1
  <2> QED
    BY <1>4, <1>5, <2>2
<1>7. \A t \in term' \ term : t.inst = x
  BY <1>2, <1>4
<1> QED
  BY <1>1, <1>2, <1>6, <1>7

LEMMA BoundBox ==
    ASSUME TypeOK, PathInv, NodesIssued, TreeNumbered, InstsOnce, BoundInv,
           NodesIssued', InstsOnce', TablesIssued', StampUnresolved
    PROVE  BoundInv'
<1>1. PICK s, I, T, C, d : /\ s = stack /\ I = inst /\ T = term /\ C = conn /\ d = design
  OBVIOUS
<1>2. PICK z, J, U, D : z = stack' /\ J = inst' /\ U = term' /\ D = conn'
  OBVIOUS
<1>3. PICK f, g, c, x, n : f = Top /\ g = Following /\ c = NextChild /\ x = ChildId /\ n = BoxInst
  OBVIOUS
<1>4. /\ stack # <<>> /\ f.stage = "kids" /\ c.kind = "unresolved" /\ design' = design
      /\ f.next <= Len(BodyOf(f.tpl).children) /\ NewInst(BoxInst)
  <2>1. /\ stack # <<>> /\ f.stage = "kids" /\ c.kind = "unresolved" /\ design' = design
        /\ f.next <= Len(BodyOf(f.tpl).children)
    BY <1>3 DEF StampUnresolved, ChildDue, At
  <2> QED
    BY <2>1, InstsMove
<1>5. /\ Len(s) \in Nat \ {0} /\ Len(s) \in 1..Len(s) /\ f = s[Len(s)] /\ Innermost(s) = f
      /\ f \in Frame /\ f.tpl \in Tpl /\ DueOf(d, f) = c /\ f.next \in Nat \ {0}
      /\ f.childBase \in Nat /\ BodyOf(f.tpl) = d.body[f.tpl] /\ x = f.childBase + f.next
  BY <1>1, <1>3, <1>4, Innermost1 DEF ChildId
<1>6. /\ g.stage = "kids" /\ g.inst = f.inst /\ g.bind = f.bind /\ g.tpl = f.tpl
      /\ g.next = f.next + 1 /\ g.childBase = f.childBase
  BY <1>3, <1>4, FrameFields, BindKept
<1>7. Len(z) = Len(s) /\ (\A i \in 1..(Len(s) - 1) : z[i] = s[i]) /\ g = z[Len(s)]
  BY <1>1, <1>2, <1>3, <1>4, StackMoves DEF Topped, BelowKept
<1>8. /\ Stacked(s) /\ BoundAs(s, I, T, C, d) /\ FrameTied(f, I, T, C, d)
      /\ RowsThere(I, T) /\ f.inst \in Ids(I)
  BY <1>1, <1>3, <1>4, TopTied DEF BoundAs
<1>9. /\ J = I \cup {n} /\ n.id = x /\ n.parent = f.inst /\ n.tpl = {} /\ x \notin Ids(I)
  BY <1>1, <1>2, <1>3, <1>4 DEF NewInst, BoxInst, BlackBoxRow
<1>10. /\ T \subseteq U /\ C \subseteq D /\ (\A t \in U \ T : t.inst = x)
       /\ \A e \in D \ C : \E t \in U : t.id = e.term /\ t.inst = x
  BY <1>1, <1>2, <1>3, BoxWritten
<1>11. RowsThere(J, U)
  <2>1. x \in Ids(J)
    BY <1>9 DEF Ids
  <2>2. inst \subseteq inst' /\ (\A r \in inst' \ inst : r.parent \in Ids(inst) \cup {0})
        /\ \A t \in term' \ term : t.inst \in Ids(inst')
    BY <1>1, <1>2, <1>8, <1>9, <1>10, <2>1
  <2> QED
    BY <1>1, <1>2, <2>2, RowsThereMore
<1>12. Grows1(s, I, J, T, U, C, D, x, f.inst)
  <2>1. Adds1(T, U, C, D, x)
    BY <1>10, <1>11 DEF Adds1, RowsThere
  <2>2. I \subseteq J /\ \A r \in J \ I : r.parent = f.inst /\ r.id \notin Ids(I)
    BY <1>9
  <2> QED
    BY <1>5, <1>9, <1>11, <2>1, <2>2 DEF Grows1, Busy
<1>13. ~On(s, x)
  BY <1>8, <1>9 DEF On, BoundAs, FrameTied, Ids
<1>14. FrameTied(g, J, U, D, d)
  <2>1. \E r \in J : r.id = g.inst /\ r.tpl = {g.tpl}
    BY <1>6, <1>8, <1>9 DEF FrameTied
  <2>2. KidIds(J, f.inst) = KidIds(I, f.inst) \cup {x}
    BY <1>9 DEF KidIds, KidsOf, Ids
  <2>3. KidIds(I, f.inst) = (f.childBase + 1)..(f.childBase + f.next - 1)
    BY <1>4, <1>8 DEF FrameTied
  <2>4. KidIds(J, g.inst) = (g.childBase + 1)..(g.childBase + g.next - 1)
    <3>1. PICK a, m : a = f.childBase /\ m = f.next
      OBVIOUS
    <3>2. a \in Nat /\ m \in Nat \ {0}
      BY <1>5, <3>1
    <3>3. ((a + 1)..(a + m - 1)) \cup {a + m} = (a + 1)..(a + (m + 1) - 1)
      BY <3>2
    <3> QED
      BY <1>5, <1>6, <2>2, <2>3, <3>1, <3>3
  <2>5. KidsTied(f, D, U, d)
    BY <1>5, <1>8, <1>12, TiesKept
  <2>6. Tied(D, U, d, f.childBase, f.bind, DueOf(d, f), f.childBase + f.next)
    BY <1>4, <1>5 DEF Tied
  <2>7. KidsTied(g, D, U, d)
    BY <1>4, <1>5, <1>6, <2>5, <2>6, TiedMore
  <2>8. g.next <= Len(d.body[g.tpl].children) + 1
    <3>1. PICK m : m = Len(BodyOf(f.tpl).children)
      OBVIOUS
    <3>2. m \in Nat
      <4>1. design \in Designs
        BY DEF TypeOK
      <4> QED
        BY <1>5, <3>1, <4>1, BodyType, BodyParts
    <3>3. f.next + 1 <= m + 1
      BY <1>4, <1>5, <3>1, <3>2
    <3> QED
      BY <1>5, <1>6, <3>1, <3>3
  <2> QED
    BY <1>6, <2>1, <2>4, <2>7, <2>8 DEF FrameTied
<1>15. BoundAs(z, J, U, D, d)
  <2>1. Filled(J, U, d, x)
    BY <1>9, <1>11 DEF RowsThere, Distinct, Filled
  <2>2. Settled(s, J, U, C, D)
    <3>1. f.inst # 0 /\ n \in J
      BY <1>8, <1>9 DEF RowsThere, Ids
    <3> QED
      BY <1>9, <1>10, <1>13, <3>1 DEF Settled
  <2>3. Served(s, f, D, U, d, x)
    BY <1>4, <1>5 DEF Served, Awaited
  <2>4. /\ g.stage # "conns" /\ Len(s) # 0 /\ f.stage # "rows" /\ \A y \in J \ I : y.tpl = {}
        /\ f = s[Len(s)] /\ g.inst = f.inst /\ g.bind = f.bind
        /\ Stacked(s) /\ BoundAs(s, I, T, C, d) /\ x \notin Ids(I)
    BY <1>4, <1>5, <1>6, <1>8, <1>9
  <2> QED
    BY <1>7, <1>12, <1>14, <2>1, <2>2, <2>3, <2>4, BoundGoesOn
<1> QED
  BY <1>1, <1>2, <1>4, <1>15 DEF BoundInv

LEMMA BoundStep ==
    ASSUME TypeOK, PathInv, Fresh, NodesIssued, TreeNumbered, InstsOnce, ChildTold, AfterTree,
           BoundInv, NodesIssued', InstsOnce', TablesIssued', [Next]_vars
    PROVE  BoundInv'
<1>1. CASE StampTop
  BY <1>1, BoundStampTop
<1>2. CASE StampRows
  BY <1>2, BoundStampRows
<1>3. CASE CutRecursion \/ Return
  BY <1>3, BoundReturn
<1>4. CASE EnterChildren
  BY <1>4, BoundEnter
<1>5. CASE StampChildModule
  BY <1>5, BoundStampChild
<1>6. CASE StampConns
  BY <1>6, BoundConns
<1>7. CASE StampUnresolved
  BY <1>7, BoundBox
<1>8. CASE StampPackage \/ ResolveRef \/ CrossDep \/ Advance \/ UNCHANGED vars
  BY <1>8, BoundAfter
<1> QED
  BY <1>1, <1>2, <1>3, <1>4, <1>5, <1>6, <1>7, <1>8 DEF Next

\* What the properties read is what the rows here are.
LEMMA ReadAs ==
    /\ \A i, k : ChildOf(i, k) = Kth(KidIds(inst, i), k)
    /\ \A i, k : TermOf(i, k) = Kth(TermsOf(term, i), k)
    /\ \A t, s : BoundRow(t, s) = RowAt(conn, t, s)
<1>1. \A i, k : ChildOf(i, k) = Kth(KidIds(inst, i), k)
  BY Zenon DEF ChildOf, Kth, KidIds, KidsOf, Ids
<1>2. \A i, k : TermOf(i, k) = Kth(TermsOf(term, i), k)
  BY Zenon DEF TermOf, Kth, TermsOf
<1>3. \A t, s : BoundRow(t, s) = RowAt(conn, t, s)
  BY Zenon DEF BoundRow, RowAt
<1> QED
  BY <1>1, <1>2, <1>3

LEMMA BindingsOfRows ==
    ASSUME TypeOK, InstsOnce, AfterTree, BoundInv
    PROVE  IfaceBindingFollowed
<1> SUFFICES ASSUME phase = "done", NEW i \in Entered,
                    NEW k \in 1..Len(BodyAt(i).children),
                    NEW c, c = BodyAt(i).children[k], c.kind = "module",
                    NEW m \in 1..Len(c.conns), NEW cn, cn = c.conns[m],
                    cn.iface, cn.term # 0
             PROVE  BoundRow(TermOf(ChildOf(i, k), cn.term), cn.seg) =
                      CASE cn.child # 0 -> ChildOf(i, cn.child)
                        [] cn.child = 0 /\ cn.ownTerm # 0 ->
                             BoundRow(TermOf(i, cn.ownTerm), cn.ownSeg)
                        [] OTHER -> 0
  BY DEF IfaceBindingFollowed
<1>1. PICK r \in inst : r.id = i
  BY DEF Entered, Ids
<1>2. (\A j : ~On(stack, j)) /\ (\A j : ~Awaited(stack, j))
  <2>1. Len(stack) = 0
    BY DEF AfterTree
  <2> QED
    BY <2>1 DEF On, Awaited
<1>3. KidIds(inst, i) # {}
  BY DEF Entered, KidIds, KidsOf, Ids
<1>4. PICK t \in Tpl, b \in Nat, bind \in SUBSET Binding :
        LeftAs(r, t, b, bind, stack, inst, term, conn, design)
  BY <1>1, <1>2, <1>3 DEF BoundInv, BoundAs, LeftTied
<1>5. PICK l, w : l = Len(BodyOf(t).children) /\ w = BodyOf(t).terms
  OBVIOUS
<1>6. /\ r.tpl = {t} /\ design \in Designs /\ l \in Nat /\ w \in Nat
      /\ KidIds(inst, i) = (b + 1)..(b + l) /\ Carries(conn, term, bind, w, i)
  <2>1. design \in Designs
    BY DEF TypeOK
  <2>2. l \in Nat /\ w \in Nat
    BY <1>5, <2>1, BodyType, BodyParts
  <2> QED
    BY <1>1, <1>2, <1>4, <1>5, <2>1, <2>2 DEF LeftAs, BodyOf
<1>7. BodyAt(i) = BodyOf(t) /\ k \in 1..l /\ c = BodyOf(t).children[k]
  <2>1. RowOf(inst, i) = r
    BY <1>1, RowOfId DEF InstsOnce
  <2>2. (CHOOSE y \in RowOf(inst, i).tpl : TRUE) = t
    BY <1>6, <2>1
  <2> QED
    BY <1>5, <2>2 DEF BodyAt
<1>8. PICK n : n = BodyOf(c.tpl).terms
  OBVIOUS
<1>9. PICK q \in Nat :
        /\ n \in Nat /\ TermsOf(term, b + k) = (q + 1)..(q + n)
        /\ cn.term \in 1..n
        /\ RowAt(conn, q + cn.term, cn.seg) = Bound(Given(b, bind), cn)
  <2>1. Tied(conn, term, design, b, bind, c, b + k)
    BY <1>4, <1>5, <1>7 DEF LeftAs, BodyOf
  <2> QED
    BY <1>8, <2>1 DEF Tied, IsIface, BodyOf
<1>10. /\ cn.child \in 0..l /\ cn.ownTerm \in 0..w /\ cn.ownSeg \in Nat
  <2>1. IsIface(c.conns[m])
    BY DEF IsIface
  <2>2. cn.child \in 0..l /\ cn.ownTerm \in 0..w
    BY <1>5, <1>6, <1>7, <2>1, IfaceConns
  <2>3. c \in Child
    BY <1>5, <1>6, <1>7, BodyType, BodyParts
  <2>4. cn \in Conn
    BY <2>3, ElementType DEF Child
  <2> QED
    BY <2>2, <2>4 DEF Conn
<1>11. \A j \in 1..l : ChildOf(i, j) = b + j
  <2>1. b \in Nat /\ l \in Nat
    BY <1>6
  <2>2. \A j \in 1..l : Kth((b + 1)..(b + l), j) = b + j
    BY <2>1, KthIs
  <2> QED
    BY <1>6, <2>2, ReadAs
<1>12. BoundRow(TermOf(ChildOf(i, k), cn.term), cn.seg) = Bound(Given(b, bind), cn)
  <2>1. PICK p : p = cn.term
    OBVIOUS
  <2>2. Kth(TermsOf(term, b + k), p) = q + p
    BY <1>9, <2>1, KthIs
  <2>3. TermOf(b + k, p) = q + p
    BY <2>2, ReadAs
  <2>4. BoundRow(q + p, cn.seg) = Bound(Given(b, bind), cn)
    BY <1>9, <2>1, ReadAs
  <2> QED
    BY <1>7, <1>11, <2>1, <2>3, <2>4
<1>13. CASE cn.child # 0
  <2>1. Bound(Given(b, bind), cn) = b + cn.child
    BY <1>13 DEF Bound, Given
  <2>2. cn.child \in 1..l
    BY <1>10, <1>13
  <2> QED
    BY <1>11, <1>12, <1>13, <2>1, <2>2
<1>14. CASE cn.child = 0 /\ cn.ownTerm # 0
  <2>1. Bound(Given(b, bind), cn) = BoundTo(bind, cn.ownTerm, cn.ownSeg)
    BY <1>14 DEF Bound, Given
  <2>2. PICK u, g : u = cn.ownTerm /\ g = cn.ownSeg
    OBVIOUS
  <2>3. u \in 1..w /\ g \in Nat
    BY <1>10, <1>14, <2>2
  <2>4. PICK a \in Nat : /\ TermsOf(term, i) = (a + 1)..(a + w)
                         /\ BoundTo(bind, u, g) = RowAt(conn, a + u, g)
    BY <1>6, <2>3 DEF Carries
  <2>5. TermOf(i, u) = a + u
    <3>1. Kth((a + 1)..(a + w), u) = a + u
      BY <1>6, <2>3, KthIs
    <3> QED
      BY <2>4, <3>1, ReadAs
  <2>6. BoundRow(TermOf(i, cn.ownTerm), cn.ownSeg) = RowAt(conn, a + u, g)
    BY <2>2, <2>5, ReadAs
  <2> QED
    BY <1>12, <1>14, <2>1, <2>2, <2>4, <2>6
<1>15. CASE cn.child = 0 /\ cn.ownTerm = 0
  <2>1. Bound(Given(b, bind), cn) = 0
    BY <1>15 DEF Bound
  <2> QED
    BY <1>12, <1>15, <2>1
<1> QED
  BY <1>13, <1>14, <1>15

\* What the proofs below stand on.
LEMMA RowsBound ==
    Spec => [](TypeOK /\ PathInv /\ IdsInv /\ HomeInv /\ TreeNumbered /\ SealInv /\ BoundInv)
<1> DEFINE Inv == TreeNumbered /\ SealInv /\ BoundInv
<1>1. Init => Inv
  BY TreeNumberedInit, SealInit, BoundInit
<1>2. /\ TypeOK /\ PathInv /\ IdsInv /\ IdsInv' /\ HomeInv /\ HomeInv' /\ Inv /\ [Next]_vars
      => Inv'
  <2> SUFFICES ASSUME TypeOK, PathInv, IdsInv, IdsInv', HomeInv, HomeInv', Inv, [Next]_vars
               PROVE  Inv'
    OBVIOUS
  <2>1. /\ Fresh /\ NodesIssued /\ InstsOnce /\ ChildTold /\ AfterTree
        /\ NodesIssued' /\ InstsOnce' /\ TablesIssued'
    BY DEF IdsInv, HomeInv, SealInv
  <2>2. TreeNumbered' /\ SealInv'
    BY <2>1, TreeNumberedStep, SealStep
  <2> QED
    BY <2>1, <2>2, BoundStep
<1>3. Inv => TreeNumbered /\ SealInv /\ BoundInv
  OBVIOUS
<1> HIDE DEF Inv
<1> QED
  BY <1>1, <1>2, <1>3, HomeInductive, PTL DEF Spec

(* For every design whose templates have indices of their own and connect  *)
(* a segment of a port once: each interface port's rows name the sibling,  *)
(* or what the parent's own rows name, though an occurrence hands its      *)
(* bindings on before the rows are there, to siblings that have only ids.  *)
THEOREM BindingsAreFollowed == Spec => []IfaceBindingFollowed
<1>1. TypeOK /\ HomeInv /\ SealInv /\ BoundInv => IfaceBindingFollowed
  BY BindingsOfRows DEF HomeInv, SealInv
<1> QED
  BY <1>1, RowsBound, PTL

-----------------------------------------------------------------------------
(* The dependencies.  What an instance has: its nets, its references in    *)
(* the queue, and the rows of the other tables, after the bases it was     *)
(* given.                                                                  *)

Has(base, i, b, N, J, W) ==
    /\ \A k \in 1..Len(b.nets) :
         \E x \in N : x.id = base["net"] + k /\ x.inst = i /\ x.name = b.nets[k]
    /\ \A k \in 1..Len(b.refs) :
         /\ base["ref"] + k \in 1..Len(J)
         /\ J[base["ref"] + k].inst = i /\ J[base["ref"] + k].idx = k
    /\ \A tab \in Plain : Owned(W[tab], base[tab], Len(b.rows[tab]), i)

\* EndTold and EvidenceTold, of given tables.
EndIn(N, R, i, b, e, n, r) ==
    /\ e.net # 0 =>
         /\ r = 0 /\ \E x \in N : x.id = n /\ x.inst = i /\ x.name = b.nets[e.net]
    /\ e.net = 0 /\ e.ref # 0 =>
         /\ n \in Ids(N) \cup {0}
         /\ \E x \in R : x.id = r /\ x.inst = i /\ x.idx = e.ref /\ x.net = n
    /\ e.net = 0 /\ e.ref = 0 => n = 0 /\ r = 0

EvidenceIn(W, i, d, links) ==
    /\ {l[1] : l \in links} = {l[1] : l \in d.links}
    /\ \A l \in links : l[1] \in Plain /\ \E x \in W[l[1]] : x.id = l[2] /\ x.inst = i

\* A row that says what a dependency of its instance's body b says.
RowIn(x, b, N, R, W) ==
    /\ x.idx \in 1..Len(b.deps)
    /\ Deferred(b.deps[x.idx]) => Sourced(b.deps[x.idx])
    /\ EndIn(N, R, x.inst, b, b.deps[x.idx].src, x.src, x.srcRef)
    /\ EndIn(N, R, x.inst, b, b.deps[x.idx].tgt, x.tgt, x.tgtRef) /\ x.tgt # 0
    /\ EvidenceIn(W, x.inst, b.deps[x.idx], x.links)

\* A queued dependency of body b.
JobIn(job, b, N, J, W) ==
    /\ job.base \in [Reserved -> Nat] /\ job.inst \in Nat
    /\ job.idx \in 1..Len(b.deps) /\ Deferred(b.deps[job.idx])
    /\ Has(job.base, job.inst, b, N, J, W)

OfTpl(I, i, t) == \E z \in I : z.id = i /\ z.tpl = {t}

LEMMA HasStill ==
    ASSUME Grown, NEW base, NEW i, NEW b, Has(base, i, b, net, replayJobs, rows)
    PROVE  Has(base, i, b, net', replayJobs', rows')
<1>1. /\ net \subseteq net' /\ \A tab \in Plain : rows[tab] \subseteq rows'[tab]
      /\ \A m \in 1..Len(replayJobs) :
           m \in 1..Len(replayJobs') /\ replayJobs'[m] = replayJobs[m]
  BY DEF Grown
<1>2. \A k \in 1..Len(b.nets) :
        \E x \in net' : x.id = base["net"] + k /\ x.inst = i /\ x.name = b.nets[k]
  BY <1>1 DEF Has
<1>3. ASSUME NEW k \in 1..Len(b.refs)
      PROVE  /\ base["ref"] + k \in 1..Len(replayJobs')
             /\ replayJobs'[base["ref"] + k].inst = i
             /\ replayJobs'[base["ref"] + k].idx = k
  BY <1>1 DEF Has
<1>4. \A tab \in Plain : Owned(rows'[tab], base[tab], Len(b.rows[tab]), i)
  BY <1>1 DEF Has, Owned
<1> QED
  BY <1>2, <1>3, <1>4 DEF Has

LEMMA RowStill ==
    ASSUME Grown, NEW x, NEW b, RowIn(x, b, net, ref, rows)
    PROVE  RowIn(x, b, net', ref', rows')
<1>1. /\ net \subseteq net' /\ ref \subseteq ref' /\ Ids(net) \subseteq Ids(net')
      /\ \A tab \in Plain : rows[tab] \subseteq rows'[tab]
  BY DEF Grown, Ids
<1>2. ASSUME NEW i, NEW e, NEW n, NEW r, EndIn(net, ref, i, b, e, n, r)
      PROVE  EndIn(net', ref', i, b, e, n, r)
  BY <1>1, <1>2 DEF EndIn
<1>3. ASSUME NEW i, NEW d, NEW links, EvidenceIn(rows, i, d, links)
      PROVE  EvidenceIn(rows', i, d, links)
  BY <1>1, <1>3 DEF EvidenceIn
<1> QED
  BY <1>2, <1>3 DEF RowIn

\* What an occurrence that stamps its body has.
LEMMA StampedHas ==
    ASSUME TypeOK, JobsNumbered, StampRows
    PROVE  Has(Stamped.base, Top.inst, BodyOf(Top.tpl), net', replayJobs', rows')
<1> DEFINE b == BodyOf(Top.tpl)
           f == Stamped
           q == RefJobs(f, b)
<1>1. /\ stack # <<>> /\ b \in Body /\ net' = net \cup NetRows(f, b)
      /\ replayJobs' = replayJobs \o q
      /\ \A tab \in Plain : rows'[tab] = rows[tab] \cup PlainRows(f, b, tab)
  BY RowsStamped
<1>2. /\ f.inst = Top.inst /\ f.base["ref"] = last["ref"]
      /\ JobsOf(replayJobs', f.base["ref"], Len(b.refs), f.inst)
  BY <1>1, StampedType, StampedOwns DEF Owns, Reserved
<1>3. \A k \in 1..Len(b.nets) :
        \E x \in net' : x.id = f.base["net"] + k /\ x.inst = f.inst /\ x.name = b.nets[k]
  <2>1. TAKE k \in 1..Len(b.nets)
  <2> DEFINE x == [id |-> f.base["net"] + k, inst |-> f.inst, name |-> b.nets[k]]
  <2>2. x \in net'
    BY <1>1 DEF NetRows
  <2> QED
    BY <2>2
<1>4. ASSUME NEW k \in 1..Len(b.refs) PROVE replayJobs'[f.base["ref"] + k].idx = k
  <2>1. /\ q \in Seq(RefJob) /\ Len(q) = Len(b.refs)
        /\ q[k] = [id |-> last["ref"] + k, inst |-> Top.inst, tpl |-> Top.tpl,
                   idx |-> k, bind |-> Top.bind]
    BY <1>1, JobsType
  <2>2. q[k].idx = k
    <3> HIDE DEF q, b, f
    <3> QED
      BY <2>1
  <2>3. replayJobs \in Seq(RefJob) /\ Len(replayJobs) = last["ref"]
    BY DEF JobsNumbered
  <2> HIDE DEF q, b, f
  <2>4. (replayJobs \o q)[Len(replayJobs) + k] = q[k]
    <3>1. PICK u \in Seq(RefJob), v \in Seq(RefJob) : u = replayJobs /\ v = q
      BY <2>1, <2>3
    <3>2. \A m \in 1..Len(v) : /\ Len(u) + m \in 1..Len(u \o v)
                               /\ (u \o v)[Len(u) + m] = v[m]
      BY Concat
    <3>3. k \in 1..Len(v)
      BY <2>1, <3>1
    <3> QED
      BY <3>1, <3>2, <3>3
  <2> QED
    BY <1>1, <1>2, <2>2, <2>3, <2>4
<1>5. ASSUME NEW tab \in Plain
      PROVE  Owned(rows'[tab], f.base[tab], Len(b.rows[tab]), f.inst)
  <2>1. \A k \in 1..Len(b.rows[tab]) : Moved(f, tab, k) \in rows'[tab]
    BY <1>1 DEF PlainRows
  <2>2. \A k : Moved(f, tab, k).id = f.base[tab] + k /\ Moved(f, tab, k).inst = f.inst
    BY DEF Moved
  <2> HIDE DEF f, b
  <2> QED
    BY <2>1, <2>2 DEF Owned
<1> HIDE DEF f, b, q
<1> QED
  BY <1>2, <1>3, <1>4, <1>5 DEF Has, JobsOf, f, b

\* The rows that evidence a dependency, of an instance that has them.
LEMMA EvidenceMoved ==
    ASSUME NEW b, NEW base, NEW i, NEW N, NEW J, NEW W, Has(base, i, b, N, J, W),
           NEW d \in Dep, \A l \in d.links : l[2] \in 1..Len(b.rows[l[1]])
    PROVE  EvidenceIn(W, i, d, StampLinks(base, d.links))
<1> DEFINE S == StampLinks(base, d.links)
<1>1. d.links \subseteq Plain \X Nat
  BY DEF Dep
<1>2. S = {<<l[1], base[l[1]] + l[2]>> : l \in d.links}
  BY DEF StampLinks
<1>3. {l[1] : l \in S} = {l[1] : l \in d.links}
  <2>1. \A l \in d.links : \E m \in S : m[1] = l[1]
    <3>1. TAKE l \in d.links
    <3>2. <<l[1], base[l[1]] + l[2]>> \in S
      BY <1>2
    <3> QED
      BY <3>2
  <2>2. \A m \in S : \E l \in d.links : m[1] = l[1]
    <3>1. TAKE m \in S
    <3>2. PICK l \in d.links : m = <<l[1], base[l[1]] + l[2]>>
      BY <1>2
    <3> QED
      BY <3>2
  <2> QED
    BY <2>1, <2>2
<1>4. ASSUME NEW l \in S
      PROVE  l[1] \in Plain /\ \E x \in W[l[1]] : x.id = l[2] /\ x.inst = i
  <2>1. PICK m \in d.links : l = <<m[1], base[m[1]] + m[2]>>
    BY <1>2
  <2>2. m[1] \in Plain /\ m[2] \in 1..Len(b.rows[m[1]])
    BY <1>1, <2>1
  <2>3. PICK x \in W[m[1]] : x.id = base[m[1]] + m[2] /\ x.inst = i
    BY <2>2 DEF Has, Owned
  <2> QED
    BY <2>1, <2>2, <2>3
<1> QED
  BY <1>3, <1>4 DEF EvidenceIn

\* A dependency that stays in the occurrence being stamped.
LEMMA InlineIn ==
    ASSUME TypeOK, JobsNumbered, StampRows,
           NEW x \in DepRows(Stamped, BodyOf(Top.tpl))
    PROVE  /\ x.inst = Top.inst /\ x.idx \in Inline(BodyOf(Top.tpl))
           /\ x = InlineDep(Stamped, x.idx)
           /\ RowIn(x, BodyOf(Top.tpl), net', ref', rows')
<1> DEFINE b == BodyOf(Top.tpl)
           f == Stamped
<1>1. /\ stack # <<>> /\ b \in Body /\ Top.tpl \in Tpl /\ f.inst = Top.inst
      /\ f.tpl = Top.tpl /\ f.base["net"] \in Nat
  <2>1. stack # <<>> /\ b \in Body
    BY RowsStamped
  <2> QED
    BY <2>1, TopBody, StampedType DEF Frame, Reserved, TypeOK, Counter
<1>2. PICK i \in Inline(b) : x = InlineDep(f, i)
  BY DEF DepRows
<1>3. PICK d : d = b.deps[i]
  OBVIOUS
<1>4. i \in 1..Len(b.deps) /\ d.src.ref = 0 /\ d.tgt.ref = 0 /\ ~Deferred(d)
  BY <1>2, <1>3 DEF Inline, Deferred
<1>5. d \in Dep
  <2>1. b.deps \in Seq(Dep)
    BY <1>1 DEF Body
  <2> HIDE DEF b
  <2> QED
    BY <1>3, <1>4, <2>1
<1>6. /\ EndLocal(b, d.src) /\ EndLocal(b, d.tgt) /\ d.tgt.net # 0
      /\ \A l \in d.links : l[2] \in 1..Len(b.rows[l[1]])
  <2>1. DepsLocal(b)
    BY <1>1, IndicesLocal DEF TypeOK, BodyOf
  <2> QED
    BY <1>3, <1>4, <2>1 DEF DepsLocal
<1>7. /\ x.inst = f.inst /\ x.idx = i /\ x.srcRef = 0 /\ x.tgtRef = 0
      /\ x.src = StampId(f.base["net"], d.src.net)
      /\ x.tgt = f.base["net"] + d.tgt.net
      /\ x.links = StampLinks(f.base, d.links)
  BY <1>1, <1>2, <1>3 DEF InlineDep
<1>8. Has(f.base, f.inst, b, net', replayJobs', rows')
  BY <1>1, StampedHas
<1>9. PICK base, size : base = f.base["net"] /\ size = Len(b.nets)
  OBVIOUS
<1>10. base \in Nat /\ size \in Nat /\ d.src.net \in 0..size /\ d.tgt.net \in 1..size
  <2>1. size \in Nat
    BY <1>1, <1>9, BodyParts
  <2>2. d.src.net \in 0..size /\ d.tgt.net \in 0..size
    BY <1>6, <1>9 DEF EndLocal
  <2> QED
    BY <1>1, <1>6, <1>9, <2>1, <2>2
<1> HIDE DEF b, f
<1>11. EndIn(net', ref', x.inst, b, d.tgt, x.tgt, x.tgtRef) /\ x.tgt # 0
  <2>1. \E y \in net' : y.id = x.tgt /\ y.inst = x.inst /\ y.name = b.nets[d.tgt.net]
    BY <1>7, <1>8, <1>9, <1>10 DEF Has
  <2>2. x.tgt = base + d.tgt.net
    BY <1>7, <1>9
  <2>3. x.tgt # 0
    BY <1>10, <2>2
  <2> QED
    BY <1>6, <1>7, <2>1, <2>3 DEF EndIn
<1>12. EndIn(net', ref', x.inst, b, d.src, x.src, x.srcRef)
  <2>1. CASE d.src.net = 0
    BY <1>4, <1>7, <2>1 DEF EndIn, StampId
  <2>2. CASE d.src.net # 0
    <3>1. d.src.net \in 1..size /\ x.src = base + d.src.net
      BY <1>7, <1>9, <1>10, <2>2 DEF StampId
    <3>2. \E y \in net' : y.id = x.src /\ y.inst = x.inst /\ y.name = b.nets[d.src.net]
      BY <1>7, <1>8, <1>9, <3>1 DEF Has
    <3> QED
      BY <1>7, <2>2, <3>2 DEF EndIn
  <2> QED
    BY <2>1, <2>2
<1>13. EvidenceIn(rows', x.inst, d, x.links)
  BY <1>5, <1>6, <1>7, <1>8, EvidenceMoved
<1>14. RowIn(x, b, net', ref', rows')
  BY <1>3, <1>4, <1>7, <1>11, <1>12, <1>13 DEF RowIn
<1> QED
  BY <1>1, <1>2, <1>7, <1>14 DEF b, f

\* What a reference resolved to is what its row says.
LEMMA ResolvedRow ==
    ASSUME Distinct(ref), NEW x \in ref
    PROVE  ResolvedNet(x.id) = x.net
  BY DEF Distinct, ResolvedNet

\* The row of a queued reference, once all are written.
LEMMA QueuedRef ==
    ASSUME TypeOK, RefsIssued, RefsHome, RefsResolve, phase \in {"deps", "done"},
           NEW id \in 1..Len(replayJobs)
    PROVE  \E x \in ref : /\ x.id = id /\ x.net = ResolvedNet(id)
                          /\ x.inst = replayJobs[id].inst /\ x.idx = replayJobs[id].idx
                          /\ x.net \in Ids(net) \cup {0}
<1>1. Distinct(ref) /\ id \in Ids(ref)
  BY RefsAll
<1>2. PICK x \in ref : x.id = id
  BY <1>1 DEF Ids
<1>3. ResolvedNet(x.id) = x.net
  BY <1>1, ResolvedRow
<1> QED
  BY <1>2, <1>3 DEF RefsHome, OfJob, RefsResolve

\* An end of a queued dependency.
LEMMA EndOfJob ==
    ASSUME TypeOK, RefsIssued, RefsHome, RefsResolve, phase \in {"deps", "done"},
           NEW job, NEW b, NEW sizeN \in Nat, NEW sizeR \in Nat,
           sizeN = Len(b.nets), sizeR = Len(b.refs),
           job.base["net"] \in Nat, job.base["ref"] \in Nat,
           Has(job.base, job.inst, b, net, replayJobs, rows), NEW e, EndLocal(b, e)
    PROVE  EndIn(net, ref, job.inst, b, e, EndNet(job, e), EndRef(job, e))
<1>1. /\ e.net \in 0..sizeN /\ e.ref \in 0..sizeR
  BY DEF EndLocal
<1>2. CASE e.net # 0
  <2>1. EndNet(job, e) = job.base["net"] + e.net /\ EndRef(job, e) = 0
    BY <1>2 DEF EndNet, EndRef
  <2>2. e.net \in 1..sizeN
    BY <1>1, <1>2
  <2>3. \E x \in net : /\ x.id = job.base["net"] + e.net /\ x.inst = job.inst
                       /\ x.name = b.nets[e.net]
    BY <2>2 DEF Has
  <2> QED
    BY <1>2, <2>1, <2>3 DEF EndIn
<1>3. CASE e.net = 0 /\ e.ref # 0
  <2>1. PICK h : h = job.base["ref"] + e.ref
    OBVIOUS
  <2>2. EndNet(job, e) = ResolvedNet(h) /\ EndRef(job, e) = h
    BY <1>3, <2>1 DEF EndNet, EndRef, StampId
  <2>3. e.ref \in 1..sizeR
    BY <1>1, <1>3
  <2>4. /\ h \in 1..Len(replayJobs)
        /\ replayJobs[h].inst = job.inst /\ replayJobs[h].idx = e.ref
    BY <2>1, <2>3 DEF Has
  <2>5. PICK x \in ref : /\ x.id = h /\ x.net = ResolvedNet(h)
                         /\ x.inst = job.inst /\ x.idx = e.ref
                         /\ x.net \in Ids(net) \cup {0}
    BY <2>4, QueuedRef
  <2> QED
    BY <1>3, <2>2, <2>5 DEF EndIn
<1>4. CASE e.net = 0 /\ e.ref = 0
  <2>1. EndNet(job, e) = 0 /\ EndRef(job, e) = 0
    BY <1>4 DEF EndNet, EndRef, StampId
  <2> QED
    BY <1>4, <2>1 DEF EndIn
<1> QED
  BY <1>2, <1>3, <1>4

\* A queued dependency as the replay writes it.
LEMMA CrossIn ==
    ASSUME TypeOK, RefsIssued, RefsHome, RefsResolve, phase \in {"deps", "done"},
           NEW job, job.tpl \in Tpl,
           JobIn(job, BodyOf(job.tpl), net, replayJobs, rows), NEW id,
           Writable(job, BodyOf(job.tpl).deps[job.idx])
    PROVE  RowIn(CrossRow(id, job, BodyOf(job.tpl).deps[job.idx]), BodyOf(job.tpl),
                 net, ref, rows)
<1>1. PICK b, k : b = BodyOf(job.tpl) /\ k = job.idx
  OBVIOUS
<1>2. PICK d : d = b.deps[k]
  OBVIOUS
<1>3. PICK x : x = CrossRow(id, job, d)
  OBVIOUS
<1>4. /\ b \in Body /\ Len(b.nets) \in Nat /\ Len(b.refs) \in Nat
      /\ k \in 1..Len(b.deps) /\ Has(job.base, job.inst, b, net, replayJobs, rows)
      /\ job.base["net"] \in Nat /\ job.base["ref"] \in Nat
  <2>1. b \in Body
    BY <1>1, BodyType DEF TypeOK
  <2> QED
    BY <1>1, <2>1, BodyParts DEF JobIn, Reserved
<1>5. d \in Dep
  <2>1. b.deps \in Seq(Dep)
    BY <1>4 DEF Body
  <2> QED
    BY <1>2, <1>4, <2>1
<1>6. /\ EndLocal(b, d.src) /\ EndLocal(b, d.tgt)
      /\ \A l \in d.links : l[2] \in 1..Len(b.rows[l[1]])
  <2>1. DepsLocal(b)
    BY <1>1, IndicesLocal DEF TypeOK, BodyOf
  <2> QED
    BY <1>2, <1>4, <2>1 DEF DepsLocal
<1>7. /\ x.inst = job.inst /\ x.idx = k /\ x.links = StampLinks(job.base, d.links)
      /\ x.src = EndNet(job, d.src) /\ x.srcRef = EndRef(job, d.src)
      /\ x.tgt = EndNet(job, d.tgt) /\ x.tgtRef = EndRef(job, d.tgt)
  BY <1>1, <1>3 DEF CrossRow
<1>8. /\ EndIn(net, ref, x.inst, b, d.src, x.src, x.srcRef)
      /\ EndIn(net, ref, x.inst, b, d.tgt, x.tgt, x.tgtRef)
  BY <1>4, <1>6, <1>7, EndOfJob
<1>9. EvidenceIn(rows, x.inst, d, x.links)
  BY <1>4, <1>5, <1>6, <1>7, EvidenceMoved
<1>10. x.tgt # 0 /\ Sourced(d)
  BY <1>1, <1>2, <1>7 DEF Writable, Sourced
<1>11. RowIn(x, b, net, ref, rows)
  BY <1>2, <1>4, <1>7, <1>8, <1>9, <1>10 DEF RowIn
<1> QED
  BY <1>1, <1>2, <1>3, <1>11

-----------------------------------------------------------------------------
(* Which dependencies are there.                                           *)

\* Instance i is the one whose body is stamped next.
Coming(s, i) == Begun(s) = 1 /\ Innermost(s).inst = i

\* Instance i is there, and so is what stamping its body wrote.
Rowed(I, s, i) == i \in Ids(I) /\ ~Coming(s, i)

\* The replay has been at the k-th queued dependency.
Replayed(k) == phase = "done" \/ (phase = "deps" /\ k <= cursor)

Alike(x, y) == x.inst = y.inst /\ x.idx = y.idx

DepsTold ==
    \A x \in dep : \E t \in Tpl :
      OfTpl(inst, x.inst, t) /\ RowIn(x, design.body[t], net, ref, rows)

JobsTold ==
    \A m \in 1..Len(crossJobs) :
      /\ crossJobs[m].tpl \in Tpl
      /\ OfTpl(inst, crossJobs[m].inst, crossJobs[m].tpl)
      /\ JobIn(crossJobs[m], BodyOf(crossJobs[m].tpl), net, replayJobs, rows)

AllRowed ==
    /\ \A x \in dep : Rowed(inst, stack, x.inst)
    /\ \A m \in 1..Len(crossJobs) : Rowed(inst, stack, crossJobs[m].inst)
    /\ \A m \in 1..Len(replayJobs) : Rowed(inst, stack, replayJobs[m].inst)

JobsOnce ==
    /\ \A m, n \in 1..Len(crossJobs) : Alike(crossJobs[m], crossJobs[n]) => m = n
    /\ \A m, n \in 1..Len(replayJobs) : Alike(replayJobs[m], replayJobs[n]) => m = n

DepsOnce == \A x, y \in dep : Alike(x, y) => x = y

\* The m-th queued dependency is one to write.
ToWrite(m) == Writable(crossJobs[m], BodyOf(crossJobs[m].tpl).deps[crossJobs[m].idx])

\* A queued dependency has no row before its turn, and has one after it if it
\* is one to write.
DepsReplayed ==
    \A m \in 1..Len(crossJobs) :
      /\ \A x \in dep : Alike(x, crossJobs[m]) => Replayed(m)
      /\ Replayed(m) /\ ToWrite(m) => \E x \in dep : Alike(x, crossJobs[m])

\* Each dependency of a stamped body has its row or is queued.
AllFiled ==
    \A z \in inst : \A t : z.tpl = {t} =>
      \/ Coming(stack, z.id)
      \/ \A k \in 1..Len(design.body[t].deps) :
           \/ \E x \in dep : x.inst = z.id /\ x.idx = k
           \/ /\ Deferred(design.body[t].deps[k])
              /\ \E m \in 1..Len(crossJobs) :
                   crossJobs[m].inst = z.id /\ crossJobs[m].idx = k

DepsInv == /\ DepsTold /\ JobsTold /\ AllRowed /\ JobsOnce
           /\ DepsOnce /\ DepsReplayed /\ AllFiled

LEMMA DepsInit == Init => DepsInv
<1> SUFFICES ASSUME Init PROVE DepsInv
  OBVIOUS
<1>1. dep = {} /\ inst = {} /\ Len(crossJobs) = 0 /\ Len(replayJobs) = 0
  BY DEF Init
<1>2. 1..Len(crossJobs) = {} /\ 1..Len(replayJobs) = {}
  BY <1>1
<1> QED
  BY <1>1, <1>2 DEF DepsInv, DepsTold, JobsTold, AllRowed, JobsOnce, DepsOnce,
                    DepsReplayed, AllFiled

\* What the steps make the next body.
LEMMA ComingMoves ==
    ASSUME TypeOK, PathInv
    PROVE  /\ StampTop => \A i : ~Coming(stack, i) /\ (Coming(stack', i) <=> i = TopInst.id)
           /\ StampChildModule =>
                \A i : ~Coming(stack, i) /\ (Coming(stack', i) <=> i = ChildInst.id)
           /\ StampRows =>
                \A i : (Coming(stack, i) <=> i = Top.inst) /\ ~Coming(stack', i)
           /\ CutRecursion \/ EnterChildren \/ StampConns \/ StampUnresolved \/ Return =>
                \A i : ~Coming(stack, i) /\ ~Coming(stack', i)
           /\ StampPackage \/ ResolveRef \/ CrossDep \/ Advance \/ UNCHANGED vars =>
                \A i : Coming(stack', i) <=> Coming(stack, i)
<1>1. ASSUME StampTop
      PROVE  \A i : ~Coming(stack, i) /\ (Coming(stack', i) <=> i = TopInst.id)
  <2>1. Begun(stack) = 0 /\ Begun(stack') = 1
    BY <1>1, StagesMove
  <2>2. Innermost(stack').inst = last["node"] + 1
    <3>1. PICK f : f = NewFrame(design.tops[cursor + 1].tpl, last["node"] + 1, {})
      OBVIOUS
    <3>2. Len(stack') = 1 /\ stack'[1] = f
      BY <1>1, <3>1, StackOfTop
    <3>3. f.inst = last["node"] + 1
      BY <3>1, NewFrameFields
    <3> QED
      BY <3>2, <3>3 DEF Innermost
  <2>3. TopInst.id = last["node"] + 1
    BY DEF TopInst, InstRow
  <2> QED
    BY <2>1, <2>2, <2>3 DEF Coming
<1>2. ASSUME StampChildModule
      PROVE  \A i : ~Coming(stack, i) /\ (Coming(stack', i) <=> i = ChildInst.id)
  <2>1. Begun(stack) = 0 /\ Begun(stack') = 1
    BY <1>2, StagesMove
  <2>2. Innermost(stack').inst = ChildId
    <3>1. stack # <<>>
      BY <1>2, OnStack
    <3>2. Len(stack') = Len(stack) + 1 /\ stack'[Len(stack) + 1] = ChildFrame
      BY <1>2, <3>1, StackMoves
    <3>3. ChildFrame.inst = ChildId
      BY NewFrameFields DEF ChildFrame
    <3> QED
      BY <3>2, <3>3 DEF Innermost
  <2>3. ChildInst.id = ChildId
    BY DEF ChildInst, InstRow
  <2> QED
    BY <2>1, <2>2, <2>3 DEF Coming
<1>3. ASSUME StampRows
      PROVE  \A i : (Coming(stack, i) <=> i = Top.inst) /\ ~Coming(stack', i)
  <2>1. Begun(stack) = 1 /\ Begun(stack') = 0
    BY <1>3, StagesMove
  <2> QED
    BY <2>1 DEF Coming, Innermost, Top
<1>4. ASSUME CutRecursion \/ EnterChildren \/ StampConns \/ StampUnresolved \/ Return
      PROVE  \A i : ~Coming(stack, i) /\ ~Coming(stack', i)
  <2>1. Begun(stack) = 0 /\ Begun(stack') = 0
    BY <1>4, StagesMove
  <2> QED
    BY <2>1 DEF Coming
<1>5. ASSUME StampPackage \/ ResolveRef \/ CrossDep \/ Advance \/ UNCHANGED vars
      PROVE  \A i : Coming(stack', i) <=> Coming(stack, i)
  <2>1. stack' = stack
    BY <1>5, StackStays
  <2> QED
    BY <2>1 DEF Coming
<1> QED
  BY <1>1, <1>2, <1>3, <1>4, <1>5

\* An instance that is there is not the next to come.
LEMMA ThereNotComing ==
    ASSUME TypeOK, PathInv, NodesIssued, InstsOnce, [Next]_vars, NEW i \in Ids(inst),
           Coming(stack', i)
    PROVE  Coming(stack, i)
<1>1. CASE StampTop
  <2>1. i = TopInst.id /\ TopInst.id \notin Ids(inst)
    BY <1>1, ComingMoves, InstsMove DEF NewInst
  <2> QED
    BY <2>1
<1>2. CASE StampChildModule
  <2>1. i = ChildInst.id /\ ChildInst.id \notin Ids(inst)
    BY <1>2, ComingMoves, InstsMove DEF NewInst
  <2> QED
    BY <2>1
<1>3. CASE StampRows \/ CutRecursion \/ EnterChildren \/ StampConns \/ StampUnresolved
             \/ Return
  BY <1>3, ComingMoves
<1>4. CASE StampPackage \/ ResolveRef \/ CrossDep \/ Advance \/ UNCHANGED vars
  BY <1>4, ComingMoves
<1> QED
  BY <1>1, <1>2, <1>3, <1>4 DEF Next

LEMMA RowedStill ==
    ASSUME TypeOK, PathInv, NodesIssued, InstsOnce, JobsNumbered, [Next]_vars, NEW i,
           Rowed(inst, stack, i)
    PROVE  Rowed(inst', stack', i)
<1>1. i \in Ids(inst) /\ ~Coming(stack, i)
  BY DEF Rowed
<1>2. i \in Ids(inst')
  BY <1>1, Grows DEF Grown, Ids
<1> QED
  BY <1>1, <1>2, ThereNotComing DEF Rowed

LEMMA OfTplStill ==
    ASSUME Grown, NEW i, NEW t, OfTpl(inst, i, t)
    PROVE  OfTpl(inst', i, t)
  BY DEF Grown, OfTpl

\* The steps that neither write a dependency nor queue one.
Quiet ==
    /\ UNCHANGED <<dep, crossJobs, replayJobs>>
    /\ \A m \in 1..Len(crossJobs) : Replayed(m)' => Replayed(m) /\ ref' = ref
    /\ \A m \in 1..Len(crossJobs) : Replayed(m) => Replayed(m)'

LEMMA QuietSteps ==
    ASSUME TypeOK, JobsNumbered, [Next]_vars
    PROVE  StampRows \/ CrossDep \/ Quiet
<1>1. ASSUME StampTop \/ CutRecursion \/ EnterChildren \/ StampChildModule \/ StampConns
               \/ StampUnresolved \/ Return \/ StampPackage \/ UNCHANGED vars
      PROVE  Quiet
  <2>1. UNCHANGED <<dep, crossJobs, replayJobs, phase, ref>>
    BY <1>1 DEF StampTop, CutRecursion, EnterChildren, StampChildModule, StampConns,
                StampUnresolved, Return, StampPackage, vars, dbVars
  <2>2. phase \notin {"deps", "done"} \/ cursor' = cursor
    BY <1>1 DEF StampTop, CutRecursion, EnterChildren, StampChildModule, StampConns,
                StampUnresolved, Return, StampPackage, vars, At, ChildDue
  <2> QED
    BY <2>1, <2>2 DEF Quiet, Replayed
<1>2. ASSUME ResolveRef PROVE Quiet
  <2>1. UNCHANGED <<dep, crossJobs, replayJobs, phase>> /\ phase = "refs"
    BY <1>2 DEF ResolveRef
  <2> QED
    BY <2>1 DEF Quiet, Replayed
<1>3. ASSUME Advance PROVE Quiet
  <2>1. /\ UNCHANGED <<dep, crossJobs, replayJobs, ref>>
        /\ cursor = Work /\ cursor' = 0 /\ phase # "done"
    BY <1>3 DEF Advance, dbVars
  <2>2. \/ phase \in {"tree", "packages", "refs"} /\ phase' \in {"packages", "refs", "deps"}
        \/ phase = "deps" /\ phase' = "done" /\ cursor = Len(crossJobs)
    BY <1>3 DEF Advance, Work, TypeOK
  <2>3. ASSUME NEW m \in 1..Len(crossJobs)
        PROVE  (Replayed(m)' => Replayed(m)) /\ (Replayed(m) => Replayed(m)')
    <3>1. PICK l : l = Len(crossJobs)
      OBVIOUS
    <3>2. l \in Nat
      BY <3>1 DEF JobsNumbered
    <3>3. m \in Nat /\ m >= 1 /\ m <= l
      BY <3>1, <3>2
    <3> QED
      BY <2>1, <2>2, <3>1, <3>3 DEF Replayed
  <2> QED
    BY <2>1, <2>3 DEF Quiet
<1> QED
  BY <1>1, <1>2, <1>3 DEF Next

\* The occurrence that stamps its body is of its template.
LEMMA TopOfTpl ==
    ASSUME TypeOK, PathInv, NodesIssued, TreeNumbered, BoundInv, StampRows
    PROVE  /\ OfTpl(inst, Top.inst, Top.tpl) /\ Top.tpl \in Tpl /\ Top.inst \in Nat
           /\ Top.inst \in Ids(inst)
<1>1. stack # <<>>
  BY OnStack
<1>2. FrameTied(Top, inst, term, conn, design)
  BY <1>1, TopTied
<1>3. \E r \in inst : r.id = Top.inst /\ r.tpl = {Top.tpl}
  BY <1>2 DEF FrameTied
<1> QED
  BY <1>1, <1>3, Innermost1 DEF OfTpl, Ids

\* The queues after a body is stamped: what was there, and what it queues.
LEMMA QueuesGrow ==
    ASSUME TypeOK, JobsNumbered, StampRows, NEW b, b = BodyOf(Top.tpl)
    PROVE  /\ \A m \in 1..Len(crossJobs') :
                \/ m \in 1..Len(crossJobs) /\ crossJobs'[m] = crossJobs[m]
                \/ \E k \in 1..Len(Queued(b)) :
                     /\ m = Len(crossJobs) + k
                     /\ crossJobs'[m] = [tpl |-> Top.tpl, idx |-> Queued(b)[k],
                                         base |-> Stamped.base, inst |-> Top.inst]
                     /\ crossJobs'[m].inst = Top.inst /\ crossJobs'[m].idx = Queued(b)[k]
           /\ \A k \in 1..Len(Queued(b)) : \E m \in 1..Len(crossJobs') :
                crossJobs'[m].inst = Top.inst /\ crossJobs'[m].idx = Queued(b)[k]
           /\ \A m \in 1..Len(replayJobs') :
                \/ m \in 1..Len(replayJobs) /\ replayJobs'[m] = replayJobs[m]
                \/ \E k \in 1..Len(b.refs) :
                     /\ m = Len(replayJobs) + k
                     /\ replayJobs'[m].inst = Top.inst /\ replayJobs'[m].idx = k
<1>1. /\ stack # <<>> /\ crossJobs' = crossJobs \o DepJobs(Stamped, b)
      /\ replayJobs' = replayJobs \o RefJobs(Stamped, b)
  BY RowsStamped
<1>2. PICK u, v : u = crossJobs /\ v = DepJobs(Stamped, b)
  OBVIOUS
<1>3. PICK p, q : p = replayJobs /\ q = RefJobs(Stamped, b)
  OBVIOUS
<1>4. /\ u \in Seq(DepJob) /\ v \in Seq(DepJob) /\ Len(v) = Len(Queued(b))
      /\ p \in Seq(RefJob) /\ q \in Seq(RefJob) /\ Len(q) = Len(b.refs)
  BY <1>1, <1>2, <1>3, JobsType DEF JobsNumbered
<1>5. ASSUME NEW k \in 1..Len(Queued(b))
      PROVE  /\ v[k] = [tpl |-> Top.tpl, idx |-> Queued(b)[k],
                        base |-> Stamped.base, inst |-> Top.inst]
             /\ v[k].inst = Top.inst /\ v[k].idx = Queued(b)[k]
  <2>1. PICK r : r = v[k]
    OBVIOUS
  <2>2. r = [tpl |-> Top.tpl, idx |-> Queued(b)[k],
             base |-> Stamped.base, inst |-> Top.inst]
    BY <1>1, <1>2, <2>1, JobsType
  <2>3. r.inst = Top.inst /\ r.idx = Queued(b)[k]
    BY <2>2
  <2> QED
    BY <2>1, <2>2, <2>3
<1>6. ASSUME NEW k \in 1..Len(b.refs)
      PROVE  q[k].inst = Top.inst /\ q[k].idx = k
  <2>1. PICK r : r = q[k]
    OBVIOUS
  <2>2. r = [id |-> last["ref"] + k, inst |-> Top.inst, tpl |-> Top.tpl,
             idx |-> k, bind |-> Top.bind]
    BY <1>1, <1>3, <2>1, JobsType
  <2>3. r.inst = Top.inst /\ r.idx = k
    BY <2>2
  <2> QED
    BY <2>1, <2>3
<1>7. ASSUME NEW m \in 1..Len(crossJobs')
      PROVE  \/ m \in 1..Len(crossJobs) /\ crossJobs'[m] = crossJobs[m]
             \/ \E k \in 1..Len(Queued(b)) :
                     /\ m = Len(crossJobs) + k
                     /\ crossJobs'[m] = [tpl |-> Top.tpl, idx |-> Queued(b)[k],
                                         base |-> Stamped.base, inst |-> Top.inst]
                     /\ crossJobs'[m].inst = Top.inst /\ crossJobs'[m].idx = Queued(b)[k]
  <2>1. m \in 1..Len(u \o v)
    BY <1>1, <1>2
  <2>2. m \in 1..Len(u) \/ \E k \in 1..Len(v) : m = Len(u) + k
    <3>1. \A j \in 1..Len(u \o v) :
            j \in 1..Len(u) \/ \E k \in 1..Len(v) : j = Len(u) + k
      BY <1>4, Concat
    <3> QED
      BY <2>1, <3>1
  <2>3. \A k \in 1..Len(u) : k \in 1..Len(u \o v) /\ (u \o v)[k] = u[k]
    BY <1>4, Concat
  <2>6. \A k \in 1..Len(v) : /\ Len(u) + k \in 1..Len(u \o v)
                             /\ (u \o v)[Len(u) + k] = v[k]
    BY <1>4, Concat
  <2>4. CASE m \in 1..Len(u)
    BY <1>1, <1>2, <2>3, <2>4
  <2>5. ASSUME NEW k \in 1..Len(v), m = Len(u) + k
        PROVE  \E j \in 1..Len(Queued(b)) :
                     /\ m = Len(crossJobs) + j
                     /\ crossJobs'[m] = [tpl |-> Top.tpl, idx |-> Queued(b)[j],
                                         base |-> Stamped.base, inst |-> Top.inst]
                     /\ crossJobs'[m].inst = Top.inst /\ crossJobs'[m].idx = Queued(b)[j]
    <3>1. crossJobs'[m] = v[k]
      BY <1>1, <1>2, <2>6, <2>5
    <3>2. k \in 1..Len(Queued(b))
      BY <1>4, <2>5
    <3> QED
      BY <1>2, <1>5, <2>5, <3>1, <3>2
  <2> QED
    BY <2>2, <2>4, <2>5
<1>8. ASSUME NEW k \in 1..Len(Queued(b))
      PROVE  \E m \in 1..Len(crossJobs') :
               crossJobs'[m].inst = Top.inst /\ crossJobs'[m].idx = Queued(b)[k]
  <2>1. \A j \in 1..Len(v) : /\ Len(u) + j \in 1..Len(u \o v)
                             /\ (u \o v)[Len(u) + j] = v[j]
    BY <1>4, Concat
  <2>2. /\ Len(u) + k \in 1..Len(crossJobs') /\ crossJobs'[Len(u) + k] = v[k]
    BY <1>1, <1>2, <1>4, <2>1
  <2>3. v[k].inst = Top.inst /\ v[k].idx = Queued(b)[k]
    BY <1>5
  <2> QED
    BY <2>2, <2>3
<1>9. ASSUME NEW m \in 1..Len(replayJobs')
      PROVE  \/ m \in 1..Len(replayJobs) /\ replayJobs'[m] = replayJobs[m]
             \/ \E k \in 1..Len(b.refs) :
                     /\ m = Len(replayJobs) + k
                     /\ replayJobs'[m].inst = Top.inst /\ replayJobs'[m].idx = k
  <2>1. m \in 1..Len(p \o q)
    BY <1>1, <1>3
  <2>2. m \in 1..Len(p) \/ \E k \in 1..Len(q) : m = Len(p) + k
    <3>1. \A j \in 1..Len(p \o q) :
            j \in 1..Len(p) \/ \E k \in 1..Len(q) : j = Len(p) + k
      <4>1. p \in Seq(RefJob) /\ q \in Seq(RefJob)
        BY <1>4
      <4> QED
        BY <4>1, Concat
    <3> QED
      BY <2>1, <3>1
  <2>3. \A k \in 1..Len(p) : k \in 1..Len(p \o q) /\ (p \o q)[k] = p[k]
    BY <1>4, Concat
  <2>6. \A k \in 1..Len(q) : /\ Len(p) + k \in 1..Len(p \o q)
                             /\ (p \o q)[Len(p) + k] = q[k]
    BY <1>4, Concat
  <2>4. CASE m \in 1..Len(p)
    BY <1>1, <1>3, <2>3, <2>4
  <2>5. ASSUME NEW k \in 1..Len(q), m = Len(p) + k
        PROVE  replayJobs'[m].inst = Top.inst /\ replayJobs'[m].idx = k
    <3>1. replayJobs'[m] = q[k]
      BY <1>1, <1>3, <2>6, <2>5
    <3>2. q[k].inst = Top.inst /\ q[k].idx = k
      BY <1>4, <1>6, <2>5
    <3> QED
      BY <3>1, <3>2
  <2> QED
    BY <1>3, <1>4, <2>2, <2>4, <2>5
<1> QED
  BY <1>7, <1>8, <1>9

\* What is queued was deferred by its body.
LEMMA QueuedDeferred ==
    ASSUME TypeOK, JobsNumbered, StampRows, NEW b, b = BodyOf(Top.tpl)
    PROVE  /\ \A k \in 1..Len(Queued(b)) :
                /\ Queued(b)[k] \in 1..Len(b.deps) /\ Queued(b)[k] \notin Inline(b)
                /\ Deferred(b.deps[Queued(b)[k]])
           /\ \A j \in 1..Len(b.deps) :
                j \in Inline(b) \/ \E k \in 1..Len(Queued(b)) : Queued(b)[k] = j
           /\ \A j, k \in 1..Len(Queued(b)) : Queued(b)[j] = Queued(b)[k] => j = k
           /\ \A j \in Inline(b) : ~Deferred(b.deps[j])
<1>1. stack # <<>>
  BY OnStack
<1>2. PICK q, S : q = Queued(b) /\ S = (1..Len(b.deps)) \ Inline(b)
  OBVIOUS
<1>3. /\ q \in Seq(S) /\ \A i \in S : \E k \in 1..Len(q) : q[k] = i
      /\ \A j, k \in 1..Len(q) : q[j] = q[k] => j = k
  BY <1>1, <1>2, JobsType
<1>4. \A k \in 1..Len(q) : q[k] \in S
  BY <1>3, ElementType
<1>5. /\ \A i \in 1..Len(b.deps) : i \in Inline(b) <=> ~Deferred(b.deps[i])
      /\ \A i \in Inline(b) : ~Deferred(b.deps[i])
  BY DEF Inline
<1>6. \A k \in 1..Len(q) : /\ q[k] \in 1..Len(b.deps) /\ q[k] \notin Inline(b)
                           /\ Deferred(b.deps[q[k]])
  BY <1>2, <1>4, <1>5
<1>7. \A i \in 1..Len(b.deps) : i \in Inline(b) \/ \E k \in 1..Len(q) : q[k] = i
  BY <1>2, <1>3
<1> QED
  BY <1>2, <1>3, <1>5, <1>6, <1>7

LEMMA JobsToldStep ==
    ASSUME TypeOK, PathInv, NodesIssued, TreeNumbered, BoundInv, JobsNumbered, JobsTold,
           [Next]_vars
    PROVE  JobsTold'
<1>1. Grown /\ design' = design
  BY Grows DEF Grown
<1>2. \A t : design'.body[t] = BodyOf(t)
  BY <1>1 DEF BodyOf
<1>3. ASSUME NEW m \in 1..Len(crossJobs), crossJobs'[m] = crossJobs[m]
      PROVE  /\ crossJobs'[m].tpl \in Tpl
             /\ OfTpl(inst', crossJobs'[m].inst, crossJobs'[m].tpl)
             /\ JobIn(crossJobs'[m], design'.body[crossJobs'[m].tpl], net', replayJobs', rows')
  <2>1. PICK job, b : job = crossJobs[m] /\ b = BodyOf(job.tpl)
    OBVIOUS
  <2>2. job.tpl \in Tpl /\ OfTpl(inst, job.inst, job.tpl)
        /\ JobIn(job, b, net, replayJobs, rows)
    BY <2>1 DEF JobsTold
  <2>3. OfTpl(inst', job.inst, job.tpl)
    BY <1>1, <2>2, OfTplStill
  <2>4. Has(job.base, job.inst, b, net', replayJobs', rows')
    BY <1>1, <2>2, HasStill DEF JobIn
  <2>5. JobIn(job, b, net', replayJobs', rows')
    BY <2>2, <2>4 DEF JobIn
  <2> QED
    BY <1>2, <1>3, <2>1, <2>2, <2>3, <2>5
<1>4. CASE StampRows
  <2>1. PICK b : b = BodyOf(Top.tpl)
    OBVIOUS
  <2>2. ASSUME NEW m \in 1..Len(crossJobs'), NEW k \in 1..Len(Queued(b)),
               crossJobs'[m] = [tpl |-> Top.tpl, idx |-> Queued(b)[k],
                                base |-> Stamped.base, inst |-> Top.inst]
        PROVE  /\ crossJobs'[m].tpl \in Tpl
               /\ OfTpl(inst', crossJobs'[m].inst, crossJobs'[m].tpl)
               /\ JobIn(crossJobs'[m], design'.body[crossJobs'[m].tpl], net', replayJobs', rows')
    <3>1. PICK job : job = crossJobs'[m]
      OBVIOUS
    <3>2. /\ job.tpl = Top.tpl /\ job.idx = Queued(b)[k] /\ job.base = Stamped.base
          /\ job.inst = Top.inst
      BY <2>2, <3>1
    <3>3. Top.tpl \in Tpl /\ Top.inst \in Nat /\ OfTpl(inst', Top.inst, Top.tpl)
      BY <1>1, <1>4, TopOfTpl, OfTplStill
    <3>4. Stamped.base \in [Reserved -> Nat]
      BY <1>4, OnStack, StampedType
    <3>5. Has(Stamped.base, Top.inst, b, net', replayJobs', rows')
      BY <1>4, <2>1, StampedHas
    <3>6. Queued(b)[k] \in 1..Len(b.deps) /\ Deferred(b.deps[Queued(b)[k]])
      BY <1>4, <2>1, QueuedDeferred
    <3>7. JobIn(job, b, net', replayJobs', rows')
      BY <3>2, <3>3, <3>4, <3>5, <3>6 DEF JobIn
    <3>8. design'.body[job.tpl] = b
      BY <1>2, <2>1, <3>2
    <3> QED
      BY <3>1, <3>2, <3>3, <3>7, <3>8
  <2>3. \A m \in 1..Len(crossJobs') :
          \/ m \in 1..Len(crossJobs) /\ crossJobs'[m] = crossJobs[m]
          \/ \E k \in 1..Len(Queued(b)) :
               crossJobs'[m] = [tpl |-> Top.tpl, idx |-> Queued(b)[k],
                                base |-> Stamped.base, inst |-> Top.inst]
    BY <1>4, <2>1, QueuesGrow
  <2> QED
    BY <1>3, <2>2, <2>3 DEF JobsTold, BodyOf
<1>5. CASE ~StampRows
  <2>1. crossJobs' = crossJobs
    BY <1>5, QuietSteps DEF Quiet, CrossDep
  <2> QED
    BY <1>3, <2>1 DEF JobsTold, BodyOf
<1> QED
  BY <1>4, <1>5

LEMMA DepsToldStep ==
    ASSUME TypeOK, PathInv, NodesIssued, TreeNumbered, BoundInv, RefsIssued, RefsHome,
           RefsResolve, JobsTold, DepsTold, [Next]_vars
    PROVE  DepsTold'
<1>1. Grown /\ design' = design /\ JobsNumbered
  BY Grows DEF Grown, RefsIssued
<1>2. ASSUME NEW x \in dep
      PROVE  \E t \in Tpl : OfTpl(inst', x.inst, t) /\ RowIn(x, design'.body[t], net', ref', rows')
  <2>1. PICK t \in Tpl : OfTpl(inst, x.inst, t) /\ RowIn(x, design.body[t], net, ref, rows)
    BY DEF DepsTold
  <2> QED
    BY <1>1, <2>1, OfTplStill, RowStill
<1>3. CASE StampRows
  <2>1. dep' = dep \cup DepRows(Stamped, BodyOf(Top.tpl))
    BY <1>3, RowsStamped
  <2>2. Top.tpl \in Tpl /\ OfTpl(inst', Top.inst, Top.tpl)
    BY <1>1, <1>3, TopOfTpl, OfTplStill
  <2>3. ASSUME NEW x \in DepRows(Stamped, BodyOf(Top.tpl))
        PROVE  x.inst = Top.inst /\ RowIn(x, design'.body[Top.tpl], net', ref', rows')
    BY <1>1, <1>3, InlineIn DEF BodyOf
  <2> QED
    BY <1>2, <2>1, <2>2, <2>3 DEF DepsTold
<1>4. CASE CrossDep
  <2>1. PICK job, d : job = crossJobs[cursor + 1] /\ d = BodyOf(job.tpl).deps[job.idx]
    OBVIOUS
  <2>2. /\ phase = "deps" /\ cursor + 1 \in 1..Len(crossJobs)
        /\ UNCHANGED <<inst, net, ref, rows>>
        /\ \/ dep' = dep
           \/ /\ Writable(job, d)
              /\ dep' = dep \cup {CrossRow(last["dep"] + 1, job, d)}
    <3>1. phase = "deps" /\ cursor < Len(crossJobs) /\ UNCHANGED <<inst, net, ref, rows>>
      BY <1>4 DEF CrossDep
    <3>2. cursor \in Nat /\ Len(crossJobs) \in Nat
      BY <1>1 DEF TypeOK, JobsNumbered
    <3>3. \/ dep' = dep
          \/ Writable(job, d) /\ dep' = dep \cup {CrossRow(last["dep"] + 1, job, d)}
      BY <1>4, <2>1 DEF CrossDep
    <3> QED
      BY <3>1, <3>2, <3>3
  <2>3. /\ job.tpl \in Tpl /\ OfTpl(inst, job.inst, job.tpl)
        /\ JobIn(job, BodyOf(job.tpl), net, replayJobs, rows)
    BY <2>1, <2>2 DEF JobsTold
  <2>4. PICK x : x = CrossRow(last["dep"] + 1, job, d)
    OBVIOUS
  <2>5. x.inst = job.inst
    BY <2>4 DEF CrossRow
  <2>6. Writable(job, d) => RowIn(x, design'.body[job.tpl], net', ref', rows')
    BY <1>1, <2>1, <2>2, <2>3, <2>4, CrossIn DEF BodyOf
  <2> QED
    BY <1>2, <2>2, <2>3, <2>4, <2>5, <2>6 DEF DepsTold
<1>5. CASE Quiet
  BY <1>2, <1>5 DEF Quiet, DepsTold
<1> QED
  BY <1>1, <1>3, <1>4, <1>5, QuietSteps

\* What a body under way has is still to come.
LEMMA RowsRowed ==
    ASSUME TypeOK, PathInv, NodesIssued, TreeNumbered, BoundInv, StampRows
    PROVE  Rowed(inst', stack', Top.inst) /\ ~Rowed(inst, stack, Top.inst)
<1>1. inst' = inst /\ Top.inst \in Ids(inst)
  <2>1. inst' = inst
    BY RowsStamped
  <2> QED
    BY <2>1, TopOfTpl
<1>2. Coming(stack, Top.inst) /\ ~Coming(stack', Top.inst)
  BY ComingMoves
<1> QED
  BY <1>1, <1>2 DEF Rowed

\* The row of the next queued dependency.
LEMMA CrossMoves ==
    ASSUME TypeOK, JobsNumbered, CrossDep
    PROVE  /\ phase = "deps" /\ phase' = "deps" /\ cursor' = cursor + 1 /\ ref' = ref
           /\ cursor \in Nat /\ cursor + 1 \in 1..Len(crossJobs)
           /\ Len(crossJobs) \in Nat
           /\ UNCHANGED <<design, inst, net, rows, stack, crossJobs, replayJobs>>
           /\ \/ ToWrite(cursor + 1) /\ \E x : dep' = dep \cup {x} /\ Alike(x, crossJobs[cursor + 1])
              \/ ~ToWrite(cursor + 1) /\ dep' = dep
<1>1. PICK job, d : job = crossJobs[cursor + 1] /\ d = BodyOf(job.tpl).deps[job.idx]
  OBVIOUS
<1>2. /\ phase = "deps" /\ cursor < Len(crossJobs) /\ cursor' = cursor + 1
      /\ UNCHANGED <<phase, ref, design, inst, net, rows, stack, crossJobs, replayJobs>>
  BY DEF CrossDep
<1>3. cursor \in Nat /\ Len(crossJobs) \in Nat
  BY DEF TypeOK, JobsNumbered
<1>4. \/ Writable(job, d) /\ dep' = dep \cup {CrossRow(last["dep"] + 1, job, d)}
      \/ ~Writable(job, d) /\ dep' = dep
  BY <1>1 DEF CrossDep
<1>5. PICK x : x = CrossRow(last["dep"] + 1, job, d)
  OBVIOUS
<1>6. Alike(x, job)
  BY <1>5 DEF Alike, CrossRow
<1>7. cursor + 1 \in 1..Len(crossJobs)
  BY <1>2, <1>3
<1> QED
  BY <1>1, <1>2, <1>3, <1>4, <1>5, <1>6, <1>7 DEF ToWrite

LEMMA AllRowedStep ==
    ASSUME TypeOK, PathInv, NodesIssued, InstsOnce, TreeNumbered, BoundInv, JobsNumbered,
           AllRowed, [Next]_vars
    PROVE  AllRowed'
<1>1. \A i : Rowed(inst, stack, i) => Rowed(inst', stack', i)
  BY RowedStill
<1>2. CASE StampRows
  <2>1. PICK b : b = BodyOf(Top.tpl)
    OBVIOUS
  <2>2. Rowed(inst', stack', Top.inst)
    BY <1>2, RowsRowed
  <2>3. \A x \in dep' : x \in dep \/ x.inst = Top.inst
    <3>1. dep' = dep \cup DepRows(Stamped, b)
      BY <1>2, <2>1, RowsStamped
    <3>2. \A x \in DepRows(Stamped, b) : x.inst = Top.inst
      BY <1>2, <2>1, InlineIn
    <3> QED
      BY <3>1, <3>2
  <2>4. \A m \in 1..Len(crossJobs') :
          \/ m \in 1..Len(crossJobs) /\ crossJobs'[m] = crossJobs[m]
          \/ crossJobs'[m].inst = Top.inst
    BY <1>2, <2>1, QueuesGrow
  <2>5. \A m \in 1..Len(replayJobs') :
          \/ m \in 1..Len(replayJobs) /\ replayJobs'[m] = replayJobs[m]
          \/ replayJobs'[m].inst = Top.inst
    BY <1>2, <2>1, QueuesGrow
  <2> QED
    BY <1>1, <2>2, <2>3, <2>4, <2>5 DEF AllRowed
<1>3. CASE CrossDep
  <2>1. /\ crossJobs' = crossJobs /\ replayJobs' = replayJobs
        /\ cursor + 1 \in 1..Len(crossJobs)
        /\ \A x \in dep' : x \in dep \/ x.inst = crossJobs[cursor + 1].inst
    BY <1>3, CrossMoves DEF Alike
  <2> QED
    BY <1>1, <2>1 DEF AllRowed
<1>4. CASE Quiet
  BY <1>1, <1>4 DEF Quiet, AllRowed
<1> QED
  BY <1>2, <1>3, <1>4, QuietSteps

LEMMA JobsOnceStep ==
    ASSUME TypeOK, PathInv, NodesIssued, TreeNumbered, BoundInv, JobsNumbered,
           AllRowed, JobsOnce, [Next]_vars
    PROVE  JobsOnce'
<1>1. CASE StampRows
  <2>1. PICK b : b = BodyOf(Top.tpl)
    OBVIOUS
  <2>2. ~Rowed(inst, stack, Top.inst)
    BY <1>1, RowsRowed
  <2>3. /\ \A m \in 1..Len(crossJobs) : crossJobs[m].inst # Top.inst
        /\ \A m \in 1..Len(replayJobs) : replayJobs[m].inst # Top.inst
    BY <2>2 DEF AllRowed
  <2>4. \A m \in 1..Len(crossJobs') :
          \/ m \in 1..Len(crossJobs) /\ crossJobs'[m] = crossJobs[m]
          \/ \E k \in 1..Len(Queued(b)) :
               /\ m = Len(crossJobs) + k
               /\ crossJobs'[m].inst = Top.inst /\ crossJobs'[m].idx = Queued(b)[k]
    BY <1>1, <2>1, QueuesGrow
  <2>5. \A m \in 1..Len(replayJobs') :
          \/ m \in 1..Len(replayJobs) /\ replayJobs'[m] = replayJobs[m]
          \/ \E k \in 1..Len(b.refs) :
               /\ m = Len(replayJobs) + k
               /\ replayJobs'[m].inst = Top.inst /\ replayJobs'[m].idx = k
    BY <1>1, <2>1, QueuesGrow
  <2>6. \A j, k \in 1..Len(Queued(b)) : Queued(b)[j] = Queued(b)[k] => j = k
    BY <1>1, <2>1, QueuedDeferred
  <2>7. ASSUME NEW m \in 1..Len(crossJobs'), NEW n \in 1..Len(crossJobs'),
               Alike(crossJobs'[m], crossJobs'[n])
        PROVE  m = n
    <3>1. crossJobs'[m].inst = crossJobs'[n].inst /\ crossJobs'[m].idx = crossJobs'[n].idx
      BY <2>7 DEF Alike
    <3>2. CASE crossJobs'[m].inst # Top.inst
      <4>1. /\ m \in 1..Len(crossJobs) /\ crossJobs'[m] = crossJobs[m]
            /\ n \in 1..Len(crossJobs) /\ crossJobs'[n] = crossJobs[n]
        BY <2>4, <3>1, <3>2
      <4> QED
        BY <3>1, <4>1 DEF JobsOnce, Alike
    <3>3. CASE crossJobs'[m].inst = Top.inst
      <4>1. PICK j \in 1..Len(Queued(b)) :
              m = Len(crossJobs) + j /\ crossJobs'[m].idx = Queued(b)[j]
        BY <2>3, <2>4, <3>3
      <4>2. PICK k \in 1..Len(Queued(b)) :
              n = Len(crossJobs) + k /\ crossJobs'[n].idx = Queued(b)[k]
        BY <2>3, <2>4, <3>1, <3>3
      <4> QED
        BY <2>6, <3>1, <4>1, <4>2
    <3> QED
      BY <3>2, <3>3
  <2>8. ASSUME NEW m \in 1..Len(replayJobs'), NEW n \in 1..Len(replayJobs'),
               Alike(replayJobs'[m], replayJobs'[n])
        PROVE  m = n
    <3>1. /\ replayJobs'[m].inst = replayJobs'[n].inst
          /\ replayJobs'[m].idx = replayJobs'[n].idx
      BY <2>8 DEF Alike
    <3>2. CASE replayJobs'[m].inst # Top.inst
      <4>1. /\ m \in 1..Len(replayJobs) /\ replayJobs'[m] = replayJobs[m]
            /\ n \in 1..Len(replayJobs) /\ replayJobs'[n] = replayJobs[n]
        BY <2>5, <3>1, <3>2
      <4> QED
        BY <3>1, <4>1 DEF JobsOnce, Alike
    <3>3. CASE replayJobs'[m].inst = Top.inst
      <4>1. PICK j \in 1..Len(b.refs) :
              m = Len(replayJobs) + j /\ replayJobs'[m].idx = j
        BY <2>3, <2>5, <3>3
      <4>2. PICK k \in 1..Len(b.refs) :
              n = Len(replayJobs) + k /\ replayJobs'[n].idx = k
        BY <2>3, <2>5, <3>1, <3>3
      <4> QED
        BY <3>1, <4>1, <4>2
    <3> QED
      BY <3>2, <3>3
  <2> QED
    BY <2>7, <2>8 DEF JobsOnce, Alike
<1>2. CASE CrossDep \/ Quiet
  <2>1. crossJobs' = crossJobs /\ replayJobs' = replayJobs
    BY <1>2 DEF CrossDep, Quiet
  <2> QED
    BY <2>1 DEF JobsOnce, Alike
<1> QED
  BY <1>1, <1>2, QuietSteps

LEMMA DepsOnceStep ==
    ASSUME TypeOK, PathInv, NodesIssued, TreeNumbered, BoundInv, JobsNumbered,
           AllRowed, DepsReplayed, DepsOnce, [Next]_vars
    PROVE  DepsOnce'
<1>1. CASE StampRows
  <2>1. PICK b : b = BodyOf(Top.tpl)
    OBVIOUS
  <2>2. dep' = dep \cup DepRows(Stamped, b)
    BY <1>1, <2>1, RowsStamped
  <2>3. \A x \in DepRows(Stamped, b) : x.inst = Top.inst /\ x = InlineDep(Stamped, x.idx)
    BY <1>1, <2>1, InlineIn
  <2>4. \A x \in dep : x.inst # Top.inst
    BY <1>1, RowsRowed DEF AllRowed
  <2>5. ASSUME NEW x \in dep', NEW y \in dep', Alike(x, y) PROVE x = y
    <3>1. CASE x \in dep /\ y \in dep
      BY <2>5, <3>1 DEF DepsOnce
    <3>2. CASE x \in DepRows(Stamped, b) /\ y \in DepRows(Stamped, b)
      BY <2>3, <2>5, <3>2 DEF Alike
    <3> QED
      BY <2>2, <2>3, <2>4, <2>5, <3>1, <3>2 DEF Alike
  <2> QED
    BY <2>5 DEF DepsOnce
<1>2. CASE CrossDep
  <2>1. PICK m \in 1..Len(crossJobs) :
          /\ m = cursor + 1 /\ cursor \in Nat /\ phase = "deps"
          /\ dep' = dep \/ \E x : dep' = dep \cup {x} /\ Alike(x, crossJobs[m])
    BY <1>2, CrossMoves
  <2>2. ~Replayed(m)
    BY <2>1 DEF Replayed
  <2>3. \A x \in dep : ~Alike(x, crossJobs[m])
    BY <2>2 DEF DepsReplayed
  <2> QED
    BY <2>1, <2>3 DEF DepsOnce, Alike
<1>3. CASE Quiet
  BY <1>3 DEF Quiet, DepsOnce
<1> QED
  BY <1>1, <1>2, <1>3, QuietSteps

\* Nothing that decides whether a dependency is written changes then.
LEMMA ToWriteStill ==
    ASSUME ref' = ref, design' = design, NEW m, crossJobs'[m] = crossJobs[m]
    PROVE  ToWrite(m)' <=> ToWrite(m)
<1>1. \A id : ResolvedNet(id)' = ResolvedNet(id)
  BY DEF ResolvedNet
<1>2. \A job, e : EndNet(job, e)' = EndNet(job, e)
  BY <1>1 DEF EndNet
<1>3. \A job, d : Writable(job, d)' <=> Writable(job, d)
  BY <1>2 DEF Writable
<1>4. PICK job : job = crossJobs[m]
  OBVIOUS
<1>5. PICK d : d = BodyOf(job.tpl).deps[job.idx]
  OBVIOUS
<1>6. ToWrite(m) <=> Writable(job, d)
  BY <1>4, <1>5 DEF ToWrite
<1>7. ToWrite(m)' <=> Writable(job, d)'
  BY <1>4, <1>5 DEF ToWrite, BodyOf
<1> QED
  BY <1>3, <1>6, <1>7

LEMMA DepsReplayedStep ==
    ASSUME TypeOK, PathInv, NodesIssued, TreeNumbered, BoundInv, JobsNumbered,
           AllRowed, JobsOnce, DepsReplayed, [Next]_vars
    PROVE  DepsReplayed'
<1>1. design' = design
  BY Grows DEF Grown
<1>3. CASE StampRows
  <2>1. PICK b : b = BodyOf(Top.tpl)
    OBVIOUS
  <2>2. \A m : ~Replayed(m) /\ ~Replayed(m)'
    <3>1. phase = "tree" /\ phase' = "tree"
      BY <1>3, RowsStamped
    <3> QED
      BY <3>1 DEF Replayed
  <2>3. ASSUME NEW m \in 1..Len(crossJobs'), NEW x \in dep', Alike(x, crossJobs'[m])
        PROVE  FALSE
    <3>1. \/ x \in dep /\ x.inst # Top.inst
          \/ x.inst = Top.inst /\ x.idx \in Inline(b)
      <4>1. dep' = dep \cup DepRows(Stamped, b)
        BY <1>3, <2>1, RowsStamped
      <4>2. \A y \in dep : y.inst # Top.inst
        BY <1>3, RowsRowed DEF AllRowed
      <4> QED
        BY <1>3, <2>1, <4>1, <4>2, InlineIn
    <3>2. \/ m \in 1..Len(crossJobs) /\ crossJobs'[m] = crossJobs[m]
             /\ crossJobs[m].inst # Top.inst
          \/ crossJobs'[m].inst = Top.inst /\ crossJobs'[m].idx \notin Inline(b)
      <4>1. \A n \in 1..Len(crossJobs) : crossJobs[n].inst # Top.inst
        BY <1>3, RowsRowed DEF AllRowed
      <4>2. \/ m \in 1..Len(crossJobs) /\ crossJobs'[m] = crossJobs[m]
            \/ \E k \in 1..Len(Queued(b)) :
                 crossJobs'[m].inst = Top.inst /\ crossJobs'[m].idx = Queued(b)[k]
        BY <1>3, <2>1, QueuesGrow
      <4>3. \A k \in 1..Len(Queued(b)) : Queued(b)[k] \notin Inline(b)
        BY <1>3, <2>1, QueuedDeferred
      <4> QED
        BY <4>1, <4>2, <4>3
    <3>3. CASE x.inst = Top.inst
      BY <2>3, <3>1, <3>2, <3>3 DEF Alike
    <3>4. CASE x.inst # Top.inst
      <4>1. x \in dep /\ m \in 1..Len(crossJobs) /\ crossJobs'[m] = crossJobs[m]
        BY <2>3, <3>1, <3>2, <3>4 DEF Alike
      <4>2. Replayed(m)
        BY <2>3, <4>1 DEF DepsReplayed
      <4> QED
        BY <2>2, <4>2
    <3> QED
      BY <3>3, <3>4
  <2> QED
    BY <2>2, <2>3 DEF DepsReplayed
<1>4. CASE CrossDep
  <2>1. PICK c \in 1..Len(crossJobs) :
          /\ c = cursor + 1 /\ cursor \in Nat /\ phase = "deps" /\ phase' = "deps"
          /\ cursor' = c /\ crossJobs' = crossJobs /\ ref' = ref
          /\ \/ ToWrite(c) /\ \E x : dep' = dep \cup {x} /\ Alike(x, crossJobs[c])
             \/ ~ToWrite(c) /\ dep' = dep
    BY <1>4, CrossMoves
  <2>2. Len(crossJobs) \in Nat
    BY <1>4, CrossMoves
  <2>3. \A m \in 1..Len(crossJobs) : Replayed(m)' <=> Replayed(m) \/ m = c
    <3>1. TAKE m \in 1..Len(crossJobs)
    <3>2. m \in Nat
      BY <2>2
    <3>3. m <= c <=> m <= cursor \/ m = c
      BY <2>1, <3>2
    <3> QED
      BY <2>1, <3>3 DEF Replayed
  <2>4. \A m : ToWrite(m)' <=> ToWrite(m)
    BY <1>1, <2>1, ToWriteStill
  <2>5. ASSUME NEW m \in 1..Len(crossJobs), NEW x \in dep', Alike(x, crossJobs[m])
        PROVE  Replayed(m)'
    <3>1. CASE x \in dep
      BY <2>3, <2>5, <3>1 DEF DepsReplayed
    <3>2. CASE x \notin dep
      <4>1. Alike(x, crossJobs[c])
        BY <2>1, <2>5, <3>2
      <4>2. Alike(crossJobs[m], crossJobs[c])
        BY <2>5, <4>1 DEF Alike
      <4> QED
        BY <2>1, <2>3, <4>2 DEF JobsOnce
    <3> QED
      BY <3>1, <3>2
  <2>6. ASSUME NEW m \in 1..Len(crossJobs), Replayed(m)', ToWrite(m)
        PROVE  \E x \in dep' : Alike(x, crossJobs[m])
    <3>1. CASE m = c
      BY <2>1, <2>6, <3>1
    <3>2. CASE Replayed(m)
      <4>1. \E x \in dep : Alike(x, crossJobs[m])
        BY <2>6, <3>2 DEF DepsReplayed
      <4> QED
        BY <2>1, <4>1
    <3> QED
      BY <2>3, <2>6, <3>1, <3>2
  <2> QED
    BY <2>1, <2>4, <2>5, <2>6 DEF DepsReplayed
<1>5. CASE Quiet
  <2>1. /\ dep' = dep /\ crossJobs' = crossJobs
        /\ \A m \in 1..Len(crossJobs) : Replayed(m)' => Replayed(m) /\ ref' = ref
        /\ \A m \in 1..Len(crossJobs) : Replayed(m) => Replayed(m)'
    BY <1>5 DEF Quiet
  <2>2. \A m \in 1..Len(crossJobs) : Replayed(m)' => (ToWrite(m)' <=> ToWrite(m))
    BY <1>1, <2>1, ToWriteStill
  <2> QED
    BY <2>1, <2>2 DEF DepsReplayed
<1> QED
  BY <1>3, <1>4, <1>5, QuietSteps

LEMMA AllFiledStep ==
    ASSUME TypeOK, PathInv, NodesIssued, InstsOnce, TreeNumbered, BoundInv, JobsNumbered,
           AllFiled, [Next]_vars
    PROVE  AllFiled'
<1>1. Grown /\ design' = design
  BY Grows DEF Grown
<1>2. ASSUME NEW z \in inst, NEW t, z.tpl = {t}, ~Coming(stack, z.id)
      PROVE  \A k \in 1..Len(design'.body[t].deps) :
               \/ \E x \in dep' : x.inst = z.id /\ x.idx = k
               \/ /\ Deferred(design'.body[t].deps[k])
                  /\ \E m \in 1..Len(crossJobs') :
                       crossJobs'[m].inst = z.id /\ crossJobs'[m].idx = k
  <2>1. ASSUME NEW k \in 1..Len(design.body[t].deps)
        PROVE  \/ \E x \in dep : x.inst = z.id /\ x.idx = k
               \/ /\ Deferred(design.body[t].deps[k])
                  /\ \E m \in 1..Len(crossJobs) :
                       crossJobs[m].inst = z.id /\ crossJobs[m].idx = k
    BY <1>2 DEF AllFiled
  <2>2. dep \subseteq dep' /\ \A m \in 1..Len(crossJobs) :
                                m \in 1..Len(crossJobs') /\ crossJobs'[m] = crossJobs[m]
    BY <1>1 DEF Grown
  <2> QED
    BY <1>1, <2>1, <2>2
<1>3. CASE StampRows
  <2>1. ASSUME NEW z \in inst, NEW t, z.tpl = {t}, Coming(stack, z.id)
        PROVE  \A k \in 1..Len(design'.body[t].deps) :
                 \/ \E x \in dep' : x.inst = z.id /\ x.idx = k
                 \/ /\ Deferred(design'.body[t].deps[k])
                    /\ \E m \in 1..Len(crossJobs') :
                         crossJobs'[m].inst = z.id /\ crossJobs'[m].idx = k
    <3>1. z.id = Top.inst
      BY <1>3, <2>1, ComingMoves
    <3>2. t = Top.tpl
      <4>1. PICK y \in inst : y.id = Top.inst /\ y.tpl = {Top.tpl}
        BY <1>3, TopOfTpl DEF OfTpl
      <4>2. y = z
        BY <3>1, <4>1 DEF InstsOnce, Distinct
      <4> QED
        BY <2>1, <4>1, <4>2
    <3>3. PICK b : b = BodyOf(Top.tpl)
      OBVIOUS
    <3>4. design'.body[t] = b
      BY <1>1, <3>2, <3>3 DEF BodyOf
    <3>5. ASSUME NEW k \in Inline(b) PROVE \E x \in dep' : x.inst = z.id /\ x.idx = k
      <4>1. dep' = dep \cup DepRows(Stamped, b)
        BY <1>3, <3>3, RowsStamped
      <4>2. InlineDep(Stamped, k) \in DepRows(Stamped, b)
        BY DEF DepRows
      <4>3. InlineDep(Stamped, k).inst = Stamped.inst /\ InlineDep(Stamped, k).idx = k
        BY DEF InlineDep
      <4>4. Stamped.inst = Top.inst
        BY <1>3, OnStack, StampedType
      <4> QED
        BY <3>1, <4>1, <4>2, <4>3, <4>4
    <3>6. ASSUME NEW k \in 1..Len(b.deps), k \notin Inline(b)
          PROVE  /\ Deferred(b.deps[k])
                 /\ \E m \in 1..Len(crossJobs') :
                      crossJobs'[m].inst = z.id /\ crossJobs'[m].idx = k
      <4>1. PICK j \in 1..Len(Queued(b)) : Queued(b)[j] = k /\ Deferred(b.deps[k])
        BY <1>3, <3>3, <3>6, QueuedDeferred
      <4>2. \E m \in 1..Len(crossJobs') :
              crossJobs'[m].inst = Top.inst /\ crossJobs'[m].idx = Queued(b)[j]
        BY <1>3, <3>3, QueuesGrow
      <4> QED
        BY <3>1, <4>1, <4>2
    <3> QED
      BY <3>4, <3>5, <3>6
  <2>2. inst' = inst
    BY <1>3, RowsStamped
  <2> QED
    BY <1>2, <2>1, <2>2 DEF AllFiled
<1>4. CASE StampTop \/ StampChildModule
  <2>1. PICK r : /\ inst' = inst \cup {r}
                 /\ \A i : ~Coming(stack, i) /\ (Coming(stack', i) <=> i = r.id)
    BY <1>4, ComingMoves, InstsMove DEF NewInst
  <2> QED
    BY <1>2, <2>1 DEF AllFiled
<1>5. CASE StampUnresolved \/ StampPackage
  <2>1. PICK r : inst' = inst \cup {r} /\ r.tpl = {}
    BY <1>5, InstsMove DEF NewInst
  <2>2. \A i : Coming(stack, i) => Coming(stack', i)
    BY <1>5, ComingMoves
  <2> QED
    BY <1>2, <2>1, <2>2 DEF AllFiled
<1>6. CASE CutRecursion \/ EnterChildren \/ StampConns \/ Return
             \/ ResolveRef \/ CrossDep \/ Advance \/ UNCHANGED vars
  <2>1. inst' = inst
    BY <1>6, InstsMove
  <2>2. \A i : Coming(stack, i) => Coming(stack', i)
    BY <1>6, ComingMoves
  <2> QED
    BY <1>2, <2>1, <2>2 DEF AllFiled
<1> QED
  BY <1>3, <1>4, <1>5, <1>6 DEF Next

LEMMA DepsStep ==
    TypeOK /\ PathInv /\ IdsInv /\ HomeInv /\ NamesInv /\ TreeNumbered /\ BoundInv
      /\ DepsInv /\ [Next]_vars => DepsInv'
<1> SUFFICES ASSUME TypeOK, PathInv, IdsInv, HomeInv, NamesInv, TreeNumbered, BoundInv,
                    DepsInv, [Next]_vars
             PROVE  DepsInv'
  OBVIOUS
<1>1. /\ NodesIssued /\ RefsIssued /\ JobsNumbered /\ InstsOnce /\ RefsHome /\ RefsResolve
      /\ DepsTold /\ JobsTold /\ AllRowed /\ JobsOnce
      /\ DepsOnce /\ DepsReplayed /\ AllFiled
  BY DEF IdsInv, HomeInv, NamesInv, RefsIssued, DepsInv
<1>2. DepsTold' /\ JobsTold'
  BY <1>1, DepsToldStep, JobsToldStep
<1>3. AllRowed' /\ JobsOnce'
  BY <1>1, AllRowedStep, JobsOnceStep
<1>4. DepsOnce' /\ DepsReplayed'
  BY <1>1, DepsOnceStep, DepsReplayedStep
<1>5. AllFiled'
  BY <1>1, AllFiledStep
<1> QED
  BY <1>2, <1>3, <1>4, <1>5 DEF DepsInv

\* The body of an instance is that of its template.
LEMMA BodyIs ==
    ASSUME InstsOnce, NEW i, NEW t, OfTpl(inst, i, t)
    PROVE  i \in Ids(inst) /\ Bodied(i) /\ BodyAt(i) = design.body[t]
<1>1. PICK z \in inst : z.id = i /\ z.tpl = {t}
  BY DEF OfTpl
<1>2. i \in Ids(inst) /\ RowOf(inst, i) = z
  BY <1>1, RowOfId DEF InstsOnce
<1>3. (CHOOSE u \in RowOf(inst, i).tpl : TRUE) = t
  BY <1>1, <1>2
<1> QED
  BY <1>1, <1>2, <1>3 DEF Bodied, BodyAt, BodyOf

\* A dependency that is owed is one the replay writes.
LEMMA OwedIsWritten ==
    ASSUME TypeOK, RefsIssued, RefsHome, InstsOnce, JobsTold, JobsOnce,
           NEW m \in 1..Len(crossJobs), NEW i, NEW k,
           crossJobs[m].inst = i, crossJobs[m].idx = k, Owed(i, BodyAt(i).deps[k]),
           Deferred(BodyAt(i).deps[k])
    PROVE  ToWrite(m)
<1>1. PICK job, b : job = crossJobs[m] /\ b = BodyOf(job.tpl)
  OBVIOUS
<1>2. PICK d : d = b.deps[k]
  OBVIOUS
<1>3. /\ job.tpl \in Tpl /\ OfTpl(inst, i, job.tpl) /\ job.inst = i /\ job.idx = k
      /\ JobIn(job, b, net, replayJobs, rows)
  BY <1>1 DEF JobsTold
<1>4. BodyAt(i) = b
  BY <1>1, <1>3, BodyIs DEF BodyOf
<1>5. Sourced(d) /\ (d.tgt.net # 0 \/ \E x \in ref : /\ x.inst = i /\ x.idx = d.tgt.ref
                                                     /\ x.net # 0)
  BY <1>2, <1>4 DEF Owed
<1>6. /\ b \in Body /\ Len(b.nets) \in Nat /\ Len(b.refs) \in Nat
      /\ k \in 1..Len(b.deps) /\ Has(job.base, i, b, net, replayJobs, rows)
      /\ job.base["net"] \in Nat /\ job.base["ref"] \in Nat
  <2>1. b \in Body
    BY <1>1, <1>3, BodyType DEF TypeOK
  <2> QED
    BY <1>3, <2>1, BodyParts DEF JobIn, Reserved
<1>7. EndLocal(b, d.tgt) /\ (d.tgt.net # 0 \/ d.tgt.ref # 0)
  <2>1. DepsLocal(b)
    BY <1>1, <1>3, IndicesLocal DEF TypeOK, BodyOf
  <2> QED
    BY <1>2, <1>6, <2>1 DEF DepsLocal
<1>8. PICK e : e = d.tgt
  OBVIOUS
<1>9. EndNet(job, e) # 0
  <2>1. CASE e.net # 0
    <3>1. PICK s : s = Len(b.nets)
      OBVIOUS
    <3>2. e.net \in 0..s /\ s \in Nat
      BY <1>6, <1>7, <1>8, <3>1 DEF EndLocal
    <3>3. job.base["net"] + e.net # 0
      BY <1>6, <2>1, <3>2
    <3> QED
      BY <2>1, <3>3 DEF EndNet
  <2>2. CASE e.net = 0
    <3>1. PICK x \in ref : x.inst = i /\ x.idx = e.ref /\ x.net # 0
      BY <1>5, <1>8, <2>2
    <3>2. PICK h : h = job.base["ref"] + e.ref
      OBVIOUS
    <3>3. EndNet(job, e) = ResolvedNet(h)
      BY <1>7, <1>8, <2>2, <3>2 DEF EndNet
    <3>4. e.ref \in 1..Len(b.refs)
      <4>1. PICK s : s = Len(b.refs)
        OBVIOUS
      <4>2. e.ref \in 0..s /\ s \in Nat /\ e.ref # 0
        BY <1>6, <1>7, <1>8, <2>2, <4>1 DEF EndLocal
      <4> QED
        BY <4>1, <4>2
    <3>5. h \in 1..Len(replayJobs) /\ replayJobs[h].inst = i /\ replayJobs[h].idx = e.ref
      BY <1>6, <3>2, <3>4 DEF Has
    <3>6. /\ x.id \in 1..Len(replayJobs)
          /\ replayJobs[x.id].inst = i /\ replayJobs[x.id].idx = e.ref
      BY <3>1 DEF RefsHome, OfJob
    <3>7. x.id = h
      BY <3>5, <3>6 DEF JobsOnce, Alike
    <3>8. ResolvedNet(x.id) = x.net
      BY RefsAll, ResolvedRow
    <3> QED
      BY <3>1, <3>3, <3>7, <3>8
  <2> QED
    BY <2>1, <2>2
<1>10. Writable(job, d)
  BY <1>5, <1>8, <1>9 DEF Writable, Sourced
<1> QED
  BY <1>1, <1>2, <1>3, <1>10 DEF ToWrite

LEMMA DepsSay ==
    ASSUME TypeOK, RefsIssued, RefsHome, InstsOnce, AfterTree, OfTemplates, DepsInv
    PROVE  DepEndsEvidenced
<1>1. /\ DepsTold /\ JobsTold /\ JobsOnce /\ DepsOnce /\ DepsReplayed /\ AllFiled
  BY DEF DepsInv
<1>2. ASSUME NEW x \in dep
      PROVE  /\ x.inst \in Ids(inst) /\ Bodied(x.inst)
             /\ x.idx \in 1..Len(BodyAt(x.inst).deps)
             /\ LET d == BodyAt(x.inst).deps[x.idx]
                IN  /\ Deferred(d) => Sourced(d)
                    /\ EndTold(x.inst, d.src, x.src, x.srcRef)
                    /\ EndTold(x.inst, d.tgt, x.tgt, x.tgtRef) /\ x.tgt # 0
                    /\ EvidenceTold(x.inst, d, x.links)
  <2>1. PICK t \in Tpl : OfTpl(inst, x.inst, t) /\ RowIn(x, design.body[t], net, ref, rows)
    BY <1>1 DEF DepsTold
  <2>2. PICK i, b, d : i = x.inst /\ b = design.body[t] /\ d = b.deps[x.idx]
    OBVIOUS
  <2>3. i \in Ids(inst) /\ Bodied(i) /\ BodyAt(i) = b
    BY <2>1, <2>2, BodyIs
  <2>4. /\ x.idx \in 1..Len(b.deps) /\ (Deferred(d) => Sourced(d))
        /\ EndIn(net, ref, i, b, d.src, x.src, x.srcRef)
        /\ EndIn(net, ref, i, b, d.tgt, x.tgt, x.tgtRef) /\ x.tgt # 0
        /\ EvidenceIn(rows, i, d, x.links)
    BY <2>1, <2>2 DEF RowIn
  <2>5. \A e, n, r : EndIn(net, ref, i, b, e, n, r) => EndTold(i, e, n, r)
    BY <2>3 DEF EndIn, EndTold
  <2>6. EvidenceTold(i, d, x.links)
    BY <2>4 DEF EvidenceIn, EvidenceTold
  <2> QED
    BY <2>2, <2>3, <2>4, <2>5, <2>6
<1>3. ASSUME NEW x \in dep, NEW y \in dep, x.inst = y.inst, x.idx = y.idx PROVE x = y
  BY <1>1, <1>3 DEF DepsOnce, Alike
<1>4. ASSUME phase = "done", NEW i \in Ids(inst), Bodied(i),
             NEW k \in 1..Len(BodyAt(i).deps), Owed(i, BodyAt(i).deps[k])
      PROVE  \E x \in dep : x.inst = i /\ x.idx = k
  <2>1. PICK z \in inst : z.id = i
    BY DEF Ids
  <2>2. PICK t : z.tpl = {t}
    <3>1. RowOf(inst, i) = z
      BY <2>1, RowOfId DEF InstsOnce
    <3> QED
      BY <1>4, <3>1 DEF Bodied, OfTemplates
  <2>3. BodyAt(i) = design.body[t]
    BY <2>1, <2>2, BodyIs DEF OfTpl
  <2>4. ~Coming(stack, i)
    <3>1. stack = <<>>
      BY <1>4 DEF AfterTree
    <3> QED
      BY <3>1 DEF Coming, Begun
  <2>5. \/ \E x \in dep : x.inst = i /\ x.idx = k
        \/ /\ Deferred(BodyAt(i).deps[k])
           /\ \E m \in 1..Len(crossJobs) : crossJobs[m].inst = i /\ crossJobs[m].idx = k
    BY <1>1, <2>1, <2>2, <2>3, <2>4 DEF AllFiled
  <2>6. ASSUME NEW m \in 1..Len(crossJobs), Deferred(BodyAt(i).deps[k]),
               crossJobs[m].inst = i, crossJobs[m].idx = k
        PROVE  \E x \in dep : x.inst = i /\ x.idx = k
    <3>1. ToWrite(m)
      BY <1>1, <1>4, <2>6, OwedIsWritten
    <3>2. Replayed(m)
      BY <1>4 DEF Replayed
    <3>3. \E x \in dep : Alike(x, crossJobs[m])
      BY <1>1, <3>1, <3>2 DEF DepsReplayed
    <3> QED
      BY <2>6, <3>3 DEF Alike
  <2> QED
    BY <2>5, <2>6
<1> QED
  BY <1>2, <1>3, <1>4 DEF DepEndsEvidenced

(* For every design whose templates have indices of their own: a row of a  *)
(* dependency belongs to an instance with a body, says of its ends and its *)
(* evidence what that instance's own rows say, and none is written twice;  *)
(* and when the replay is over, every dependency of every instance that    *)
(* stays in it, or has a source and reaches a target, has its row -- two   *)
(* on one target have two, and one whose source did not resolve has its.   *)
THEOREM DependenciesEvidenced == Spec => []DepEndsEvidenced
<1>1. Init => DepsInv
  BY DepsInit
<1>2. TypeOK /\ PathInv /\ IdsInv /\ HomeInv /\ NamesInv /\ TreeNumbered /\ BoundInv
        /\ DepsInv /\ [Next]_vars => DepsInv'
  BY DepsStep
<1>3. TypeOK /\ IdsInv /\ HomeInv /\ SealInv /\ DepsInv => DepEndsEvidenced
  BY DepsSay DEF IdsInv, HomeInv, SealInv
<1> QED
  BY <1>1, <1>2, <1>3, RowsBound, NamesInductive, PTL DEF Spec

=============================================================================
