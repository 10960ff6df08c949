------------------------ MODULE OwnershipCheckProofs ------------------------
(***************************************************************************)
(* Proof, for every store, every set of ids and every order of them, that  *)
(* check_ownership_invariants authenticates only objects owned, through a  *)
(* chain of objects, by an authenticated root (AuthenticatedRooted).  The  *)
(* chains are the walk up[j] of OwnershipDecision!AncestorsOf, a recursive *)
(* function of 0..Cardinality(Ids); what it computes is proved by          *)
(* induction over an interval, which is derived below from the least      *)
(* element of a nonempty set of naturals.                                  *)
(***************************************************************************)
EXTENDS OwnershipCheck, FiniteSetTheorems, WellFoundedInduction, TLAPS

-----------------------------------------------------------------------------
(* Induction over an interval, and the functions it defines.              *)

\* A nonempty set of naturals has a least element.
LEMMA LeastNat ==
  ASSUME NEW T \in SUBSET Nat, T # {}
  PROVE  \E m \in T : \A k \in T : m <= k
<1> DEFINE R == OpToRel(<, Nat)
<1>1. \E x \in T : \A y \in T : ~(<<y, x>> \in R)
  BY NatLessThanWellFounded, WFMin
<1>2. \A x, y \in Nat : <<y, x>> \in R <=> y < x
  BY Zenon DEF OpToRel
<1> HIDE DEF R
<1>3. PICK x \in T : \A y \in T : ~(<<y, x>> \in R)
  BY <1>1
<1>4. ASSUME NEW k \in T PROVE x <= k
  <2>1. ~(<<k, x>> \in R)
    BY <1>3
  <2>2. <<k, x>> \in R <=> k < x
    BY <1>2
  <2>. QED  BY <2>1, <2>2
<1>. QED  BY <1>4

\* Induction over a..b: a set that holds a and every successor in a..b of
\* its members holds all of a..b.
LEMMA IntervalInduction ==
  ASSUME NEW a \in Nat, NEW b \in Int, NEW S, a \in S,
         \A n \in a..(b - 1) : n \in S => n + 1 \in S
  PROVE  a..b \subseteq S
<1> SUFFICES ASSUME {n \in a..b : n \notin S} # {} PROVE FALSE
  OBVIOUS
<1> DEFINE Bad == {n \in a..b : n \notin S}
<1>0. Bad \in SUBSET Nat /\ Bad # {}
  OBVIOUS
<1> HIDE DEF Bad
<1>1. PICK m \in Bad : \A k \in Bad : m <= k
  BY <1>0, LeastNat
<1> USE DEF Bad
<1>2. m # a /\ m - 1 \in a..(b - 1)
  BY <1>1
<1>3. m - 1 \in S
  BY <1>1, <1>2
<1>4. (m - 1) + 1 \in S
  BY <1>2, <1>3
<1>. QED  BY <1>1, <1>4

\* An iteration x0, G[1][x0], G[2][G[1][x0]], ... of steps G[j] that keep X
\* exists on 0..n.
LEMMA IterationExists ==
  ASSUME NEW X, NEW x0 \in X, NEW G \in [Nat -> [X -> X]], NEW n \in Nat
  PROVE  \E f \in [0..n -> X] : f[0] = x0 /\ \A j \in 1..n : f[j] = G[j][f[j - 1]]
<1> DEFINE Iter(m) == \E f \in [0..m -> X] : f[0] = x0 /\ \A j \in 1..m : f[j] = G[j][f[j - 1]]
<1>1. Iter(0)
  <2>1. [j \in 0..0 |-> x0] \in [0..0 -> X] /\ [j \in 0..0 |-> x0][0] = x0
    OBVIOUS
  <2>2. 1..0 = {}
    OBVIOUS
  <2>. QED  BY <2>1, <2>2, Zenon
<1>2. ASSUME NEW m \in 0..(n - 1), Iter(m) PROVE Iter(m + 1)
  <2>1. PICK f \in [0..m -> X] : f[0] = x0 /\ \A j \in 1..m : f[j] = G[j][f[j - 1]]
    BY <1>2
  <2> DEFINE g == [j \in 0..(m + 1) |-> IF j <= m THEN f[j] ELSE G[m + 1][f[m]]]
  <2>2. g \in [0..(m + 1) -> X] /\ g[0] = x0
    BY <2>1
  <2>3. ASSUME NEW j \in 1..(m + 1) PROVE g[j] = G[j][g[j - 1]]
    <3>1. CASE j <= m
      BY <2>1, <3>1
    <3>2. CASE j = m + 1
      <4>1. g[j] = G[m + 1][f[m]]
        BY <3>2
      <4>2. g[j - 1] = f[m]
        BY <3>2
      <4>. QED  BY <3>2, <4>1, <4>2
    <3>. QED  BY <3>1, <3>2
  <2>. QED  BY <2>2, <2>3
<1> HIDE DEF Iter
<1>3. 0..n \subseteq {m \in Nat : Iter(m)}
  <2> DEFINE S == {m \in Nat : Iter(m)}
  <2>1. 0 \in S
    BY <1>1
  <2>2. \A k \in 0..(n - 1) : k \in S => k + 1 \in S
    BY <1>2
  <2> HIDE DEF S
  <2>3. 0..n \subseteq S
    <3>1. 0 \in Nat /\ n \in Int
      OBVIOUS
    <3>. QED  BY <2>1, <2>2, <3>1, IntervalInduction
  <2>. QED  BY <2>3 DEF S
<1>4. n \in {m \in Nat : Iter(m)}
  BY <1>3
<1>. QED  BY <1>4, Zenon DEF Iter
-----------------------------------------------------------------------------
(* The chain of owners above an id.                                        *)

\* The length bound of AncestorsOf.
N == Decision!Cardinality(Ids)

\* The ids, and the end of a chain.
Node == Ids \cup {NoId}

\* The store maps every id to an owner or to no object.
StoreOK == store \in [Ids -> Owners \cup {NoObj}]

\* The walk up[j] of AncestorsOf(x): x, then the owner of each id in turn.
Up(x) ==
  CHOOSE up : up = [j \in 0..N |-> IF j = 0 THEN x
                                   ELSE IF up[j - 1] = NoId THEN NoId
                                   ELSE Decision!ParentOf(up[j - 1])]

\* AncestorsOf is the walk Up, past its first element.
LEMMA AncestorsUp ==
  ASSUME NEW x
  PROVE  Decision!AncestorsOf(x) = {Up(x)[j] : j \in 1..N} \ {NoId}
BY DEF Decision!AncestorsOf, Up, N

\* The ids are finite, being the elements of IdOrder, and N counts them.
LEMMA IdsFinite == IsFiniteSet(Ids) /\ N = Cardinality(Ids) /\ N \in Nat
<1>1. IdOrder \in Surjection(1..Len(IdOrder), Ids)
  BY OwnershipAssumption DEF ToSet, Surjection
<1>2. IsFiniteSet(Ids)
  BY <1>1, FS_Interval, FS_Surjection
<1>3. N = Cardinality(Ids)
  BY DEF N, Decision!Cardinality, Cardinality
<1>. QED  BY <1>2, <1>3, FS_CardinalityType

\* The walk goes from an object-owned id that is no root to its owner, an
\* id; from any other id it ends.
LEMMA ParentType ==
  ASSUME StoreOK, NEW y \in Ids
  PROVE  Decision!ParentOf(y) \in Node
BY DEF StoreOK, Node, Decision!ParentOf, Owners, AddressOwner, ObjectOwner, Shared,
       Immutable

\* Up(x) satisfies the equation that defines it.
LEMMA UpEquation ==
  ASSUME StoreOK, NEW x \in Node
  PROVE  Up(x) = [j \in 0..N |-> IF j = 0 THEN x
                                 ELSE IF Up(x)[j - 1] = NoId THEN NoId
                                 ELSE Decision!ParentOf(Up(x)[j - 1])]
<1> DEFINE Next1(y) == IF y = NoId THEN NoId ELSE Decision!ParentOf(y)
           G == [j \in Nat |-> [y \in Node |-> Next1(y)]]
<1>1. G \in [Nat -> [Node -> Node]]
  BY ParentType DEF Node
<1>2. PICK f \in [0..N -> Node] : f[0] = x /\ \A j \in 1..N : f[j] = G[j][f[j - 1]]
  <2> HIDE DEF G, Node, N
  <2>1. N \in Nat /\ x \in Node
    BY IdsFinite
  <2>. QED  BY <1>1, <2>1, IterationExists
<1>3. f = [j \in 0..N |-> IF j = 0 THEN x ELSE Next1(f[j - 1])]
  <2>1. ASSUME NEW j \in 0..N PROVE f[j] = IF j = 0 THEN x ELSE Next1(f[j - 1])
    <3>1. CASE j = 0
      BY <1>2, <3>1
    <3>2. CASE j # 0
      <4>1. j \in 1..N /\ f[j - 1] \in Node
        BY <1>2, <3>2, IdsFinite
      <4>2. G[j][f[j - 1]] = Next1(f[j - 1])
        BY <4>1
      <4>3. f[j] = G[j][f[j - 1]]
        BY <1>2, <4>1
      <4> HIDE DEF Next1, G
      <4>. QED  BY <3>2, <4>2, <4>3
    <3>. QED  BY <3>1, <3>2
  <2>. QED  BY <1>2, <2>1
<1>4. \E up : up = [j \in 0..N |-> IF j = 0 THEN x
                                  ELSE IF up[j - 1] = NoId THEN NoId
                                  ELSE Decision!ParentOf(up[j - 1])]
  BY <1>3, Zenon
<1>. QED  BY <1>4, Zenon DEF Up

\* One step of the walk.
Step(y) == IF y = NoId THEN NoId ELSE Decision!ParentOf(y)

\* The walk starts at x and takes one Step per index.
LEMMA UpSteps ==
  ASSUME StoreOK, NEW x \in Node
  PROVE  /\ Up(x)[0] = x
         /\ \A j \in 1..N : Up(x)[j] = Step(Up(x)[j - 1])
<1>1. N \in Nat
  BY IdsFinite
<1>. QED  BY <1>1, UpEquation DEF Step

\* A step stays among the ids and the end of a chain.
LEMMA StepType ==
  ASSUME StoreOK, NEW y \in Node
  PROVE  Step(y) \in Node
BY ParentType DEF Step, Node

\* The walk stays among the ids and the end of a chain.
LEMMA UpType ==
  ASSUME StoreOK, NEW x \in Node
  PROVE  \A j \in 0..N : Up(x)[j] \in Node
<1> DEFINE S == {j \in Nat : Up(x)[j] \in Node}
<1>1. N \in Nat
  BY IdsFinite
<1>2. 0 \in S
  BY UpSteps
<1>3. \A n \in 0..(N - 1) : n \in S => n + 1 \in S
  BY <1>1, UpSteps, StepType
<1> HIDE DEF S
<1>4. 0..N \subseteq S
  BY <1>1, <1>2, <1>3, IntervalInduction
<1>. QED  BY <1>4 DEF S

\* Once the walk ends it stays at NoId.
LEMMA UpEnds ==
  ASSUME StoreOK, NEW x \in Node, NEW i \in 0..N, Up(x)[i] = NoId
  PROVE  \A k \in i..N : Up(x)[k] = NoId
<1> DEFINE S == {k \in Nat : Up(x)[k] = NoId}
<1>1. N \in Nat /\ i \in Nat
  BY IdsFinite
<1>2. i \in S
  BY <1>1
<1>3. \A n \in i..(N - 1) : n \in S => n + 1 \in S
  BY <1>1, UpSteps DEF Step
<1> HIDE DEF S
<1>4. i..N \subseteq S
  BY <1>1, <1>2, <1>3, IntervalInduction
<1>. QED  BY <1>4 DEF S

\* There is at least one id when x is one.
LEMMA SomeId ==
  ASSUME NEW x \in Ids
  PROVE  N >= 1
BY IdsFinite, FS_EmptySet

\* The walk from x is x followed by the walk from its owner p.
LEMMA UpShift ==
  ASSUME StoreOK, NEW x \in Ids, NEW p \in Ids, Decision!ParentOf(x) = p
  PROVE  \A i \in 0..(N - 1) : Up(x)[i + 1] = Up(p)[i]
<1> DEFINE S == {i \in Nat : Up(x)[i + 1] = Up(p)[i]}
<1>1. N \in Nat /\ N >= 1
  BY IdsFinite, SomeId
<1>2. 0 \in S
  <2>1. x # NoId
    BY OwnershipAssumption
  <2>2. Up(x)[1] = Step(x) /\ Up(p)[0] = p
    BY <1>1, UpSteps DEF Node
  <2>. QED  BY <2>1, <2>2 DEF Step
<1>3. \A n \in 0..(N - 2) : n \in S => n + 1 \in S
  BY <1>1, UpSteps DEF Node
<1> HIDE DEF S
<1>4. 0..(N - 1) \subseteq S
  BY <1>1, <1>2, <1>3, IntervalInduction
<1>. QED  BY <1>4 DEF S

\* Two equal points of the walk repeat it from there on.
LEMMA UpRepeats ==
  ASSUME StoreOK, NEW y \in Node, NEW a \in 0..N, NEW b \in 0..N, a < b,
         Up(y)[a] = Up(y)[b]
  PROVE  \A k \in 0..(N - b) : Up(y)[a + k] = Up(y)[b + k]
<1> DEFINE S == {k \in Nat : Up(y)[a + k] = Up(y)[b + k]}
<1>1. N \in Nat
  BY IdsFinite
<1>2. 0 \in S
  OBVIOUS
<1>3. \A n \in 0..(N - b - 1) : n \in S => n + 1 \in S
  BY <1>1, UpSteps
<1> HIDE DEF S
<1>4. 0..(N - b) \subseteq S
  <2>1. N - b \in Int
    BY <1>1
  <2>. QED  BY <1>2, <1>3, <2>1, IntervalInduction
<1>. QED  BY <1>4 DEF S

\* The walk ends at a root: a root is not owned by anything it walks to.
LEMMA RootEnds ==
  ASSUME NEW r \in Decision!AuthRoots
  PROVE  Decision!ParentOf(r) = NoId
BY DEF Decision!ParentOf

\* The roots are ids.
LEMMA RootsAreIds == Decision!AuthRoots \subseteq Ids
BY OwnershipAssumption DEF Decision!AuthRoots

\* A walk that has not ended after N steps has repeated its last id
\* earlier: N + 1 ids of a set of N repeat one, and the walk is periodic
\* from the first repeat on.
LEMMA LastRepeats ==
  ASSUME StoreOK, NEW x \in Node, Up(x)[N] # NoId
  PROVE  \E i \in 0..(N - 1) : Up(x)[i] = Up(x)[N]
<1>0. /\ IsFiniteSet(Ids) /\ N = Cardinality(Ids) /\ N \in Nat
      /\ NoId \notin Ids
  BY IdsFinite, OwnershipAssumption
<1>1. \A i \in 0..N : Up(x)[i] # NoId
  BY <1>0, UpEnds DEF Node
<1>2. Up(x) \in [0..N -> Ids]
  <2>1. \A i \in 0..N : Up(x)[i] \in Ids
    BY <1>1, UpType DEF Node
  <2>2. Up(x) = [i \in 0..N |-> Up(x)[i]]
    BY UpEquation DEF Node
  <2>. QED  BY <2>1, <2>2
<1>3. IsFiniteSet(0..N) /\ Cardinality(0..N) = N + 1
  BY <1>0, FS_Interval
<1>4. \E a, b \in 0..N : a # b /\ Up(x)[a] = Up(x)[b]
  <2>1. Cardinality(Ids) < Cardinality(0..N)
    BY <1>0, <1>3
  <2>. QED  BY <1>0, <1>2, <1>3, <2>1, FS_PigeonHole
<1>5. PICK a, b \in 0..N : a < b /\ Up(x)[a] = Up(x)[b]
  BY <1>4
<1>6. Up(x)[a + (N - b)] = Up(x)[N]
  <2>1. N - b \in 0..(N - b)
    BY <1>0
  <2>2. Up(x)[a + (N - b)] = Up(x)[b + (N - b)]
    BY <1>5, <2>1, UpRepeats DEF Node
  <2>. QED  BY <1>0, <2>2
<1>7. a + (N - b) \in 0..(N - 1)
  BY <1>0, <1>5
<1>. QED  BY <1>6, <1>7

\* An id whose owner p is a root, or is owned through a chain by one, is
\* owned through a chain by a root.  The chain from p reaches its root in
\* fewer than N steps: a root ends the walk, and a walk of N + 1 ids
\* repeats one, after which it could not reach the root at step N.
LEMMA ChainExtends ==
  ASSUME StoreOK, NEW x \in Ids, NEW p \in Ids, Decision!ParentOf(x) = p,
         p \in Decision!AuthRoots \/ Rooted(p)
  PROVE  Rooted(x)
<1>0. /\ IsFiniteSet(Ids) /\ N = Cardinality(Ids) /\ N \in Nat /\ N >= 1
      /\ NoId \notin Ids
  BY IdsFinite, SomeId, OwnershipAssumption
<1>1. \A i \in 0..(N - 1) : Up(x)[i + 1] = Up(p)[i]
  BY UpShift
<1>2. SUFFICES \E j \in 0..(N - 1) : Up(p)[j] \in Decision!AuthRoots
  <2>1. PICK j \in 0..(N - 1) : Up(p)[j] \in Decision!AuthRoots
    OBVIOUS
  <2>2. Up(x)[j + 1] \in Decision!AuthRoots /\ j + 1 \in 1..N
    BY <1>0, <1>1, <2>1
  <2>3. Up(x)[j + 1] \in Decision!AncestorsOf(x)
    BY <1>0, <2>2, RootsAreIds, AncestorsUp
  <2>. QED  BY <2>2, <2>3 DEF Rooted, Decision!Chain
<1>3. CASE p \in Decision!AuthRoots
  BY <1>0, <1>3, UpSteps DEF Node
<1>4. CASE Rooted(p)
  <2>1. PICK root \in Decision!AuthRoots : root \in Decision!AncestorsOf(p)
    BY <1>4 DEF Rooted, Decision!Chain
  <2>2. PICK j \in 1..N : Up(p)[j] = root
    BY <2>1, AncestorsUp
  <2>3. CASE j < N
    BY <2>2, <2>3, <1>0, RootsAreIds
  <2>4. CASE j = N
    <3>1. root \in Ids /\ root # NoId
      BY <1>0, RootsAreIds
    <3>2. PICK i \in 0..(N - 1) : Up(p)[i] = root
      BY <2>2, <2>4, <3>1, LastRepeats DEF Node
    <3>3. Up(p)[i + 1] = NoId
      <4>1. i + 1 \in 1..N
        BY <1>0
      <4>2. Up(p)[i + 1] = Step(root)
        BY <1>0, <3>2, <4>1, UpSteps DEF Node
      <4>. QED  BY <3>1, <4>2, RootEnds DEF Step
    <3>4. Up(p)[N] = NoId
      BY <1>0, <3>3, UpEnds DEF Node
    <3>. QED  BY <2>2, <2>4, <3>1, <3>4
  <2>. QED  BY <2>2, <2>3, <2>4, <1>0
<1>. QED  BY <1>3, <1>4
-----------------------------------------------------------------------------
(* The worklist get_objects_to_authenticate builds.                        *)

\* The prefix function of SelectIn(s, keep).
SelF(s, keep) ==
  CHOOSE F : F = [i \in 0..Len(s) |-> IF i = 0 THEN <<>>
                                      ELSE IF s[i] \in keep THEN Append(F[i - 1], s[i])
                                      ELSE F[i - 1]]

\* SelectIn is its prefix function at the full length.
LEMMA SelectInDef ==
  ASSUME NEW s, NEW keep
  PROVE  SelectIn(s, keep) = SelF(s, keep)[Len(s)]
BY DEF SelectIn, SelF

\* The prefix function of SelectIn exists: it is built one index at a time.
LEMMA SelectInExists ==
  ASSUME NEW s \in Seq(Ids), NEW keep
  PROVE  \E F \in [0..Len(s) -> Seq(Ids)] :
            /\ F[0] = <<>>
            /\ \A j \in 1..Len(s) :
                  F[j] = IF s[j] \in keep THEN Append(F[j - 1], s[j]) ELSE F[j - 1]
<1> DEFINE Iter(m) ==
             \E F \in [0..m -> Seq(Ids)] :
                /\ F[0] = <<>>
                /\ \A j \in 1..m : F[j] = IF s[j] \in keep THEN Append(F[j - 1], s[j])
                                          ELSE F[j - 1]
<1>0. Len(s) \in Nat
  OBVIOUS
<1>1. Iter(0)
  <2>1. [j \in 0..0 |-> <<>>] \in [0..0 -> Seq(Ids)] /\ [j \in 0..0 |-> <<>>][0] = <<>>
    OBVIOUS
  <2>2. 1..0 = {}
    OBVIOUS
  <2>. QED  BY <2>1, <2>2, Zenon
<1>2. ASSUME NEW m \in 0..(Len(s) - 1), Iter(m) PROVE Iter(m + 1)
  <2>1. PICK F \in [0..m -> Seq(Ids)] :
           /\ F[0] = <<>>
           /\ \A j \in 1..m : F[j] = IF s[j] \in keep THEN Append(F[j - 1], s[j])
                                     ELSE F[j - 1]
    BY <1>2
  <2> DEFINE last == IF s[m + 1] \in keep THEN Append(F[m], s[m + 1]) ELSE F[m]
             H == [j \in 0..(m + 1) |-> IF j <= m THEN F[j] ELSE last]
  <2>2. last \in Seq(Ids)
    BY <2>1
  <2>3. H \in [0..(m + 1) -> Seq(Ids)] /\ H[0] = <<>>
    BY <2>1, <2>2
  <2>4. ASSUME NEW j \in 1..(m + 1)
        PROVE  H[j] = IF s[j] \in keep THEN Append(H[j - 1], s[j]) ELSE H[j - 1]
    <3>1. CASE j <= m
      BY <2>1, <3>1
    <3>2. CASE j = m + 1
      <4>1. H[j] = last /\ H[j - 1] = F[m]
        BY <3>2
      <4>. QED  BY <3>2, <4>1
    <3>. QED  BY <3>1, <3>2
  <2>. QED  BY <2>3, <2>4
<1> HIDE DEF Iter
<1>3. 0..Len(s) \subseteq {m \in Nat : Iter(m)}
  <2> DEFINE S == {m \in Nat : Iter(m)}
  <2>1. 0 \in S
    BY <1>1
  <2>2. \A k \in 0..(Len(s) - 1) : k \in S => k + 1 \in S
    BY <1>2
  <2> HIDE DEF S
  <2>3. 0..Len(s) \subseteq S
    <3>1. 0 \in Nat /\ Len(s) \in Int
      BY <1>0
    <3>. QED  BY <2>1, <2>2, <3>1, IntervalInduction
  <2>. QED  BY <2>3 DEF S
<1>4. Len(s) \in {m \in Nat : Iter(m)}
  BY <1>0, <1>3
<1>. QED  BY <1>4, Zenon DEF Iter

\* SelF satisfies the equation that defines it.
LEMMA SelFEquation ==
  ASSUME NEW s \in Seq(Ids), NEW keep
  PROVE  SelF(s, keep) = [i \in 0..Len(s) |-> IF i = 0 THEN <<>>
                                            ELSE IF s[i] \in keep
                                                 THEN Append(SelF(s, keep)[i - 1], s[i])
                                                 ELSE SelF(s, keep)[i - 1]]
<1>0. Len(s) \in Nat
  OBVIOUS
<1>1. PICK f \in [0..Len(s) -> Seq(Ids)] :
         /\ f[0] = <<>>
         /\ \A j \in 1..Len(s) : f[j] = IF s[j] \in keep THEN Append(f[j - 1], s[j]) ELSE f[j - 1]
  BY SelectInExists
<1>2. f = [i \in 0..Len(s) |-> IF i = 0 THEN <<>>
                          ELSE IF s[i] \in keep THEN Append(f[i - 1], s[i]) ELSE f[i - 1]]
  <2>1. ASSUME NEW i \in 0..Len(s)
        PROVE  f[i] = IF i = 0 THEN <<>>
                      ELSE IF s[i] \in keep THEN Append(f[i - 1], s[i]) ELSE f[i - 1]
    <3>1. CASE i = 0
      BY <1>1, <3>1
    <3>2. CASE i # 0
      <4>1. i \in 1..Len(s)
        BY <1>0, <3>2
      <4>. QED  BY <1>1, <3>2, <4>1, Zenon
    <3>. QED  BY <3>1, <3>2
  <2>2. DOMAIN f = 0..Len(s)
    BY <1>1
  <2>. QED  BY <2>1, <2>2, Zenon
<1>3. \E F : F = [i \in 0..Len(s) |-> IF i = 0 THEN <<>>
                                 ELSE IF s[i] \in keep THEN Append(F[i - 1], s[i])
                                 ELSE F[i - 1]]
  BY <1>2, Zenon
<1>. QED  BY <1>3, Zenon DEF SelF

\* SelF starts empty and takes s[k + 1] when it is kept.
LEMMA SelFSteps ==
  ASSUME NEW s \in Seq(Ids), NEW keep
  PROVE  /\ SelF(s, keep)[0] = <<>>
         /\ \A k \in 0..(Len(s) - 1) :
               SelF(s, keep)[k + 1] = IF s[k + 1] \in keep
                                      THEN Append(SelF(s, keep)[k], s[k + 1])
                                      ELSE SelF(s, keep)[k]
<1> DEFINE F0 == SelF(s, keep)
<1>1. F0 = [i \in 0..Len(s) |-> IF i = 0 THEN <<>>
                           ELSE IF s[i] \in keep THEN Append(F0[i - 1], s[i])
                           ELSE F0[i - 1]]
  BY SelFEquation
<1> HIDE DEF F0
<1>2. F0[0] = <<>>
  BY <1>1
<1>3. ASSUME NEW k \in 0..(Len(s) - 1)
      PROVE  F0[k + 1] = IF s[k + 1] \in keep THEN Append(F0[k], s[k + 1]) ELSE F0[k]
  <2>1. k + 1 \in 0..Len(s) /\ k + 1 # 0 /\ (k + 1) - 1 = k
    OBVIOUS
  <2>. QED  BY <1>1, <2>1
<1>. QED  BY <1>2, <1>3 DEF F0

\* The ids the walk starts from, selected from a sequence of ids, form a
\* sequence of ids.
LEMMA SelectInType ==
  ASSUME NEW s \in Seq(Ids), NEW keep
  PROVE  SelectIn(s, keep) \in Seq(Ids)
<1> DEFINE F0 == SelF(s, keep)
<1>0. Len(s) \in Nat
  OBVIOUS
<1>1. /\ F0[0] = <<>>
      /\ \A k \in 0..(Len(s) - 1) :
            F0[k + 1] = IF s[k + 1] \in keep THEN Append(F0[k], s[k + 1]) ELSE F0[k]
  BY SelFSteps
<1> HIDE DEF F0
<1>2. 0..Len(s) \subseteq {i \in 0..Len(s) : F0[i] \in Seq(Ids)}
  <2> DEFINE S == {i \in 0..Len(s) : F0[i] \in Seq(Ids)}
  <2>1. 0 \in S
    <3>1. <<>> \in Seq(Ids) /\ 0 \in 0..Len(s)
      BY <1>0
    <3>. QED  BY <1>1, <3>1
  <2>2. \A k \in 0..(Len(s) - 1) : k \in S => k + 1 \in S
    <3> SUFFICES ASSUME NEW k \in 0..(Len(s) - 1), F0[k] \in Seq(Ids)
                 PROVE  F0[k + 1] \in Seq(Ids)
      BY <1>0
    <3>1. s[k + 1] \in Ids
      BY <1>0
    <3>2. Append(F0[k], s[k + 1]) \in Seq(Ids)
      BY <3>1
    <3>. QED  BY <1>1, <3>2
  <2> HIDE DEF S
  <2>3. 0..Len(s) \subseteq S
    <3>1. 0 \in Nat /\ Len(s) \in Int
      BY <1>0
    <3>. QED  BY <2>1, <2>2, <3>1, IntervalInduction
  <2>. QED  BY <2>3 DEF S
<1>. QED  BY <1>0, <1>2, SelectInDef DEF F0

-----------------------------------------------------------------------------
(* Every authenticated id is rooted.                                       *)

\* The inductive invariant: the store is one the check can meet, the
\* worklist holds ids, and every authenticated id is a root or rooted.
OInv ==
  /\ store \in StoreStates
  /\ toAuthenticate \in Seq(Ids)
  /\ authenticated \subseteq Ids
  /\ AuthenticatedRooted

\* A store the check can meet maps ids to owners.
LEMMA StoreStatesOK ==
  ASSUME store \in StoreStates
  PROVE  StoreOK
BY DEF StoreStates, StoreOK

\* Popping the worklist (Vec::pop) leaves a sequence of ids and returns an id.
LEMMA PopType ==
  ASSUME NEW q \in Seq(Ids), q # <<>>
  PROVE  Front(q) \in Seq(Ids) /\ Last(q) \in Ids
BY DEF Front, Last

\* The roots, and so the rooted ids, are the same in a step that keeps
\* the store.
LEMMA StoreStable ==
  ASSUME store' = store
  PROVE  /\ Decision!AuthRoots' = Decision!AuthRoots
         /\ \A id : Rooted(id)' = Rooted(id)
<1>1. Decision!AuthRoots' = Decision!AuthRoots
  BY DEF Decision!AuthRoots
<1>2. \A y : Decision!ParentOf(y)' = Decision!ParentOf(y)
  BY <1>1 DEF Decision!ParentOf
<1>3. \A y : Decision!AncestorsOf(y)' = Decision!AncestorsOf(y)
  BY <1>2, Zenon DEF Decision!AncestorsOf
<1>. QED  BY <1>1, <1>3 DEF Rooted, Decision!Chain

\* In such a step AuthenticatedRooted is about the new authenticated set.
LEMMA RootedPrime ==
  ASSUME store' = store
  PROVE  AuthenticatedRooted' <=>
           \A id \in authenticated' : id \in Decision!AuthRoots \/ Rooted(id)
BY StoreStable DEF AuthenticatedRooted

\* With no input panic, the roots get_objects_to_authenticate authenticates
\* are the sender's inputs and the shared inputs.
LEMMA RootsAuthorised ==
  ASSUME store \in StoreStates, ~InputPanics
  PROVE  Roots \subseteq Decision!AuthRoots
<1> SUFFICES ASSUME NEW id \in Roots PROVE id \in Decision!AuthRoots
  OBVIOUS
<1>1. id \in Inputs \ GasCoins /\ store[id] \in Owners
  BY OwnershipAssumption DEF Roots, StoreStates
<1>2. store[id] = AddressOwner(Sender) \/ store[id] = Shared
  BY <1>1 DEF Roots, InputPanics, Owners, AddressOwner, ObjectOwner, Shared, Immutable
<1>. QED  BY <1>1, <1>2 DEF Decision!AuthRoots, Decision!AddressOwner, Decision!Shared,
                           AddressOwner, Shared

\* The check starts with an empty worklist and nothing authenticated.
LEMMA InitOInv == Init => OInv
BY DEF Init, OInv, AuthenticatedRooted

\* get_objects_to_authenticate authenticates only roots, and its worklist
\* holds ids.
LEMMA GetOInv ==
  ASSUME OInv, GetObjectsToAuthenticate
  PROVE  OInv'
<1>1. store' = store /\ store' \in StoreStates
  BY DEF OInv, GetObjectsToAuthenticate
<1>2. CASE InputPanics \/ ModifiedPanics
  <2>1. toAuthenticate' = toAuthenticate /\ authenticated' = authenticated
    BY <1>2 DEF GetObjectsToAuthenticate
  <2>. QED  BY <1>1, <2>1, RootedPrime DEF OInv, AuthenticatedRooted
<1>3. CASE ~(InputPanics \/ ModifiedPanics)
  <2>1. toAuthenticate' = SelectIn(IdOrder, {id \in LookedUp : store[id].kind = "object"})
        /\ authenticated' = Roots
    BY <1>3 DEF GetObjectsToAuthenticate
  <2>2. toAuthenticate' \in Seq(Ids)
    <3>1. IdOrder \in Seq(Ids)
      BY OwnershipAssumption
    <3>. QED  BY <2>1, <3>1, SelectInType
  <2>3. Roots \subseteq Decision!AuthRoots
    BY <1>3, RootsAuthorised DEF OInv
  <2>4. authenticated' \subseteq Ids
    BY <2>1, <2>3, RootsAreIds
  <2>. QED  BY <1>1, <2>1, <2>2, <2>3, <2>4, RootedPrime DEF OInv
<1>. QED  BY <1>2, <1>3

\* One iteration of the worklist authenticates a popped id only when its
\* owner is authenticated, and pushes only ids.
LEMMA StepOInv ==
  ASSUME OInv, AuthenticateStep
  PROVE  OInv'
<1> DEFINE x == Last(toAuthenticate)
           rest == Front(toAuthenticate)
<1>0. /\ store' = store /\ store \in StoreStates /\ StoreOK
      /\ toAuthenticate \in Seq(Ids) /\ toAuthenticate # <<>>
      /\ authenticated \subseteq Ids /\ AuthenticatedRooted
  BY StoreStatesOK DEF OInv, AuthenticateStep
<1>1. x \in Ids /\ rest \in Seq(Ids)
  BY <1>0, PopType
<1>2. CASE store[x] = NoObj
  <2>1. toAuthenticate' = rest /\ authenticated' = authenticated
    BY <1>2 DEF AuthenticateStep
  <2>. QED  BY <1>0, <1>1, <2>1, RootedPrime DEF OInv, AuthenticatedRooted
<1>3. CASE store[x] # NoObj /\ store[x].kind # "object"
  <2>1. toAuthenticate' = toAuthenticate /\ authenticated' = authenticated
    BY <1>3 DEF AuthenticateStep
  <2>. QED  BY <1>0, <2>1, RootedPrime DEF OInv, AuthenticatedRooted
<1>4. CASE store[x] # NoObj /\ store[x].kind = "object"
  <2> DEFINE p == store[x].who
  <2>1. Cover(x, p)
    BY <1>4 DEF AuthenticateStep
  <2>2. p \in Ids /\ store[x] = ObjectOwner(p)
    BY <1>0, <1>1, <1>4
       DEF StoreOK, Owners, AddressOwner, ObjectOwner, Shared, Immutable
  <2>3. CASE p \in authenticated
    <3>1. authenticated' = authenticated \cup {x} /\ toAuthenticate' = rest
      BY <2>1, <2>3 DEF Cover
    <3>2. x \in Decision!AuthRoots \/ Rooted(x)
      <4>1. CASE x \notin Decision!AuthRoots
        <5>1. Decision!ParentOf(x) = p
          BY <1>4, <4>1 DEF Decision!ParentOf
        <5>2. p \in Decision!AuthRoots \/ Rooted(p)
          BY <1>0, <2>3 DEF AuthenticatedRooted
        <5>. QED  BY <1>0, <1>1, <2>2, <5>1, <5>2, ChainExtends
      <4>. QED  BY <4>1
    <3>. QED  BY <1>0, <1>1, <3>1, <3>2, RootedPrime DEF OInv, AuthenticatedRooted
  <2>4. CASE p \notin authenticated
    <3>1. authenticated' = authenticated
          /\ toAuthenticate' \in {Append(rest, p), rest}
      BY <2>1, <2>4 DEF Cover
    <3>2. toAuthenticate' \in Seq(Ids)
      BY <1>1, <2>2, <3>1
    <3>. QED  BY <1>0, <3>1, <3>2, RootedPrime DEF OInv, AuthenticatedRooted
  <2>. QED  BY <2>3, <2>4
<1>. QED  BY <1>2, <1>3, <1>4

\* Returning Ok or an error changes nothing the invariant is about.
LEMMA EndOInv ==
  ASSUME OInv, Finish \/ StoreError \/ UNCHANGED vars
  PROVE  OInv'
<1>1. UNCHANGED <<store, toAuthenticate, authenticated>>
  BY DEF Finish, StoreError, vars
<1>. QED  BY <1>1, RootedPrime DEF OInv, AuthenticatedRooted

\* Every step of the check keeps the invariant.
LEMMA NextOInv == OInv /\ [Next]_vars => OInv'
BY GetOInv, StepOInv, EndOInv DEF Next

\* check_ownership_invariants never authenticates an object that is not a
\* root unless a chain of ownership leads from it to a root, whatever the
\* store and the order of the worklist.
THEOREM AuthenticatedAlwaysRooted == Spec => []AuthenticatedRooted
<1>1. Init => OInv
  BY InitOInv
<1>2. OInv /\ [Next]_vars => OInv'
  BY NextOInv
<1>3. OInv => AuthenticatedRooted
  BY DEF OInv
<1>. QED  BY <1>1, <1>2, <1>3, PTL DEF Spec
=============================================================================
