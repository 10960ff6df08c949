---------------------- MODULE OwnershipRefinementProofs ----------------------
(***************************************************************************)
(* The worklist of check_ownership_invariants implements the safety part  *)
(* of OwnershipDecision: every step of OwnershipCheck is a Decide, a Fail *)
(* or a stutter of the abstract check under the mapping of outcome to the *)
(* terminal phase.  The argument is an invariant saying what the worklist *)
(* has explored: every id pushed is still on the worklist, is a root, has *)
(* no object, or has been popped and covered by its owner, which is then  *)
(* pushed in turn.  When the worklist is empty every chain of owners from *)
(* a start has been followed to its end.                                   *)
(***************************************************************************)
EXTENDS OwnershipCheckProofs

-----------------------------------------------------------------------------
(* The worklist as a set.                                                  *)

\* The empty worklist holds nothing.
LEMMA ToSetEmpty == ToSet(<<>>) = {}
BY DEF ToSet

\* A push (Vec::push) adds exactly the pushed id.
LEMMA ToSetAppend ==
  ASSUME NEW q \in Seq(Ids), NEW e
  PROVE  ToSet(Append(q, e)) = ToSet(q) \cup {e}
<1>1. /\ DOMAIN Append(q, e) = 1..(Len(q) + 1) /\ DOMAIN q = 1..Len(q)
      /\ \A i \in 1..Len(q) : Append(q, e)[i] = q[i]
      /\ Append(q, e)[Len(q) + 1] = e
  OBVIOUS
<1>2. ASSUME NEW y
      PROVE  (\E i \in 1..(Len(q) + 1) : Append(q, e)[i] = y)
             <=> (\E i \in 1..Len(q) : q[i] = y) \/ y = e
  BY <1>1
<1>. QED  BY <1>1, <1>2 DEF ToSet

\* A pop (Vec::pop) removes the last id, which may still occur earlier.
LEMMA ToSetPop ==
  ASSUME NEW q \in Seq(Ids), q # <<>>
  PROVE  ToSet(q) = ToSet(Front(q)) \cup {Last(q)}
<1>1. /\ Len(q) \in Nat \ {0} /\ DOMAIN q = 1..Len(q)
      /\ DOMAIN Front(q) = 1..(Len(q) - 1)
      /\ \A i \in 1..(Len(q) - 1) : Front(q)[i] = q[i]
      /\ Last(q) = q[Len(q)]
  BY DEF Front, Last
<1>2. ASSUME NEW y
      PROVE  (\E i \in 1..Len(q) : q[i] = y)
             <=> (\E i \in 1..(Len(q) - 1) : Front(q)[i] = y) \/ y = Last(q)
  BY <1>1
<1>. QED  BY <1>1, <1>2 DEF ToSet

\* SelectIn keeps exactly the elements of s that are in keep.
LEMMA SelectInSet ==
  ASSUME NEW s \in Seq(Ids), NEW keep
  PROVE  ToSet(SelectIn(s, keep)) = {s[k] : k \in 1..Len(s)} \cap keep
<1> DEFINE F0 == SelF(s, keep)
           Sel(i) == {s[k] : k \in 1..i} \cap keep
<1>0. Len(s) \in Nat
  OBVIOUS
<1>1. /\ F0[0] = <<>>
      /\ \A k \in 0..(Len(s) - 1) :
            F0[k + 1] = IF s[k + 1] \in keep THEN Append(F0[k], s[k + 1]) ELSE F0[k]
  BY SelFSteps
<1> HIDE DEF F0
<1>2. 0..Len(s) \subseteq {i \in 0..Len(s) : F0[i] \in Seq(Ids) /\ ToSet(F0[i]) = Sel(i)}
  <2> DEFINE S == {i \in 0..Len(s) : F0[i] \in Seq(Ids) /\ ToSet(F0[i]) = Sel(i)}
  <2>1. 0 \in S
    <3>1. <<>> \in Seq(Ids) /\ 0 \in 0..Len(s) /\ Sel(0) = {}
      BY <1>0
    <3>. QED  BY <1>1, <3>1, ToSetEmpty
  <2>2. ASSUME NEW k \in 0..(Len(s) - 1), k \in S PROVE k + 1 \in S
    <3>0. F0[k] \in Seq(Ids) /\ ToSet(F0[k]) = Sel(k)
      BY <2>2
    <3>1. s[k + 1] \in Ids /\ k + 1 \in 0..Len(s)
      BY <1>0
    <3>2. {s[j] : j \in 1..(k + 1)} = {s[j] : j \in 1..k} \cup {s[k + 1]}
      <4>1. ASSUME NEW y
            PROVE  (\E j \in 1..(k + 1) : s[j] = y) <=> (\E j \in 1..k : s[j] = y) \/ y = s[k + 1]
        OBVIOUS
      <4>. QED  BY <4>1
    <3>3. ASSUME s[k + 1] \in keep
          PROVE F0[k + 1] \in Seq(Ids) /\ ToSet(F0[k + 1]) = Sel(k + 1)
      <4>1. F0[k + 1] = Append(F0[k], s[k + 1])
        BY <1>1, <3>3
      <4>2. ToSet(F0[k + 1]) = ToSet(F0[k]) \cup {s[k + 1]}
        BY <3>0, <3>1, <4>1, ToSetAppend
      <4>3. Sel(k + 1) = Sel(k) \cup {s[k + 1]}
        BY <3>2, <3>3
      <4>4. F0[k + 1] \in Seq(Ids)
        BY <3>0, <3>1, <4>1
      <4> HIDE DEF Sel
      <4>. QED  BY <3>0, <4>2, <4>3, <4>4
    <3>4. ASSUME s[k + 1] \notin keep
          PROVE F0[k + 1] \in Seq(Ids) /\ ToSet(F0[k + 1]) = Sel(k + 1)
      <4>1. F0[k + 1] = F0[k]
        BY <1>1, <3>4
      <4>2. Sel(k + 1) = Sel(k)
        BY <3>2, <3>4
      <4>. QED  BY <3>0, <4>1, <4>2
    <3>5. F0[k + 1] \in Seq(Ids) /\ ToSet(F0[k + 1]) = Sel(k + 1)
      BY <3>3, <3>4, Zenon
    <3>. QED  BY <3>1, <3>5
  <2> HIDE DEF S, Sel
  <2>3. 0..Len(s) \subseteq S
    <3>1. 0 \in Nat /\ Len(s) \in Int
      BY <1>0
    <3>. QED  BY <2>1, <2>2, <3>1, IntervalInduction
  <2>. QED  BY <2>3 DEF S
<1>3. ToSet(F0[Len(s)]) = Sel(Len(s))
  <2>1. Len(s) \in 0..Len(s)
    BY <1>0
  <2>. QED  BY <2>1, <1>2, Zenon
<1>. QED  BY <1>3, SelectInDef DEF F0
-----------------------------------------------------------------------------
(* The ids the abstract check explores.                                    *)

\* The object-owned examined ids: the chains of Explored start there.
Starts == {id \in Decision!Examined : store[id] # NoObj /\ store[id].kind = "object"}

\* Explored is the starts and the chains of owners above them.
LEMMA ExploredDef ==
  Decision!Explored = Starts \cup UNION {Decision!AncestorsOf(x) : x \in Starts}
BY DEF Decision!Explored, Starts

\* The chain above an id holds ids.
LEMMA AncestorsIds ==
  ASSUME StoreOK, NEW x \in Node
  PROVE  Decision!AncestorsOf(x) \subseteq Ids
<1>1. \A j \in 1..N : Up(x)[j] \in Node
  BY UpType, IdsFinite
<1>. QED  BY <1>1, AncestorsUp DEF Node

\* Every explored id is an id.
LEMMA ExploredIds ==
  ASSUME StoreOK, modified \subseteq Ids
  PROVE  Decision!Explored \subseteq Ids
<1>1. Starts \subseteq Ids
  BY DEF Starts, Decision!Examined
<1>. QED  BY <1>1, ExploredDef, AncestorsIds DEF Node

\* The owner of an explored id, if the walk goes on, is explored: the
\* chain above a start is closed under the owner step, since a chain of
\* N steps that has not ended returns to an id it met before.
LEMMA ExploredClosed ==
  ASSUME StoreOK, modified \subseteq Ids, NEW y \in Decision!Explored,
         Decision!ParentOf(y) # NoId
  PROVE  Decision!ParentOf(y) \in Decision!Explored
<1>0. N \in Nat /\ NoId \notin Ids /\ y \in Ids
  BY IdsFinite, OwnershipAssumption, ExploredIds
<1>1. CASE y \in Starts
  <2>1. N >= 1
    BY <1>0, SomeId
  <2>2. Up(y)[1] = Decision!ParentOf(y)
    <3>1. Up(y)[1] = Step(Up(y)[0]) /\ Up(y)[0] = y
      BY <1>0, <2>1, UpSteps DEF Node
    <3>. QED  BY <1>0, <3>1 DEF Step
  <2>3. Decision!ParentOf(y) \in Decision!AncestorsOf(y)
    BY <1>0, <2>1, <2>2, AncestorsUp
  <2>. QED  BY <1>1, <2>3, ExploredDef
<1>2. CASE y \notin Starts
  <2>1. PICK x \in Starts : y \in Decision!AncestorsOf(x)
    BY <1>2, ExploredDef
  <2>2. x \in Ids
    BY DEF Starts, Decision!Examined
  <2>3. PICK j \in 1..N : Up(x)[j] = y
    BY <2>1, AncestorsUp
  <2>4. PICK i \in 0..(N - 1) : Up(x)[i] = y
    <3>1. CASE j < N
      <4>1. j \in 0..(N - 1)
        BY <1>0, <3>1
      <4>. QED  BY <2>3, <4>1
    <3>2. CASE j = N
      BY <1>0, <2>2, <2>3, <3>2, LastRepeats DEF Node
    <3>. QED  BY <1>0, <3>1, <3>2
  <2>5. Up(x)[i + 1] = Decision!ParentOf(y)
    <4>1. i + 1 \in 1..N
      BY <1>0
    <4>2. Up(x)[i + 1] = Step(y)
      BY <2>2, <2>4, <4>1, UpSteps DEF Node
    <4>. QED  BY <1>0, <4>2 DEF Step
  <2>6. Decision!ParentOf(y) \in Decision!AncestorsOf(x)
    <3>1. i + 1 \in 1..N
      BY <1>0
    <3>. QED  BY <2>5, <3>1, AncestorsUp
  <2>. QED  BY <2>6, ExploredDef
<1>. QED  BY <1>1, <1>2
-----------------------------------------------------------------------------
(* The invariant of the worklist.                                          *)

\* y has been pushed: it is a start, or an id covers it as its owner.
Pushed(y) == y \in Starts \/ \E z \in Ids : covered[z] = y

\* y is still to be popped, is a root, has no object, or was popped and
\* covered by its owner.
Handled(y) ==
  \/ y \in ToSet(toAuthenticate) \/ y \in Decision!AuthRoots
  \/ store[y] = NoObj \/ covered[y] # NoId

\* The check is in its worklist, or has returned Ok from it.
Walking == phase \in {"walk", "ok"}

\* What the worklist has done, once get_objects_to_authenticate returned.
WalkInv ==
  /\ ~InputPanics /\ ~ModifiedPanics
  /\ Decision!AuthRoots \subseteq authenticated
  /\ \A y \in authenticated \ Decision!AuthRoots : covered[y] # NoId
  /\ \A y \in ToSet(toAuthenticate) : y \in Decision!Explored /\ y \notin Decision!AuthRoots
  /\ \A y \in Ids : Pushed(y) => Handled(y)

\* An id is covered only after it was popped as an explored object-owned
\* id that is no root, and it is covered by its owner.
CoveredOK ==
  \A z \in Ids : covered[z] # NoId =>
     /\ z \in Decision!Explored /\ z \notin Decision!AuthRoots
     /\ store[z] # NoObj /\ store[z].kind = "object" /\ covered[z] = store[z].who

\* Each outcome is the abstract check's.
Outcomes ==
  /\ phase = "ok" => toAuthenticate = <<>> /\ Decision!AcceptedByReachability
  /\ phase = "panicked" => ~Decision!AcceptedByReachability
  /\ phase = "error" => Decision!Examined # {}

\* The inductive invariant of the refinement.
RInv ==
  /\ OInv
  /\ modified \subseteq Ids
  /\ covered \in [Ids -> Node]
  /\ phase \in {"start", "walk", "ok", "panicked", "error"}
  /\ phase = "start" =>
        toAuthenticate = <<>> /\ authenticated = {} /\ covered = [id \in Ids |-> NoId]
  /\ Walking => WalkInv
  /\ CoveredOK
  /\ Outcomes

\* The check starts before get_objects_to_authenticate.
LEMMA InitRInv == Init => RInv
<1> SUFFICES ASSUME Init PROVE RInv
  OBVIOUS
<1>1. OInv
  BY InitOInv
<1>2. covered \in [Ids -> Node] /\ CoveredOK
  BY DEF Init, Node, CoveredOK
<1>. QED  BY <1>1, <1>2 DEF Init, RInv, Walking, Outcomes

\* The store and the modified ids never change, and with them nothing the
\* abstract check decides on.
LEMMA DecisionStable ==
  ASSUME store' = store, modified' = modified
  PROVE  /\ Decision!AuthRoots' = Decision!AuthRoots
         /\ Decision!Examined' = Decision!Examined
         /\ Decision!Explored' = Decision!Explored
         /\ Decision!AcceptedByReachability' = Decision!AcceptedByReachability
         /\ Starts' = Starts
         /\ InputPanics' = InputPanics /\ ModifiedPanics' = ModifiedPanics
         /\ Roots' = Roots /\ LookedUp' = LookedUp
<1>1. Decision!AuthRoots' = Decision!AuthRoots
  BY DEF Decision!AuthRoots
<1>2. Decision!Examined' = Decision!Examined
  BY <1>1 DEF Decision!Examined
<1>3. \A y : Decision!AncestorsOf(y)' = Decision!AncestorsOf(y)
  <2>1. \A y : Decision!ParentOf(y)' = Decision!ParentOf(y)
    BY <1>1 DEF Decision!ParentOf
  <2>. QED  BY <2>1, Zenon DEF Decision!AncestorsOf
<1>4. Starts' = Starts
  BY <1>2 DEF Starts
<1>5. Decision!Explored' = Decision!Explored
  <2>1. {id \in Decision!Examined' : store'[id] # NoObj /\ store'[id].kind = "object"}
        = Starts
    BY <1>2 DEF Starts
  <2>. QED  BY <1>3, <2>1, Zenon DEF Decision!Explored, Starts
<1>6. Decision!AcceptedByReachability' = Decision!AcceptedByReachability
  BY <1>1, <1>2, <1>5
     DEF Decision!AcceptedByReachability, Decision!InputsAuthorised, Decision!ModifiedAllowed
<1>7. Roots' = Roots /\ LookedUp' = LookedUp
  BY DEF Roots, LookedUp
<1>. QED  BY <1>1, <1>2, <1>4, <1>5, <1>6, <1>7 DEF InputPanics, ModifiedPanics

-----------------------------------------------------------------------------
(* get_objects_to_authenticate against the abstract check.                 *)

\* The sender's and the shared inputs are among the roots the code takes.
LEMMA AuthRootsInRoots == Decision!AuthRoots \subseteq Roots
BY DEF Decision!AuthRoots, Roots, Decision!AddressOwner, Decision!Shared

\* With no input panic the ids looked up are the examined ones.
LEMMA LookedUpExamined ==
  ASSUME store \in StoreStates, ~InputPanics
  PROVE  LookedUp = Decision!Examined
BY RootsAuthorised, AuthRootsInRoots DEF LookedUp, Decision!Examined

\* With no panic the ids pushed first are the starts of the abstract check.
LEMMA StartsExact ==
  ASSUME store \in StoreStates, ~InputPanics, ~ModifiedPanics
  PROVE  Starts = {id \in LookedUp : store[id].kind = "object"}
BY LookedUpExamined DEF Starts, ModifiedPanics

\* An input or a modified id that makes get_objects_to_authenticate panic
\* makes the abstract check reject.
LEMMA PanicRejected ==
  ASSUME store \in StoreStates, InputPanics \/ ModifiedPanics
  PROVE  ~Decision!AcceptedByReachability
<1>1. CASE InputPanics
  <2>1. PICK id \in Inputs \ GasCoins :
           \/ store[id].kind = "address" /\ store[id].who # Sender
           \/ store[id].kind = "object"
    BY <1>1 DEF InputPanics
  <2>2. store[id] \notin {AddressOwner(Sender), Shared, Immutable}
    BY <2>1 DEF AddressOwner, Shared, Immutable
  <2>3. ~Decision!InputsAuthorised
    BY <2>1, <2>2 DEF Decision!InputsAuthorised, Decision!AddressOwner, Decision!Shared,
                      Decision!Immutable, AddressOwner, Shared, Immutable
  <2>. QED  BY <2>3 DEF Decision!AcceptedByReachability
<1>2. CASE ~InputPanics /\ ModifiedPanics
  <2>1. PICK id \in Decision!Examined :
           \/ store[id] = NoObj
           \/ store[id].kind \in {"address", "shared"}
           \/ store[id].kind = "immutable" /\ ~(IsEpochChange /\ id \in SystemPackages)
    BY <1>2, LookedUpExamined DEF ModifiedPanics
  <2>2. ~Decision!ModifiedAllowed
    BY <2>1 DEF Decision!ModifiedAllowed, Decision!Immutable
  <2>. QED  BY <2>2 DEF Decision!AcceptedByReachability
<1>. QED  BY <1>1, <1>2

\* The worklist get_objects_to_authenticate builds holds exactly the starts.
LEMMA FirstWorklist ==
  ASSUME store \in StoreStates, modified \subseteq Ids, ~InputPanics, ~ModifiedPanics
  PROVE  ToSet(SelectIn(IdOrder, {id \in LookedUp : store[id].kind = "object"})) = Starts
<1>1. IdOrder \in Seq(Ids) /\ {IdOrder[k] : k \in 1..Len(IdOrder)} = Ids
  BY OwnershipAssumption DEF ToSet
<1>2. {id \in LookedUp : store[id].kind = "object"} \subseteq Ids
  BY DEF LookedUp
<1>. QED  BY <1>1, <1>2, SelectInSet, StartsExact

\* get_objects_to_authenticate either panics, as the abstract check
\* rejects, or starts the walk from the starts with the roots authenticated.
LEMMA GetRInv ==
  ASSUME RInv, GetObjectsToAuthenticate
  PROVE  RInv'
<1>0. /\ phase = "start" /\ toAuthenticate = <<>> /\ authenticated = {}
      /\ covered = [id \in Ids |-> NoId] /\ covered' = covered
      /\ store' = store /\ modified' = modified
      /\ store \in StoreStates /\ modified \subseteq Ids
  BY DEF RInv, OInv, GetObjectsToAuthenticate
<1>1. OInv'
  BY GetOInv DEF RInv
<1>2. covered' \in [Ids -> Node] /\ CoveredOK'
  BY <1>0 DEF CoveredOK, Node
<1>3. CASE InputPanics \/ ModifiedPanics
  <2>1. phase' = "panicked"
    BY <1>3 DEF GetObjectsToAuthenticate
  <2>2. ~Decision!AcceptedByReachability'
    BY <1>0, <1>3, PanicRejected, DecisionStable
  <2>. QED  BY <1>0, <1>1, <1>2, <2>1, <2>2 DEF RInv, Walking, Outcomes
<1>4. CASE ~(InputPanics \/ ModifiedPanics)
  <2>1. /\ toAuthenticate' = SelectIn(IdOrder, {id \in LookedUp : store[id].kind = "object"})
        /\ authenticated' = Roots /\ phase' = "walk"
    BY <1>4 DEF GetObjectsToAuthenticate
  <2>2. ToSet(toAuthenticate') = Starts
    BY <1>0, <1>4, <2>1, FirstWorklist
  <2>3. Roots = Decision!AuthRoots
    BY <1>0, <1>4, RootsAuthorised, AuthRootsInRoots
  <2>4. Starts \subseteq Decision!Explored /\ Starts \cap Decision!AuthRoots = {}
    BY ExploredDef DEF Starts, Decision!Examined
  <2>5. \A y \in Ids : Pushed(y)' => y \in Starts
    BY <1>0, DecisionStable, OwnershipAssumption DEF Pushed
  <2>6. WalkInv'
    <3>1. ~InputPanics' /\ ~ModifiedPanics'
      BY <1>0, <1>4, DecisionStable
    <3>2. Decision!AuthRoots' \subseteq authenticated'
      BY <1>0, <2>1, <2>3, DecisionStable
    <3>3. \A y \in authenticated' \ Decision!AuthRoots' : covered'[y] # NoId
      BY <1>0, <2>1, <2>3, DecisionStable
    <3>4. \A y \in ToSet(toAuthenticate') :
             y \in Decision!Explored' /\ y \notin Decision!AuthRoots'
      BY <1>0, <2>2, <2>4, DecisionStable
    <3>5. \A y \in Ids : Pushed(y)' => Handled(y)'
      BY <2>2, <2>5 DEF Handled
    <3>. QED  BY <3>1, <3>2, <3>3, <3>4, <3>5 DEF WalkInv
  <2>. QED  BY <1>0, <1>1, <1>2, <2>1, <2>6 DEF RInv, Walking, Outcomes
<1>. QED  BY <1>3, <1>4

-----------------------------------------------------------------------------
(* One iteration of the worklist.                                          *)

\* A popped id that is an unauthenticated root makes the abstract check
\* reject: it is explored, no root, has an object and is not owned by one.
LEMMA PoppedRootRejected ==
  ASSUME NEW x \in Decision!Explored, x \notin Decision!AuthRoots,
         store[x] # NoObj, store[x].kind # "object"
  PROVE  ~Decision!AcceptedByReachability
BY DEF Decision!AcceptedByReachability

\* The iteration pops x and, when x is object-owned, covers it by its
\* owner p, pushing p unless p is authenticated or covered: every pushed
\* id stays handled, and every id on the worklist stays explored.
LEMMA StepRInv ==
  ASSUME RInv, AuthenticateStep
  PROVE  RInv'
<1> DEFINE x == Last(toAuthenticate)
           rest == Front(toAuthenticate)
<1>0. /\ phase = "walk" /\ WalkInv /\ CoveredOK /\ covered \in [Ids -> Node]
      /\ store' = store /\ modified' = modified
      /\ store \in StoreStates /\ StoreOK /\ modified \subseteq Ids
      /\ toAuthenticate \in Seq(Ids) /\ toAuthenticate # <<>>
      /\ authenticated \subseteq Ids
  BY StoreStatesOK DEF RInv, OInv, AuthenticateStep, Walking
<1>1. /\ x \in Ids /\ rest \in Seq(Ids)
      /\ ToSet(toAuthenticate) = ToSet(rest) \cup {x}
  BY <1>0, PopType, ToSetPop
<1>2. x \in Decision!Explored /\ x \notin Decision!AuthRoots
  BY <1>0, <1>1 DEF WalkInv
<1>3. OInv'
  BY StepOInv DEF RInv
<1>4. /\ Decision!AuthRoots' = Decision!AuthRoots
      /\ Decision!Explored' = Decision!Explored
      /\ Decision!AcceptedByReachability' = Decision!AcceptedByReachability
      /\ Starts' = Starts
      /\ InputPanics' = InputPanics /\ ModifiedPanics' = ModifiedPanics
  BY <1>0, DecisionStable
<1>5. CASE store[x] = NoObj
  <2>1. /\ toAuthenticate' = rest /\ phase' = phase
        /\ authenticated' = authenticated /\ covered' = covered
    BY <1>5 DEF AuthenticateStep
  <2>2. \A y \in Ids : Pushed(y)' => Handled(y)'
    <3> SUFFICES ASSUME NEW y \in Ids, Pushed(y)' PROVE Handled(y)'
      OBVIOUS
    <3>1. Handled(y)
      BY <1>0, <1>4, <2>1 DEF Pushed, WalkInv
    <3>. QED  BY <1>0, <1>1, <1>4, <1>5, <2>1, <3>1 DEF Handled
  <2>3. WalkInv'
    BY <1>0, <1>1, <1>4, <2>1, <2>2 DEF WalkInv
  <2>. QED  BY <1>0, <1>3, <1>4, <2>1, <2>3 DEF RInv, Walking, CoveredOK, Outcomes
<1>6. CASE store[x] # NoObj /\ store[x].kind # "object"
  <2>1. /\ phase' = "panicked" /\ covered' = covered
    BY <1>6 DEF AuthenticateStep
  <2>2. ~Decision!AcceptedByReachability'
    BY <1>2, <1>4, <1>6, PoppedRootRejected
  <2>. QED  BY <1>0, <1>3, <1>4, <2>1, <2>2 DEF RInv, Walking, CoveredOK, Outcomes
<1>7. CASE store[x] # NoObj /\ store[x].kind = "object"
  <2> DEFINE p == store[x].who
  <2>1. /\ Cover(x, p) /\ phase' = phase
        /\ covered' = [covered EXCEPT ![x] = p]
    BY <1>7 DEF AuthenticateStep, Cover
  <2>2. p \in Ids /\ p # NoId /\ Decision!ParentOf(x) = p
    <3>1. p \in Ids
      BY <1>0, <1>1, <1>7
         DEF StoreOK, Owners, AddressOwner, ObjectOwner, Shared, Immutable
    <3>2. Decision!ParentOf(x) = p
      BY <1>2, <1>7 DEF Decision!ParentOf
    <3>. QED  BY <3>1, <3>2, OwnershipAssumption
  <2>3. p \in Decision!Explored
    BY <1>0, <1>2, <2>2, ExploredClosed
  <2>4. covered' \in [Ids -> Node] /\ covered'[x] = p
    BY <1>0, <1>1, <2>1, <2>2 DEF Node
  <2>5. \A y \in Ids : covered[y] # NoId => covered'[y] # NoId
    BY <1>0, <2>1, <2>2
  <2>6. \A y \in Ids : Pushed(y)' => Pushed(y) \/ y = p
    BY <1>0, <1>4, <2>1 DEF Pushed
  <2>7. CoveredOK'
    <3> SUFFICES ASSUME NEW z \in Ids, covered'[z] # NoId
                 PROVE  /\ z \in Decision!Explored /\ z \notin Decision!AuthRoots
                        /\ store[z] # NoObj /\ store[z].kind = "object"
                        /\ covered'[z] = store[z].who
      BY <1>0, <1>4 DEF CoveredOK
    <3>1. CASE z = x
      BY <1>2, <1>7, <2>4, <3>1
    <3>2. CASE z # x
      BY <1>0, <2>1, <3>2 DEF CoveredOK
    <3>. QED  BY <3>1, <3>2
  <2>8. CASE p \in authenticated
    <3>1. authenticated' = authenticated \cup {x} /\ toAuthenticate' = rest
      BY <2>1, <2>8 DEF Cover
    <3>2. \A y \in authenticated' \ Decision!AuthRoots : covered'[y] # NoId
      BY <1>0, <2>2, <2>4, <2>5, <3>1 DEF WalkInv
    <3>3. \A y \in Ids : Pushed(y)' => Handled(y)'
      <4> SUFFICES ASSUME NEW y \in Ids, Pushed(y)' PROVE Handled(y)'
        OBVIOUS
      <4>1. CASE y = p
        <5>1. p \in Decision!AuthRoots \/ covered[p] # NoId
          BY <1>0, <2>8 DEF WalkInv
        <5>. QED  BY <1>4, <2>2, <2>5, <4>1, <5>1 DEF Handled
      <4>2. CASE y # p
        <5>1. Handled(y)
          BY <1>0, <2>6, <4>2 DEF WalkInv
        <5>. QED  BY <1>0, <1>1, <1>4, <2>2, <2>4, <2>5, <3>1, <5>1 DEF Handled
      <4>. QED  BY <4>1, <4>2
    <3>4. WalkInv'
      BY <1>0, <1>1, <1>4, <3>1, <3>2, <3>3 DEF WalkInv
    <3>. QED  BY <1>0, <1>3, <2>1, <2>4, <2>7, <3>4 DEF RInv, Walking, Outcomes
  <2>9. CASE p \notin authenticated
    <3>1. /\ authenticated' = authenticated
          /\ toAuthenticate' = IF covered[p] = NoId THEN Append(rest, p) ELSE rest
      BY <2>1, <2>9 DEF Cover, NotCovered
    <3>2. /\ ToSet(rest) \subseteq ToSet(toAuthenticate')
          /\ ToSet(toAuthenticate') \subseteq ToSet(rest) \cup {p}
          /\ covered[p] = NoId => p \in ToSet(toAuthenticate')
      BY <1>1, <3>1, ToSetAppend
    <3>3. p \notin Decision!AuthRoots
      BY <1>0, <2>9 DEF WalkInv
    <3>4. \A y \in Ids : Pushed(y)' => Handled(y)'
      <4> SUFFICES ASSUME NEW y \in Ids, Pushed(y)' PROVE Handled(y)'
        OBVIOUS
      <4>1. CASE y = p
        BY <1>4, <2>2, <2>5, <3>2, <4>1 DEF Handled
      <4>2. CASE y # p
        <5>1. Handled(y)
          BY <1>0, <2>6, <4>2 DEF WalkInv
        <5>. QED  BY <1>0, <1>1, <1>4, <2>2, <2>4, <2>5, <3>2, <5>1 DEF Handled
      <4>. QED  BY <4>1, <4>2
    <3>5. WalkInv'
      <4>1. \A y \in ToSet(toAuthenticate') :
               y \in Decision!Explored /\ y \notin Decision!AuthRoots
        <5> SUFFICES ASSUME NEW y \in ToSet(toAuthenticate')
                     PROVE  y \in Decision!Explored /\ y \notin Decision!AuthRoots
          OBVIOUS
        <5>1. CASE y = p
          BY <2>3, <3>3, <5>1
        <5>2. CASE y \in ToSet(rest)
          <6>1. y \in ToSet(toAuthenticate)
            BY <1>1, <5>2
          <6>. QED  BY <1>0, <6>1 DEF WalkInv
        <5>. QED  BY <3>2, <5>1, <5>2
      <4>2. \A y \in authenticated' \ Decision!AuthRoots : covered'[y] # NoId
        BY <1>0, <2>5, <3>1 DEF WalkInv
      <4>. QED  BY <1>0, <1>4, <3>1, <3>4, <4>1, <4>2 DEF WalkInv
    <3>. QED  BY <1>0, <1>3, <2>1, <2>4, <2>7, <3>5 DEF RInv, Walking, Outcomes
  <2>. QED  BY <2>8, <2>9
<1>. QED  BY <1>5, <1>6, <1>7

-----------------------------------------------------------------------------
(* The worklist drained: the check returns Ok(()) only when the abstract   *)
(* check accepts.                                                          *)

\* With the worklist empty, the owner an id steps to from a pushed id is
\* the end of its chain, a root, or pushed itself: a pushed id was popped
\* and covered by its owner, or has no object, or is a root.
LEMMA DrainedStep ==
  ASSUME RInv, Walking, toAuthenticate = <<>>, NEW y \in Ids, Pushed(y)
  PROVE  Step(y) = NoId \/ Step(y) \in Decision!AuthRoots \/ Pushed(Step(y))
<1>0. /\ WalkInv /\ CoveredOK /\ covered \in [Ids -> Node]
      /\ y # NoId
  BY OwnershipAssumption DEF RInv
<1>1. Handled(y)
  BY <1>0 DEF WalkInv
<1>2. y \notin ToSet(toAuthenticate)
  BY ToSetEmpty
<1>3. CASE y \in Decision!AuthRoots
  BY <1>0, <1>3, RootEnds DEF Step
<1>4. CASE store[y] = NoObj
  BY <1>0, <1>4 DEF Step, Decision!ParentOf
<1>5. CASE covered[y] # NoId
  <2>1. /\ y \notin Decision!AuthRoots
        /\ store[y] # NoObj /\ store[y].kind = "object" /\ covered[y] = store[y].who
    BY <1>0, <1>5 DEF CoveredOK
  <2>2. Step(y) = covered[y]
    BY <1>0, <2>1 DEF Step, Decision!ParentOf
  <2>. QED  BY <2>2 DEF Pushed
<1>. QED  BY <1>1, <1>2, <1>3, <1>4, <1>5 DEF Handled

\* With the worklist empty, every id on the chain of owners above a start
\* is a root, pushed, or past the end of the chain: by induction along
\* the walk Up.
LEMMA DrainedChain ==
  ASSUME RInv, Walking, toAuthenticate = <<>>, NEW x \in Starts
  PROVE  \A j \in 0..N : \/ Up(x)[j] = NoId \/ Up(x)[j] \in Decision!AuthRoots
                         \/ Pushed(Up(x)[j])
<1> DEFINE S == {k \in Nat : \/ Up(x)[k] = NoId \/ Up(x)[k] \in Decision!AuthRoots
                             \/ Pushed(Up(x)[k])}
<1>0. /\ StoreOK /\ x \in Ids /\ N \in Nat /\ NoId \notin Ids
  BY IdsFinite, StoreStatesOK, OwnershipAssumption
     DEF RInv, OInv, Starts, Decision!Examined
<1>1. 0 \in S
  <2>1. Up(x)[0] = x
    BY <1>0, UpSteps DEF Node
  <2>. QED  BY <2>1 DEF Pushed
<1>2. \A n \in 0..(N - 1) : n \in S => n + 1 \in S
  <2> SUFFICES ASSUME NEW n \in 0..(N - 1), n \in S PROVE n + 1 \in S
    OBVIOUS
  <2>1. Up(x)[n + 1] = Step(Up(x)[n]) /\ Up(x)[n] \in Node
    <3>1. n + 1 \in 1..N /\ n \in 0..N
      BY <1>0
    <3>. QED  BY <1>0, <3>1, UpSteps, UpType DEF Node
  <2>2. CASE Up(x)[n] = NoId
    BY <1>0, <2>1, <2>2 DEF Step
  <2>3. CASE Up(x)[n] \in Decision!AuthRoots
    <3>1. Up(x)[n] # NoId
      BY <1>0, <2>3, RootsAreIds
    <3>. QED  BY <1>0, <2>1, <2>3, <3>1, RootEnds DEF Step
  <2>4. CASE Up(x)[n] # NoId /\ Pushed(Up(x)[n])
    <3>1. Up(x)[n] \in Ids
      BY <2>1, <2>4 DEF Node
    <3>. QED  BY <1>0, <2>1, <2>4, <3>1, DrainedStep
  <2>. QED  BY <2>2, <2>3, <2>4
<1> HIDE DEF S
<1>3. 0..N \subseteq S
  BY <1>0, <1>1, <1>2, IntervalInduction
<1>. QED  BY <1>3 DEF S

\* With the worklist empty and no panic, the abstract check accepts:
\* inputs and modified ids passed get_objects_to_authenticate, and every
\* explored id is a root, object-less, or was popped and covered.
LEMMA DrainedAccepted ==
  ASSUME RInv, Walking, toAuthenticate = <<>>
  PROVE  Decision!AcceptedByReachability
<1>0. /\ WalkInv /\ CoveredOK /\ store \in StoreStates /\ StoreOK
      /\ modified \subseteq Ids /\ ~InputPanics /\ ~ModifiedPanics
      /\ NoId \notin Ids
  BY StoreStatesOK, OwnershipAssumption DEF RInv, OInv, WalkInv
<1>1. Decision!InputsAuthorised
  <2> SUFFICES ASSUME NEW id \in Inputs \ GasCoins
               PROVE  store[id] \in {Decision!AddressOwner(Sender), Decision!Shared,
                                     Decision!Immutable}
    BY DEF Decision!InputsAuthorised
  <2>1. /\ store[id] \in Owners /\ store[id].kind # "object"
        /\ ~(store[id].kind = "address" /\ store[id].who # Sender)
    BY <1>0, OwnershipAssumption DEF StoreStates, InputPanics
  <2>. QED  BY <2>1 DEF Owners, AddressOwner, ObjectOwner, Shared, Immutable,
              Decision!AddressOwner, Decision!Shared, Decision!Immutable
<1>2. Decision!ModifiedAllowed
  <2> SUFFICES ASSUME NEW id \in Decision!Examined
               PROVE  /\ store[id] # NoObj
                      /\ \/ store[id].kind = "object"
                         \/ /\ store[id] = Decision!Immutable /\ IsEpochChange
                            /\ id \in SystemPackages
    BY DEF Decision!ModifiedAllowed
  <2>1. id \in LookedUp /\ id \in Ids
    BY <1>0, LookedUpExamined DEF Decision!Examined
  <2>. QED  BY <1>0, <2>1 DEF ModifiedPanics, StoreOK, Owners,
              AddressOwner, ObjectOwner, Shared, Immutable, Decision!Immutable
<1>3. \A y \in Decision!Explored :
         y \in Decision!AuthRoots \/ store[y] = NoObj \/ store[y].kind = "object"
  <2> SUFFICES ASSUME NEW y \in Decision!Explored,
                      y \notin Decision!AuthRoots, store[y] # NoObj
               PROVE  store[y].kind = "object"
    OBVIOUS
  <2>1. CASE y \in Starts
    BY <2>1 DEF Starts
  <2>2. CASE y \notin Starts
    <3>1. PICK x \in Starts : y \in Decision!AncestorsOf(x)
      BY <2>2, ExploredDef
    <3>2. x \in Ids /\ y \in Ids
      BY <1>0, <3>1, AncestorsIds DEF Starts, Decision!Examined, Node
    <3>3. PICK j \in 1..N : Up(x)[j] = y
      BY <3>1, AncestorsUp
    <3>4. j \in 0..N
      BY IdsFinite
    <3>5. Pushed(y)
      BY <1>0, <3>2, <3>3, <3>4, DrainedChain
    <3>6. Handled(y)
      BY <1>0, <3>2, <3>5 DEF WalkInv
    <3>7. covered[y] # NoId
      BY <3>6, ToSetEmpty DEF Handled
    <3>. QED  BY <1>0, <3>2, <3>7 DEF CoveredOK
  <2>. QED  BY <2>1, <2>2
<1>. QED  BY <1>1, <1>2, <1>3 DEF Decision!AcceptedByReachability

\* Returning Ok(()) from the drained worklist keeps the invariant, and the
\* outcome is the abstract check's acceptance.
LEMMA FinishRInv ==
  ASSUME RInv, Finish
  PROVE  RInv'
<1>0. /\ phase = "walk" /\ toAuthenticate = <<>> /\ phase' = "ok"
      /\ UNCHANGED <<store, modified, toAuthenticate, authenticated, covered>>
  BY DEF Finish
<1>1. Decision!AcceptedByReachability
  BY <1>0, DrainedAccepted DEF Walking
<1>2. /\ Decision!AuthRoots' = Decision!AuthRoots
      /\ Decision!Explored' = Decision!Explored
      /\ Decision!Examined' = Decision!Examined
      /\ Decision!AcceptedByReachability' = Decision!AcceptedByReachability
      /\ Starts' = Starts
      /\ InputPanics' = InputPanics /\ ModifiedPanics' = ModifiedPanics
  BY <1>0, DecisionStable
<1>3. OInv'
  BY EndOInv DEF RInv
<1>4. WalkInv'
  BY <1>0, <1>2 DEF RInv, Walking, WalkInv, Pushed, Handled
<1>. QED  BY <1>0, <1>1, <1>2, <1>3, <1>4 DEF RInv, Walking, CoveredOK, Outcomes

\* A store error is taken only when something is looked up or popped, and
\* either means that the abstract check examines some id.
LEMMA ErrorRInv ==
  ASSUME RInv, StoreError
  PROVE  RInv'
<1>0. /\ phase' = "error"
      /\ UNCHANGED <<store, modified, toAuthenticate, authenticated, covered>>
      /\ store \in StoreStates /\ StoreOK /\ modified \subseteq Ids
      /\ toAuthenticate \in Seq(Ids)
  BY StoreStatesOK DEF StoreError, RInv, OInv
<1>1. Decision!Examined # {}
  <2>1. CASE phase = "start" /\ LookedUp # {}
    <3>1. PICK id \in LookedUp : TRUE
      BY <2>1
    <3>. QED  BY <3>1, AuthRootsInRoots DEF LookedUp, Decision!Examined
  <2>2. CASE phase = "walk" /\ toAuthenticate # <<>>
    <3>1. Last(toAuthenticate) \in ToSet(toAuthenticate)
      BY <1>0, <2>2, ToSetPop
    <3>2. Last(toAuthenticate) \in Decision!Explored
      BY <2>2, <3>1 DEF RInv, Walking, WalkInv
    <3>3. Starts # {}
      BY <3>2, ExploredDef
    <3>. QED  BY <3>3 DEF Starts
  <2>. QED  BY <2>1, <2>2 DEF StoreError
<1>2. /\ Decision!Examined' = Decision!Examined /\ Decision!Explored' = Decision!Explored
      /\ Decision!AuthRoots' = Decision!AuthRoots
  BY <1>0, DecisionStable
<1>3. OInv'
  BY EndOInv DEF RInv
<1>. QED  BY <1>0, <1>1, <1>2, <1>3 DEF RInv, Walking, CoveredOK, Outcomes

\* A step that changes nothing keeps the invariant.
LEMMA StutterRInv ==
  ASSUME RInv, UNCHANGED vars
  PROVE  RInv'
<1>0. UNCHANGED <<store, modified, toAuthenticate, authenticated, covered, phase>>
  BY DEF vars
<1>1. /\ Decision!AuthRoots' = Decision!AuthRoots
      /\ Decision!Explored' = Decision!Explored
      /\ Decision!Examined' = Decision!Examined
      /\ Decision!AcceptedByReachability' = Decision!AcceptedByReachability
      /\ Starts' = Starts
      /\ InputPanics' = InputPanics /\ ModifiedPanics' = ModifiedPanics
  BY <1>0, DecisionStable
<1>2. OInv'
  BY EndOInv DEF RInv
<1>3. WalkInv' = WalkInv
  BY <1>0, <1>1 DEF WalkInv, Pushed, Handled
<1>. QED  BY <1>0, <1>1, <1>2, <1>3 DEF RInv, Walking, CoveredOK, Outcomes

\* Every step of the check keeps the invariant of the refinement.
LEMMA NextRInv == RInv /\ [Next]_vars => RInv'
BY GetRInv, StepRInv, FinishRInv, ErrorRInv, StutterRInv DEF Next

-----------------------------------------------------------------------------
(* The refinement.                                                         *)

\* A state of the check is a state of the abstract one: the store and the
\* modified ids are those the check meets, and the outcome is pending.
LEMMA InitRefines == Init => Decision!Init
<1> SUFFICES ASSUME Init
             PROVE  /\ store \in [Ids -> Owners \cup {NoObj}]
                    /\ modified \in SUBSET Ids
                    /\ (IF phase \in Terminal THEN phase ELSE "pending") = "pending"
  BY DEF Decision!Init, Decision!Owners, Owners, Decision!AddressOwner, AddressOwner,
     Decision!ObjectOwner, ObjectOwner, Decision!Shared, Shared,
     Decision!Immutable, Immutable
<1>1. store \in [Ids -> Owners \cup {NoObj}]
  BY DEF Init, StoreStates
<1>2. modified \in SUBSET Ids
  BY DEF Init
<1>3. phase = "start"
  BY DEF Init
<1>. QED  BY <1>1, <1>2, <1>3 DEF Terminal

\* Every step of the check is a step of the abstract check or leaves its
\* state alone: get_objects_to_authenticate and the pops that do not
\* panic stutter, a panic is Decide rejecting, Ok(()) is Decide accepting,
\* and a store error is Fail.
LEMMA StepRefines ==
  ASSUME RInv, RInv', [Next]_vars
  PROVE  [Decision!Next]_Decision!avars
<1>0. /\ store' = store /\ modified' = modified
      /\ \/ UNCHANGED vars
         \/ phase \in {"start", "walk"}
  BY DEF Next, GetObjectsToAuthenticate, AuthenticateStep, Finish, StoreError, vars
<1>1. /\ Decision!Examined' = Decision!Examined
      /\ Decision!AcceptedByReachability' = Decision!AcceptedByReachability
  BY <1>0, DecisionStable
<1>2. CASE UNCHANGED vars
  BY <1>0, <1>2 DEF vars, Decision!avars
<1>3. CASE phase \in {"start", "walk"}
  <2>1. CASE phase' \in {"start", "walk"}
    BY <1>0, <1>3, <2>1 DEF Decision!avars, Terminal
  <2>2. CASE phase' = "ok"
    <3>1. Decision!AcceptedByReachability
      BY <1>1, <2>2 DEF RInv, Outcomes
    <3>. QED  BY <1>0, <1>3, <2>2, <3>1 DEF Decision!Next, Decision!Decide, Terminal
  <2>3. CASE phase' = "panicked"
    <3>1. ~Decision!AcceptedByReachability
      BY <1>1, <2>3 DEF RInv, Outcomes
    <3>. QED  BY <1>0, <1>3, <2>3, <3>1 DEF Decision!Next, Decision!Decide, Terminal
  <2>4. CASE phase' = "error"
    <3>1. Decision!Examined # {}
      BY <1>1, <2>4 DEF RInv, Outcomes
    <3>. QED  BY <1>0, <1>3, <2>4, <3>1 DEF Decision!Next, Decision!Fail, Terminal
  <2>. QED  BY <2>1, <2>2, <2>3, <2>4 DEF RInv
<1>. QED  BY <1>0, <1>2, <1>3

\* check_ownership_invariants implements what it promises, as far as
\* safety goes: every behaviour of the worklist, mapped to its outcome, is
\* a behaviour of the abstract check whose verdict is acceptance by
\* reachability, and a store error only where some id is looked up.
THEOREM WorklistRefinesDecision ==
  Spec => Decision!Init /\ [][Decision!Next]_Decision!avars
<1>1. Init => Decision!Init /\ RInv
  BY InitRefines, InitRInv
<1>2. RInv /\ [Next]_vars => RInv'
  BY NextRInv
<1>3. RInv /\ RInv' /\ [Next]_vars => [Decision!Next]_Decision!avars
  BY StepRefines
<1>. QED  BY <1>1, <1>2, <1>3, PTL DEF Spec
=============================================================================
