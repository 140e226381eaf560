--------------------------- MODULE DiscoverProofs ---------------------------
(***************************************************************************)
(* Theorems about Discover, for any tree, any roots and any number of      *)
(* changes under the walk: it is silent only if it found something under   *)
(* every root, it overlooks nothing that stays as it is and takes nothing  *)
(* that is excluded, and a tree at rest it reports exactly.                *)
(***************************************************************************)
EXTENDS Discover, TLAPS

InWalk == at \in {"walk", "read", "resolve"}

\* What is known of the file in work, and what the world looks like.
WalkShape ==
    /\ disk \in [Paths -> Entry]
    /\ InWalk => turn \in 1..Len(Roots)
    /\ at = "resolve" => Kind(Root.kind, path, header) # "none"
    /\ at = "done" => turn = Len(Roots) + 1

\* While no error was reported, every root that the walk has left gave an
\* artifact, and the one in work has if it is matched.
Given(i) == \E a \in reached : a.root = i
RootsGave ==
    /\ errors = {} => \A i \in 1..turn - 1 : Roots[i].path \notin excluded => Given(i)
    /\ InWalk /\ matched => Given(turn)
    /\ at = "done" /\ errors = {} => artifacts # <<>>

IInv == TypeOK /\ WalkShape /\ RootsGave

-----------------------------------------------------------------------------

\* A path is an entry, and what it leads to is a path too: resolve() stays in
\* the tree.
LEMMA TargetIsPath ==
    ASSUME DiscoverAssumption, disk \in [Paths -> Entry], NEW p \in Paths
    PROVE  Target(p) \in Paths /\ disk[Target(p)] \in Entry
<1>1. disk[p] \in Entry
  OBVIOUS
<1>2. disk[p].type = "link" => disk[p].to \in Paths
  BY <1>1 DEF Entry
<1> QED
  BY <1>1, <1>2 DEF Target

\* A root is a pair of a path and a kind.
LEMMA RootType ==
    ASSUME DiscoverAssumption, NEW i \in 1..Len(Roots)
    PROVE  Roots[i] \in [path : Paths, kind : {"object", "binary"}]
<1> DEFINE S == [path : Paths, kind : {"object", "binary"}]
<1>1. Roots \in Seq(S)
  BY DEF DiscoverAssumption
<1> HIDE DEF S
<1>2. Roots[i] \in S
  BY <1>1
<1> QED
  BY <1>2 DEF S

\* What a file is taken for is one of three, or it is passed over.
LEMMA KindType ==
    ASSUME DiscoverAssumption, NEW kind \in {"object", "binary"}, NEW p \in Paths,
           NEW content \in Contents
    PROVE  Kind(kind, p, content) \in {"object", "archive", "binary", "none"}
BY DEF DiscoverAssumption, Kind, Contents

\* Before the walk.
LEMMA InitInv ==
    ASSUME DiscoverAssumption, Init
    PROVE  IInv
<1>1. Len(Roots) \in Nat
  BY DEF DiscoverAssumption
<1>2. disk \in [Paths -> Entry]
  BY DEF DiscoverAssumption, Init
<1>3. DOMAIN artifacts = {}
  BY DEF Init
<1>4. TypeOK
  <2>1. turn \in 1..Len(Roots) + 1
    BY <1>1 DEF Init
  <2>2. errors \subseteq (1..Len(Roots) + 1) \X (Paths \union {NoPath}) /\ before \subseteq errors
    BY DEF Init
  <2>3. /\ \A a \in reached : a.real \in DOMAIN artifacts
        /\ \A p \in DOMAIN artifacts : artifacts[p] \in {"object", "archive", "binary"}
    BY <1>3 DEF Init
  <2> QED
    BY <2>1, <2>2, <2>3 DEF Init, TypeOK
<1>5. WalkShape
  BY <1>2 DEF Init, WalkShape, InWalk
<1>6. RootsGave
  BY DEF Init, RootsGave, InWalk
<1> QED
  BY <1>4, <1>5, <1>6 DEF IInv

-----------------------------------------------------------------------------
(* One lemma per action.                                                   *)

\* Someone changes the tree.
LEMMA ChangeInv ==
    ASSUME DiscoverAssumption, IInv, Change
    PROVE  IInv'
<1>1. disk' \in [Paths -> Entry]
  BY DEF Change, IInv, WalkShape, DiscoverAssumption
<1> QED
  BY <1>1 DEF Change, IInv, TypeOK, WalkShape, RootsGave, InWalk, Given, Kind, Root,
              add, walk, found

\* A root that is excluded.
LEMMA SkipRootInv ==
    ASSUME DiscoverAssumption, IInv, SkipRoot
    PROVE  IInv'
<1>1. Len(Roots) \in Nat
  BY DEF DiscoverAssumption
<1>2. TypeOK'
  BY <1>1 DEF SkipRoot, IInv, TypeOK, world, add, walk, found
<1>3. WalkShape'
  BY <1>1 DEF SkipRoot, IInv, TypeOK, WalkShape, InWalk, world
<1>4. RootsGave'
  BY <1>1 DEF SkipRoot, IInv, TypeOK, RootsGave, InWalk, Given, Root, Excluded, world, found
<1> QED
  BY <1>2, <1>3, <1>4 DEF IInv

\* The walk enters a root.
LEMMA EnterRootInv ==
    ASSUME DiscoverAssumption, IInv, EnterRoot
    PROVE  IInv'
<1>1. Len(Roots) \in Nat /\ turn \in 1..Len(Roots)
  BY DEF DiscoverAssumption, EnterRoot, IInv, TypeOK
<1>2. Root.path \in Paths
  BY <1>1, RootType DEF Root
<1>3. errors \subseteq errors' /\ errors' \subseteq (1..Len(Roots) + 1) \X (Paths \union {NoPath})
  BY <1>1, <1>2 DEF EnterRoot, Blamed, IInv, TypeOK
<1>4. TypeOK'
  BY <1>1, <1>2, <1>3 DEF EnterRoot, IInv, TypeOK, world, add
<1>5. WalkShape'
  BY <1>1 DEF EnterRoot, IInv, WalkShape, InWalk, world
<1>6. RootsGave'
  BY <1>1, <1>3 DEF EnterRoot, IInv, RootsGave, InWalk, Given, world
<1> QED
  BY <1>4, <1>5, <1>6 DEF IInv

\* A directory is listed.
LEMMA ListDirectoryInv ==
    ASSUME DiscoverAssumption, IInv, ListDirectory
    PROVE  IInv'
<1>1. Len(Roots) \in Nat /\ turn \in 1..Len(Roots)
  BY DEF DiscoverAssumption, ListDirectory, IInv, WalkShape, InWalk
<1>2. errors \subseteq errors' /\ errors' \subseteq (1..Len(Roots) + 1) \X (Paths \union {NoPath})
  BY <1>1 DEF ListDirectory, Blamed, IInv, TypeOK
<1>3. dirs' \subseteq Paths /\ files' \subseteq Paths
  BY DEF ListDirectory, Listed, IInv, TypeOK
<1>4. TypeOK'
  BY <1>1, <1>2, <1>3 DEF ListDirectory, IInv, TypeOK, world, add, found
<1>5. WalkShape'
  BY <1>1 DEF ListDirectory, IInv, WalkShape, InWalk, world, add
<1>6. RootsGave'
  BY <1>1, <1>2 DEF ListDirectory, IInv, RootsGave, InWalk, Given, world, found
<1> QED
  BY <1>4, <1>5, <1>6 DEF IInv

\* The first look at a file.
LEMMA StatInv ==
    ASSUME DiscoverAssumption, IInv, Stat
    PROVE  IInv'
<1>1. Len(Roots) \in Nat /\ turn \in 1..Len(Roots)
  BY DEF DiscoverAssumption, Stat, IInv, WalkShape, InWalk
<1>2. errors \subseteq errors' /\ errors' \subseteq (1..Len(Roots) + 1) \X (Paths \union {NoPath})
  BY <1>1 DEF Stat, Blamed, IInv, TypeOK
<1>3. /\ at' \in {"walk", "read"} /\ files' \subseteq Paths
      /\ path' \in Paths \union {NoPath} /\ (path' # NoPath <=> at' = "read")
  BY DEF Stat, IInv, TypeOK, DiscoverAssumption
<1>4. TypeOK'
  BY <1>1, <1>2, <1>3 DEF Stat, IInv, TypeOK, world, found
<1>5. WalkShape'
  BY <1>1, <1>3 DEF Stat, IInv, WalkShape, InWalk, world
<1>6. RootsGave'
  BY <1>1, <1>2, <1>3 DEF Stat, IInv, RootsGave, InWalk, Given, world, found
<1> QED
  BY <1>4, <1>5, <1>6 DEF IInv

\* The second.
LEMMA ReadHeaderInv ==
    ASSUME DiscoverAssumption, IInv, ReadHeader
    PROVE  IInv'
<1>1. Len(Roots) \in Nat /\ turn \in 1..Len(Roots) /\ path \in Paths
  BY DEF DiscoverAssumption, ReadHeader, IInv, TypeOK, WalkShape, InWalk
<1>2. errors \subseteq errors' /\ errors' \subseteq (1..Len(Roots) + 1) \X (Paths \union {NoPath})
  BY <1>1 DEF ReadHeader, Unopened, Blamed, IInv, TypeOK
<1>3. Is(path, "file") => disk[Target(path)].content \in Contents
  BY <1>1, TargetIsPath DEF IInv, WalkShape, Is, Entry
<1>4. \/ at' = "walk" /\ path' = NoPath /\ header' = "none"
      \/ /\ at' = "resolve" /\ path' = path /\ header' \in Contents
         /\ Kind(Root.kind, path, header') # "none"
  BY <1>3 DEF ReadHeader, Leave
<1>5. NoPath \notin Paths /\ "none" \notin Contents
  BY DEF DiscoverAssumption, Contents
<1>6. TypeOK'
  BY <1>1, <1>2, <1>4, <1>5 DEF ReadHeader, IInv, TypeOK, world, walk, found
<1>7. WalkShape'
  BY <1>1, <1>4 DEF ReadHeader, IInv, WalkShape, InWalk, Root, world
<1>8. RootsGave'
  BY <1>1, <1>2, <1>4 DEF ReadHeader, IInv, RootsGave, InWalk, Given, world, found
<1> QED
  BY <1>6, <1>7, <1>8 DEF IInv

\* The third.
LEMMA ResolveInv ==
    ASSUME DiscoverAssumption, IInv, Resolve
    PROVE  IInv'
<1>1. Len(Roots) \in Nat /\ turn \in 1..Len(Roots) /\ path \in Paths /\ header \in Contents
  BY DEF DiscoverAssumption, Resolve, IInv, TypeOK, WalkShape, InWalk
<1>2. at' = "walk" /\ path' = NoPath /\ header' = "none"
  BY DEF Resolve, Leave
<1>3. CASE Is(path, "absent")
  <2>1. UNCHANGED found /\ errors \subseteq errors'
        /\ errors' \subseteq (1..Len(Roots) + 1) \X (Paths \union {NoPath})
    BY <1>1, <1>3 DEF Resolve, Blamed, IInv, TypeOK
  <2>2. TypeOK'
    BY <1>1, <1>2, <2>1 DEF Resolve, IInv, TypeOK, world, walk, found
  <2>3. WalkShape'
    BY <1>1, <1>2 DEF Resolve, IInv, WalkShape, InWalk, world
  <2>4. RootsGave'
    BY <1>1, <1>2, <2>1 DEF Resolve, IInv, RootsGave, InWalk, Given, world, found
  <2> QED
    BY <2>2, <2>3, <2>4 DEF IInv
<1>4. CASE ~Is(path, "absent")
  <2> DEFINE kind == Kind(Root.kind, path, header)
  <2>1. kind \in {"object", "archive", "binary"}
    <3>1. Root.kind \in {"object", "binary"}
      BY <1>1, RootType DEF Root
    <3> QED
      BY <1>1, <3>1, KindType DEF Resolve, IInv, WalkShape
  <2>2. /\ artifacts' = Recorded(Target(path), kind)
        /\ matched' = TRUE /\ UNCHANGED errors
        /\ reached' = reached \union {[root |-> turn, path |-> path, real |-> Target(path)]}
    BY <1>4 DEF Resolve
  <2>3. /\ DOMAIN artifacts' = {Target(path)} \union DOMAIN artifacts
        /\ \A p \in DOMAIN artifacts' :
             artifacts'[p] = IF p = Target(path) THEN kind ELSE artifacts[p]
    BY <2>2 DEF Recorded
  <2>4. TypeOK'
    BY <1>1, <1>2, <2>1, <2>2, <2>3 DEF Resolve, IInv, TypeOK, world, walk
  <2>5. WalkShape'
    BY <1>1, <1>2 DEF Resolve, IInv, WalkShape, InWalk, world
  <2>6. RootsGave'
    <3> DEFINE new == [root |-> turn, path |-> path, real |-> Target(path)]
    <3>1. UNCHANGED <<turn, excluded>>
      BY DEF Resolve, world
    <3>2. new \in reached' /\ new.root = turn
      BY <2>2
    <3>3. Given(turn)'
      <4> HIDE DEF new
      <4> QED
        BY <3>1, <3>2 DEF Given
    <3>4. \A i \in 1..turn - 1 : Given(i) => Given(i)'
      BY <2>2 DEF Given
    <3> QED
      BY <1>1, <1>2, <2>2, <3>1, <3>3, <3>4 DEF IInv, RootsGave, InWalk
  <2> QED
    BY <2>4, <2>5, <2>6 DEF IInv
<1> QED
  BY <1>3, <1>4

\* A root is done, with an artifact or an error.
LEMMA LeaveRootInv ==
    ASSUME DiscoverAssumption, IInv, LeaveRoot
    PROVE  IInv'
<1>1. Len(Roots) \in Nat /\ turn \in 1..Len(Roots)
  BY DEF DiscoverAssumption, LeaveRoot, IInv, WalkShape, InWalk
<1>2. Root.path \in Paths
  BY <1>1, RootType DEF Root
<1>3. errors \subseteq errors' /\ errors' \subseteq (1..Len(Roots) + 1) \X (Paths \union {NoPath})
  BY <1>1, <1>2 DEF LeaveRoot, Blamed, IInv, TypeOK
<1>4. ASSUME errors' = {}
      PROVE  matched
  <2>1. ~Unmatched
    BY <1>4 DEF LeaveRoot, Blamed
  <2>2. errors = {} /\ before \subseteq errors
    BY <1>3, <1>4 DEF IInv, TypeOK
  <2> QED
    BY <2>1, <2>2 DEF Unmatched
<1>5. TypeOK'
  <2>1. turn' \in 1..Len(Roots) + 1 /\ before' \subseteq errors'
    BY <1>1 DEF LeaveRoot
  <2> QED
    BY <1>3, <2>1 DEF LeaveRoot, IInv, TypeOK, add
<1>6. WalkShape'
  BY <1>1 DEF LeaveRoot, IInv, WalkShape, InWalk, world
<1>7. RootsGave'
  BY <1>1, <1>3, <1>4 DEF LeaveRoot, IInv, RootsGave, InWalk, Given, world
<1> QED
  BY <1>5, <1>6, <1>7 DEF IInv

\* The scan ends.
LEMMA FinishInv ==
    ASSUME DiscoverAssumption, IInv, Finish
    PROVE  IInv'
<1>1. Len(Roots) \in Nat /\ turn = Len(Roots) + 1
  BY DEF DiscoverAssumption, Finish, IInv, TypeOK
<1>2. errors \subseteq errors' /\ errors' \subseteq (1..Len(Roots) + 1) \X (Paths \union {NoPath})
  BY <1>1 DEF Finish, IInv, TypeOK
<1>3. TypeOK'
  BY <1>1, <1>2 DEF Finish, IInv, TypeOK, world, add, walk, found
<1>4. WalkShape'
  BY <1>1 DEF Finish, IInv, WalkShape, InWalk, world
<1>5. RootsGave'
  BY <1>1, <1>2 DEF Finish, IInv, RootsGave, InWalk, Given, world, found
<1> QED
  BY <1>3, <1>4, <1>5 DEF IInv

-----------------------------------------------------------------------------

\* Every step of the walk and of those who change the tree under it keeps the
\* invariant.
LEMMA StepInv ==
    ASSUME DiscoverAssumption, IInv, [Next]_vars
    PROVE  IInv'
<1>1. CASE UNCHANGED vars
  BY <1>1 DEF vars, world, add, walk, found, IInv, TypeOK, WalkShape, RootsGave, InWalk,
              Given, Root, Kind
<1> QED
  BY <1>1, ChangeInv, SkipRootInv, EnterRootInv, ListDirectoryInv, StatInv, ReadHeaderInv,
     ResolveInv, LeaveRootInv, FinishInv DEF Next, Scan

\* The walk keeps its types, and everything it reached is an artifact.
THEOREM DiscoverTypes == Spec => []TypeOK
<1>1. Init => IInv
  BY InitInv, DiscoverAssumption
<1>2. IInv /\ [Next]_vars => IInv'
  BY StepInv, DiscoverAssumption
<1>3. IInv => TypeOK
  BY DEF IInv
<1> QED
  BY <1>1, <1>2, <1>3, PTL DEF Spec

\* discover() is silent only if it found something under every root.
THEOREM DiscoverSilence == Spec => []SilenceMeansFound
<1>1. Init => IInv
  BY InitInv, DiscoverAssumption
<1>2. IInv /\ [Next]_vars => IInv'
  BY StepInv, DiscoverAssumption
<1>3. IInv => SilenceMeansFound
  <2> SUFFICES ASSUME IInv, at = "done", errors = {}
               PROVE  /\ artifacts # <<>>
                      /\ \A i \in DOMAIN Roots :
                           Roots[i].path \notin excluded => \E a \in reached : a.root = i
    BY DEF SilenceMeansFound
  <2>1. DOMAIN Roots = 1..turn - 1
    BY DiscoverAssumption DEF DiscoverAssumption, IInv, WalkShape
  <2> QED
    BY <2>1 DEF IInv, RootsGave, Given
<1> QED
  BY <1>1, <1>2, <1>3, PTL DEF Spec

-----------------------------------------------------------------------------
(* What lies above a path.                                                  *)

Up(above) ==
    above = [p \in Paths \union {NoPath} |->
               IF p = NoPath THEN {} ELSE {p} \union above[Parent[p]]]

\* Above satisfies its equation: what every set that holds a path and the
\* parents of its members has in common does.
LEMMA AboveUnfold ==
    ASSUME DiscoverAssumption
    PROVE  /\ Above[NoPath] = {}
           /\ \A p \in Paths : Above[p] = {p} \union Above[Parent[p]]
<1> DEFINE D == Paths \union {NoPath}
           Holds(p, S) == (p \in Paths => p \in S)
                            /\ \A q \in S : Parent[q] \in Paths => Parent[q] \in S
           c(p) == {q \in Paths : \A S \in SUBSET Paths : Holds(p, S) => q \in S}
           f == [p \in D |-> c(p)]
<1>1. NoPath \notin Paths /\ \A p \in Paths : Parent[p] \in D
  BY DEF DiscoverAssumption
<1>2. c(NoPath) = {}
  <2>1. Holds(NoPath, {})
    BY <1>1
  <2>2. {} \in SUBSET Paths
    OBVIOUS
  <2> HIDE DEF Holds
  <2> QED
    BY <2>1, <2>2
<1>3. ASSUME NEW p \in Paths PROVE c(p) = {p} \union c(Parent[p])
  <2>1. p \in c(p)
    OBVIOUS
  <2>2. ASSUME NEW q \in c(Parent[p]) PROVE q \in c(p)
    <3> SUFFICES ASSUME NEW S \in SUBSET Paths, Holds(p, S) PROVE q \in S
      OBVIOUS
    <3>1. Holds(Parent[p], S)
      OBVIOUS
    <3> QED
      BY <3>1
  <2>3. ASSUME NEW q \in c(p), q # p PROVE q \in c(Parent[p])
    <3> SUFFICES ASSUME NEW S \in SUBSET Paths, Holds(Parent[p], S) PROVE q \in S
      BY <2>3
    <3>1. Holds(p, S \union {p})
      OBVIOUS
    <3>2. q \in S \union {p}
      <4>1. S \union {p} \in SUBSET Paths
        OBVIOUS
      <4> HIDE DEF Holds
      <4> QED
        BY <2>3, <3>1, <4>1
    <3> QED
      BY <2>3, <3>2
  <2> QED
    BY <2>1, <2>2, <2>3
<1> HIDE DEF c
<1>4. f = [p \in D |-> IF p = NoPath THEN {} ELSE {p} \union f[Parent[p]]]
  <2>1. ASSUME NEW p \in D
        PROVE  c(p) = IF p = NoPath THEN {} ELSE {p} \union f[Parent[p]]
    BY <1>1, <1>2, <1>3
  <2> QED
    BY <2>1
<1>5. \E g : Up(g)
  BY <1>4 DEF Up
<1>6. Above = CHOOSE g : Up(g)
  BY DEF Above, Up
<1> HIDE DEF f
<1>7. Up(Above)
  BY <1>5, <1>6
<1> QED
  BY <1>1, <1>7 DEF Up

\* Nothing lies above itself.
LEMMA NotAboveItself ==
    ASSUME DiscoverAssumption, NEW p \in Paths
    PROVE  p \notin Above[Parent[p]]
<1> SUFFICES ASSUME p \in Above[Parent[p]] PROVE FALSE
  OBVIOUS
<1> DEFINE S == {q \in Paths : p \in Above[q]}
<1>1. p \in S
  BY AboveUnfold
<1>2. ASSUME NEW q \in S PROVE Parent[q] \in S
  <2>1. p \in Above[Parent[q]]
    BY AboveUnfold
  <2>2. Parent[q] \in Paths
    <3>1. Parent[q] \in Paths \union {NoPath}
      BY DEF DiscoverAssumption
    <3> QED
      BY <2>1, <3>1, AboveUnfold
  <2> QED
    BY <2>1, <2>2
<1>3. S \in SUBSET Paths /\ S # {}
  BY <1>1
<1> HIDE DEF S
<1> QED
  BY <1>2, <1>3 DEF DiscoverAssumption

\* What lies above a path is a path, and what lies above that lies above it;
\* below it the way goes on to the path.
LEMMA AboveChain ==
    ASSUME DiscoverAssumption
    PROVE  \A p \in Paths : \A d \in Above[p] :
             /\ d \in Paths /\ Above[d] \subseteq Above[p]
             /\ d # p => \E q \in Above[p] : q \in Paths /\ Parent[q] = d
<1> DEFINE P(p) == \A d \in Above[p] :
                     /\ d \in Paths /\ Above[d] \subseteq Above[p]
                     /\ d # p => \E q \in Above[p] : q \in Paths /\ Parent[q] = d
           S == {p \in Paths : ~P(p)}
<1>1. ASSUME NEW p \in Paths, Parent[p] \notin S PROVE P(p)
  <2>1. CASE Parent[p] = NoPath
    BY <2>1, AboveUnfold
  <2>2. CASE Parent[p] # NoPath
    <3>1. Parent[p] \in Paths /\ P(Parent[p]) /\ Above[p] = {p} \union Above[Parent[p]]
      BY <1>1, <2>2, AboveUnfold DEF DiscoverAssumption
    <3>2. ASSUME NEW d \in Above[p], d # p
          PROVE  /\ d \in Paths /\ Above[d] \subseteq Above[p]
                 /\ \E q \in Above[p] : q \in Paths /\ Parent[q] = d
      <4>1. d \in Above[Parent[p]]
        BY <3>1, <3>2
      <4> QED
        BY <3>1, <4>1
    <3> QED
      BY <3>1, <3>2
  <2> QED
    BY <2>1, <2>2
<1>2. S = {}
  <2> SUFFICES ASSUME S # {} PROVE FALSE
    OBVIOUS
  <2>1. PICK p \in S : Parent[p] \notin S
    BY DEF DiscoverAssumption
  <2> QED
    BY <1>1, <2>1
<1> QED
  BY <1>2

\* The way from a root to a path.
LEMMA WayEnds ==
    ASSUME DiscoverAssumption, NEW i \in 1..Len(Roots), NEW p \in Paths,
           Roots[i].path \in Above[p]
    PROVE  p \in Way(i, p) /\ Roots[i].path \in Way(i, p)
<1>1. Roots[i].path \in Paths
  BY RootType
<1>2. Roots[i].path \notin Above[Parent[Roots[i].path]]
  BY <1>1, NotAboveItself
<1>3. p \in Above[p]
  BY AboveUnfold
<1>4. p \notin Above[Parent[Roots[i].path]]
  <2> SUFFICES ASSUME p \in Above[Parent[Roots[i].path]] PROVE FALSE
    OBVIOUS
  <2>1. Parent[Roots[i].path] \in Paths \union {NoPath}
    BY <1>1 DEF DiscoverAssumption
  <2>2. Parent[Roots[i].path] \in Paths
    BY <2>1, AboveUnfold
  <2>3. Above[p] \subseteq Above[Parent[Roots[i].path]]
    BY <2>2, AboveChain
  <2> QED
    BY <1>2, <2>3
<1> QED
  BY <1>2, <1>3, <1>4 DEF Way

\* It starts with the root alone, and a step down adds a path to it.
LEMMA WayGrows ==
    ASSUME DiscoverAssumption, NEW i \in 1..Len(Roots)
    PROVE  /\ Way(i, Roots[i].path) \subseteq {Roots[i].path}
           /\ \A q \in Paths : Way(i, q) \subseteq {q} \union Way(i, Parent[q])
<1>1. Roots[i].path \in Paths
  BY RootType
<1> QED
  BY <1>1, AboveUnfold DEF Way

\* From every path on the way but the last it goes on to one below.
LEMMA WayGoesOn ==
    ASSUME DiscoverAssumption, NEW i \in 1..Len(Roots), NEW p \in Paths,
           NEW d \in Way(i, p), d # p
    PROVE  \E q \in Way(i, p) : /\ q \in Paths /\ Parent[q] = d
                                /\ q # Roots[i].path
<1>1. d \in Above[p] /\ d \notin Above[Parent[Roots[i].path]]
  BY DEF Way
<1>2. PICK q \in Above[p] : q \in Paths /\ Parent[q] = d
  BY <1>1, AboveChain
<1>3. d \in Paths /\ d \in Above[d]
  BY <1>1, AboveChain, AboveUnfold
<1>4. q # Roots[i].path
  BY <1>1, <1>2, <1>3
<1>5. q \notin Above[Parent[Roots[i].path]]
  <2> SUFFICES ASSUME q \in Above[Parent[Roots[i].path]] PROVE FALSE
    OBVIOUS
  <2>1. Roots[i].path \in Paths
    BY RootType
  <2>2. Parent[Roots[i].path] \in Paths \union {NoPath}
    BY <2>1 DEF DiscoverAssumption
  <2>3. Parent[Roots[i].path] \in Paths
    BY <2>2, AboveUnfold
  <2>4. Above[q] \subseteq Above[Parent[Roots[i].path]]
    BY <2>3, AboveChain
  <2>5. d \in Above[q]
    BY <1>2, <1>3, AboveUnfold
  <2> QED
    BY <1>1, <2>4, <2>5
<1> QED
  BY <1>2, <1>4, <1>5 DEF Way

-----------------------------------------------------------------------------
(* The invariant behind ScanFaithful.                                       *)

\* Nothing is at a path that may not be there.
Possible == \A p \in Paths : disk[p] \in Options[p]

\* The walk is never under an excluded path; a file is looked at last.
Inside ==
    /\ at \in {"roots", "done"} => dirs = {} /\ files = {}
    /\ \A d \in dirs : Way(turn, d) \intersect excluded = {}
    /\ \A q \in files : Way(turn, q) \intersect excluded \subseteq {q}
    /\ path # NoPath => Way(turn, path) \intersect excluded = {}
    /\ ExcludedStaysOut

\* What cannot be read, or is a link to nothing.
Bad(p) ==
    \/ Is(p, "absent")
    \/ Is(p, "file") /\ ~disk[Target(p)].readable
    \/ disk[p].type = "dir" /\ ~disk[p].readable

Hit(i, p) == [root |-> i, path |-> p, real |-> Target(p)]

Dealt(i, p) ==
    /\ Candidate(i, p) /\ disk[Target(p)].readable => Hit(i, p) \in reached
    /\ Bad(p) => <<i, p>> \in errors

\* The walk of the root in work is on the way to a path, or has it in hand.
Pending(p) ==
    \/ p \in files /\ ~Is(p, "dir")
    \/ path = p /\ Is(p, "file") /\ (at = "resolve" => disk[Target(p)].readable)
    \/ \E d \in dirs : d \in Way(turn, p) /\ (d = p => Is(p, "dir"))

\* What the walk comes to and stays as it is has been dealt with, or will be.
Covered ==
    \A i \in 1..Len(Roots), p \in Paths :
        Visible(i, p) /\ Steady(i, p) =>
            /\ i < turn => Dealt(i, p)
            /\ i = turn /\ InWalk => Dealt(i, p) \/ Pending(p)

Faithful == IInv /\ Possible /\ Inside /\ Covered

\* What a step of the walk itself leaves alone.
LEMMA ScanKeeps ==
    ASSUME UNCHANGED world, NEW i, NEW p
    PROVE  /\ Candidate(i, p)' = Candidate(i, p) /\ Visible(i, p)' = Visible(i, p)
           /\ Steady(i, p)' = Steady(i, p) /\ Bad(p)' = Bad(p) /\ Hit(i, p)' = Hit(i, p)
           /\ \A d : /\ Target(d)' = Target(d) /\ Way(i, d)' = Way(i, d)
                     /\ \A type : Is(d, type)' = Is(d, type)
BY DEF world, Candidate, Visible, Steady, Is, Target, Way, Bad, Hit

\* What is dealt with stays so.
LEMMA DealtStays ==
    ASSUME UNCHANGED world, reached \subseteq reached', errors \subseteq errors',
           NEW i, NEW p, Dealt(i, p)
    PROVE  Dealt(i, p)'
<1>1. disk' = disk /\ Candidate(i, p)' = Candidate(i, p) /\ Bad(p)' = Bad(p)
      /\ Hit(i, p)' = Hit(i, p) /\ Target(p)' = Target(p)
  BY ScanKeeps DEF world
<1> QED
  BY <1>1 DEF Dealt

\* The walk comes to a path along a way that nothing excludes.
LEMMA VisibleWay ==
    ASSUME DiscoverAssumption, NEW i \in 1..Len(Roots), NEW p \in Paths, Visible(i, p)
    PROVE  /\ p \in Way(i, p) /\ Roots[i].path \in Way(i, p)
           /\ Way(i, p) \intersect excluded = {}
           /\ \A d \in Way(i, p) : d # p => disk[d].type = "dir" /\ disk[d].readable
           /\ p # Roots[i].path => disk[p].type # "absent"
BY WayEnds DEF Visible

\* Before the walk.
LEMMA InitFaithful ==
    ASSUME DiscoverAssumption, Init
    PROVE  Faithful
<1>1. IInv
  BY InitInv
<1>2. Possible
  BY DEF DiscoverAssumption, Init, Possible
<1>3. Inside
  BY DEF Init, Inside, ExcludedStaysOut
<1>4. Covered
  BY DEF Init, Covered, InWalk
<1> QED
  BY <1>1, <1>2, <1>3, <1>4 DEF Faithful

\* Someone changes the tree: what has changed is not steady.
LEMMA ChangeFaithful ==
    ASSUME DiscoverAssumption, Faithful, Change
    PROVE  Possible' /\ Inside' /\ Covered'
<1>1. PICK x \in Paths \ changed : \E e \in Options[x] \ {disk[x]} :
         disk' = [disk EXCEPT ![x] = e] /\ changed' = changed \union {x}
  BY DEF Change
<1>2. /\ UNCHANGED <<excluded, at, turn, add, walk, found, errors>>
      /\ disk \in [Paths -> Entry]
  BY DEF Change, Faithful, IInv, WalkShape
<1>3. Possible'
  BY <1>1, <1>2 DEF Faithful, Possible
<1>4. Inside'
  BY <1>2 DEF Faithful, Inside, ExcludedStaysOut, Way, add, walk, found
<1>5. ASSUME NEW i \in 1..Len(Roots), NEW p \in Paths, Visible(i, p)', Steady(i, p)'
      PROVE  /\ i < turn' => Dealt(i, p)'
             /\ i = turn' /\ InWalk' => Dealt(i, p)' \/ Pending(p)'
  <2>1. Way(i, p)' = Way(i, p) /\ Way(turn, p)' = Way(turn, p)
    BY <1>2 DEF Way
  <2>2. p \in Way(i, p)
    BY <1>5, WayEnds DEF Visible
  <2>3. x \notin Way(i, p) /\ Target(p)' # x
    BY <1>1, <1>5, <2>1 DEF Steady
  <2>4. \A d \in Paths : d # x => disk'[d] = disk[d]
    BY <1>1, <1>2
  <2>5. disk'[p] = disk[p] /\ Target(p)' = Target(p) /\ Target(p) \in Paths
    BY <1>2, <2>2, <2>3, <2>4, TargetIsPath DEF Target
  <2>6. disk'[Target(p)] = disk[Target(p)]
    BY <2>3, <2>4, <2>5
  <2>7. \A d \in Way(i, p) : disk'[d] = disk[d]
    <3>1. Way(i, p) \subseteq Paths
      BY AboveChain DEF Way
    <3> QED
      BY <2>3, <2>4, <3>1
  <2>8. Visible(i, p) /\ Steady(i, p) /\ Visible(i, p)' = Visible(i, p)
    BY <1>1, <1>2, <1>5, <2>1, <2>5, <2>6, <2>7 DEF Visible, Steady
  <2>9. Dealt(i, p)' = Dealt(i, p) /\ Pending(p)' = Pending(p)
    BY <1>2, <2>1, <2>5, <2>6, <2>8 DEF Dealt, Pending, Candidate, Bad, Hit, Is, add, walk, found
  <2> QED
    BY <1>2, <2>8, <2>9 DEF Faithful, Covered, InWalk
<1> QED
  BY <1>3, <1>4, <1>5 DEF Covered

\* A root that is excluded has no candidates.
LEMMA SkipRootFaithful ==
    ASSUME DiscoverAssumption, Faithful, SkipRoot
    PROVE  Possible' /\ Inside' /\ Covered'
<1>1. /\ UNCHANGED <<world, at, add, walk, found, errors>> /\ at = "roots"
      /\ turn \in 1..Len(Roots) /\ turn' = turn + 1 /\ Root.path \in excluded
  BY DEF SkipRoot, Excluded, Faithful, IInv, TypeOK, DiscoverAssumption
<1>2. Possible'
  BY <1>1 DEF Faithful, Possible, world
<1>3. Inside'
  <2>1. dirs' = {} /\ files' = {} /\ path' = NoPath /\ at' = "roots"
    BY <1>1 DEF Faithful, IInv, TypeOK, Inside, walk, add
  <2>2. ExcludedStaysOut'
    BY <1>1 DEF Faithful, Inside, ExcludedStaysOut, Way, world, found
  <2> QED
    BY <2>1, <2>2 DEF Inside
<1>4. ASSUME NEW i \in 1..Len(Roots), NEW p \in Paths, Visible(i, p)', Steady(i, p)'
      PROVE  /\ i < turn' => Dealt(i, p)'
             /\ i = turn' /\ InWalk' => Dealt(i, p)' \/ Pending(p)'
  <2>1. Visible(i, p) /\ Steady(i, p)
    BY <1>1, <1>4, ScanKeeps
  <2>2. i # turn
    BY <1>1, <2>1, VisibleWay DEF Root
  <2>3. ~InWalk'
    BY <1>1 DEF InWalk
  <2>4. i < turn' => i < turn
    BY <1>1, <2>2
  <2>5. i < turn => Dealt(i, p)
    BY <2>1 DEF Faithful, Covered
  <2>6. Dealt(i, p) => Dealt(i, p)'
    BY <1>1, DealtStays DEF found
  <2> QED
    BY <2>3, <2>4, <2>5, <2>6
<1> QED
  BY <1>2, <1>3, <1>4 DEF Covered

\* The walk starts on the way to every candidate of the root.
LEMMA EnterRootFaithful ==
    ASSUME DiscoverAssumption, Faithful, EnterRoot
    PROVE  Possible' /\ Inside' /\ Covered'
<1>1. /\ UNCHANGED <<world, turn, add, artifacts, reached>> /\ at = "roots" /\ at' = "walk"
      /\ turn \in 1..Len(Roots) /\ Root.path \notin excluded /\ path = NoPath
      /\ errors \subseteq errors'
      /\ \/ Is(Root.path, "file") /\ Root.kind = "binary" /\ files' = {Root.path} /\ dirs' = {}
         \/ Is(Root.path, "dir") /\ files' = {} /\ dirs' = {Root.path}
         \/ /\ ~Is(Root.path, "dir") /\ ~(Is(Root.path, "file") /\ Root.kind = "binary")
            /\ files' = {} /\ dirs' = {} /\ <<turn, Root.path>> \in errors'
  BY DEF EnterRoot, Excluded, Blamed, Faithful, IInv, TypeOK, DiscoverAssumption
<1>2. Possible'
  BY <1>1 DEF Faithful, Possible, world
<1>3. Inside'
  <2>1. path' = NoPath /\ excluded' = excluded /\ turn' = turn
        /\ \A d : Way(turn, d)' = Way(turn, d)
    BY <1>1 DEF world, add, Way
  <2>2. Way(turn, Root.path) \subseteq {Root.path}
    BY <1>1, WayGrows DEF Root
  <2>3. \A d \in dirs' \union files' : d = Root.path
    BY <1>1
  <2>4. \A d \in dirs' \union files' : Way(turn, d)' \intersect excluded' = {}
    BY <1>1, <2>1, <2>2, <2>3
  <2>5. ExcludedStaysOut'
    BY <1>1 DEF Faithful, Inside, ExcludedStaysOut, Way, world
  <2> QED
    BY <1>1, <2>1, <2>4, <2>5 DEF Inside, Way
<1>4. ASSUME NEW i \in 1..Len(Roots), NEW p \in Paths, Visible(i, p)', Steady(i, p)'
      PROVE  /\ i < turn' => Dealt(i, p)'
             /\ i = turn' /\ InWalk' => Dealt(i, p)' \/ Pending(p)'
  <2>1. Visible(i, p) /\ Steady(i, p)
    BY <1>1, <1>4, ScanKeeps
  <2>2. i < turn => Dealt(i, p)
    BY <2>1 DEF Faithful, Covered
  <2>3. Dealt(i, p) => Dealt(i, p)'
    BY <1>1, DealtStays
  <2>4. ASSUME i = turn PROVE Dealt(i, p)' \/ Pending(p)'
    <3>1. /\ p \in Way(turn, p) /\ Root.path \in Way(turn, p)
          /\ \A d \in Way(turn, p) : d # p => disk[d].type = "dir"
      BY <2>1, <2>4, VisibleWay DEF Root
    <3>2. Root.path \in Way(turn, p)' /\ Is(p, "dir")' = Is(p, "dir") /\ Is(p, "file")' = Is(p, "file")
      BY <1>1, <3>1, ScanKeeps DEF Way
    <3>3. CASE Root.path \in files'
      <4>1. p = Root.path /\ ~Is(p, "dir")
        BY <1>1, <3>1, <3>3 DEF Is, Target
      <4> QED
        BY <3>2, <3>3, <4>1 DEF Pending
    <3>4. CASE Root.path \in dirs'
      <4>1. Is(Root.path, "dir")
        BY <1>1, <3>4
      <4> QED
        BY <3>2, <3>4, <4>1 DEF Pending
    <3>5. CASE /\ ~Is(Root.path, "dir") /\ ~(Is(Root.path, "file") /\ Root.kind = "binary")
               /\ <<turn, Root.path>> \in errors'
      <4>1. p = Root.path
        BY <3>1, <3>5 DEF Is, Target
      <4>2. ~Candidate(i, p)
        BY <2>4, <3>5, <4>1 DEF Candidate, Root
      <4>3. ~Candidate(i, p)' /\ <<i, p>> \in errors'
        BY <1>1, <2>4, <3>5, <4>1, <4>2, ScanKeeps
      <4> QED
        BY <4>3 DEF Dealt
    <3> QED
      BY <1>1, <3>3, <3>4, <3>5
  <2> QED
    BY <1>1, <2>2, <2>3, <2>4
<1> QED
  BY <1>2, <1>3, <1>4 DEF Covered

\* A directory is listed, and the walk goes on to all of it that is not excluded.
LEMMA ListDirectoryFaithful ==
    ASSUME DiscoverAssumption, Faithful, ListDirectory
    PROVE  Possible' /\ Inside' /\ Covered'
<1>1. /\ UNCHANGED <<world, at, turn, add, explicit, before, found>> /\ at = "walk" /\ files = {}
      /\ turn \in 1..Len(Roots) /\ path = NoPath /\ errors \subseteq errors'
      /\ dirs \subseteq Paths /\ disk \in [Paths -> Entry]
  BY DEF ListDirectory, Blamed, Faithful, IInv, TypeOK, WalkShape, InWalk
<1>2. PICK d \in dirs :
         \/ /\ NotFollowed(d) \/ ((~Is(d, "dir") \/ ~disk[Target(d)].readable) /\ <<turn, d>> \in errors')
            /\ dirs' = dirs \ {d} /\ files' = files
         \/ /\ ~NotFollowed(d) /\ Is(d, "dir") /\ disk[Target(d)].readable
            /\ files' = {p \in Listed(d) : ~Is(p, "dir")}
            /\ dirs' = (dirs \ {d}) \union {p \in Listed(d) : Is(p, "dir") /\ ~Excluded(p)}
  BY DEF ListDirectory, Blamed
<1>3. d \in Paths /\ Way(turn, d) \intersect excluded = {}
  BY <1>1 DEF Faithful, Inside
<1>4. ~NotFollowed(d) /\ Is(d, "dir") => Target(d) = d
  <2> SUFFICES ASSUME d = Root.path, disk[d].type = "link", Is(d, "dir") PROVE FALSE
    BY DEF NotFollowed, Target
  <2>1. disk[d] \in Options[d] /\ disk[d] \in Entry /\ disk[d].to \in Paths
    BY <1>1, <1>3 DEF Faithful, Possible, Entry
  <2>2. disk[disk[d].to] \in Options[disk[d].to] /\ disk[disk[d].to].type = "dir"
    BY <2>1 DEF Faithful, Possible, Is, Target
  <2>3. turn \in DOMAIN Roots
    BY <1>1 DEF DiscoverAssumption
  <2> QED
    BY <2>1, <2>2, <2>3 DEF DiscoverAssumption, Root
<1>5. Possible'
  BY <1>1 DEF Faithful, Possible, world
<1>6. Inside'
  <2>1. \A e : Way(turn, e)' = Way(turn, e)
    BY <1>1 DEF Way
  <2>2. ASSUME ~NotFollowed(d), Is(d, "dir"), NEW q \in Listed(d)
        PROVE  Way(turn, q) \intersect excluded \subseteq {q}
    <3>1. q \in Paths /\ Parent[q] = d
      BY <1>4, <2>2 DEF Listed
    <3> QED
      BY <1>1, <1>3, <3>1, WayGrows
  <2>3. \A e \in dirs' : Way(turn, e) \intersect excluded = {}
    BY <1>2, <2>2 DEF Faithful, Inside, Excluded
  <2>4. \A q \in files' : Way(turn, q) \intersect excluded \subseteq {q}
    BY <1>1, <1>2, <2>2
  <2>5. ExcludedStaysOut'
    BY <1>1 DEF Faithful, Inside, ExcludedStaysOut, Way, world, found
  <2> QED
    BY <1>1, <2>1, <2>3, <2>4, <2>5 DEF Inside, world, add, Way
<1>7. ASSUME NEW i \in 1..Len(Roots), NEW p \in Paths, Visible(i, p)', Steady(i, p)'
      PROVE  /\ i < turn' => Dealt(i, p)'
             /\ i = turn' /\ InWalk' => Dealt(i, p)' \/ Pending(p)'
  <2>1. Visible(i, p) /\ Steady(i, p)
    BY <1>1, <1>7, ScanKeeps
  <2>2. Dealt(i, p) => Dealt(i, p)'
    BY <1>1, DealtStays DEF found
  <2>3. i < turn => Dealt(i, p)
    BY <2>1 DEF Faithful, Covered
  <2>4. ASSUME i = turn, ~Dealt(i, p) PROVE Dealt(i, p)' \/ Pending(p)'
    <3>1. /\ p \in Way(turn, p) /\ Way(turn, p) \intersect excluded = {}
          /\ \A e \in Way(turn, p) : e # p => disk[e].type = "dir" /\ disk[e].readable
          /\ p # Root.path => disk[p].type # "absent"
      BY <2>1, <2>4, VisibleWay DEF Root
    <3>2. p \notin files /\ path # p
      BY <1>1 DEF DiscoverAssumption
    <3>3. PICK e \in dirs : e \in Way(turn, p) /\ (e = p => Is(p, "dir"))
      BY <1>1, <2>1, <2>4, <3>2 DEF Faithful, Covered, InWalk, Pending
    <3>4. /\ \A e2 : Way(turn, e2)' = Way(turn, e2) /\ Is(e2, "dir")' = Is(e2, "dir")
          /\ \A e2 \in dirs' : e2 \in Way(turn, p) /\ (e2 = p => Is(p, "dir")) => Pending(p)'
      BY <1>1, ScanKeeps DEF Pending, Way
    <3>5. CASE e # d
      <4>1. e \in dirs'
        BY <1>2, <3>5
      <4> QED
        BY <3>3, <3>4, <4>1
    <3>6. CASE e = d /\ d # p
      <4>1. disk[d].type = "dir" /\ disk[d].readable /\ Target(d) = d /\ Is(d, "dir")
            /\ ~NotFollowed(d)
        BY <3>1, <3>3, <3>6 DEF Target, Is, NotFollowed
      <4>2. /\ files' = {q \in Listed(d) : ~Is(q, "dir")}
            /\ dirs' = (dirs \ {d}) \union {q \in Listed(d) : Is(q, "dir") /\ ~Excluded(q)}
        BY <1>2, <4>1
      <4>3. PICK q \in Way(turn, p) : q \in Paths /\ Parent[q] = d /\ q # Root.path
        <5>1. d \in Way(turn, p) /\ d # p
          BY <3>3, <3>6
        <5>2. \E q \in Way(turn, p) : q \in Paths /\ Parent[q] = d /\ q # Roots[turn].path
          BY <1>1, <5>1, WayGoesOn
        <5> QED
          BY <5>2 DEF Root
      <4>4. q \in Listed(d) /\ q \notin excluded
        BY <3>1, <4>1, <4>3 DEF Listed
      <4>5. CASE q = p /\ ~Is(p, "dir")
        <5>1. p \in files' /\ ~Is(p, "dir")'
          BY <3>4, <4>2, <4>4, <4>5
        <5> QED
          BY <5>1 DEF Pending
      <4>6. CASE q = p => Is(p, "dir")
        <5>1. Is(q, "dir")
          BY <3>1, <4>3, <4>6 DEF Is, Target
        <5>2. q \in dirs'
          BY <4>2, <4>4, <5>1 DEF Excluded
        <5> QED
          BY <3>4, <4>3, <4>6, <5>2
      <4> QED
        BY <4>5, <4>6
    <3>7. CASE e = d /\ d = p
      <4>1. Is(p, "dir") /\ disk[p].type = "dir" /\ ~disk[p].readable
        <5>1. Is(p, "dir")
          BY <3>3, <3>7
        <5>2. ~Candidate(i, p)
          BY <5>1 DEF Candidate, Is
        <5>3. Bad(p)
          BY <2>4, <5>2 DEF Dealt
        <5> QED
          BY <5>1, <5>3 DEF Bad, Is
      <4>2. Target(p) = p /\ ~NotFollowed(p)
        BY <4>1 DEF Target, NotFollowed
      <4>3. <<turn, p>> \in errors'
        BY <1>2, <3>7, <4>1, <4>2
      <4>4. ~Candidate(i, p)'
        BY <3>4, <4>1 DEF Candidate, Is
      <4> QED
        BY <2>4, <4>3, <4>4 DEF Dealt
    <3> QED
      BY <3>5, <3>6, <3>7
  <2> QED
    BY <1>1, <2>2, <2>3, <2>4
<1> QED
  BY <1>5, <1>6, <1>7 DEF Covered

\* A file that is taken up is in hand, and it is not excluded.
LEMMA StatFaithful ==
    ASSUME DiscoverAssumption, Faithful, Stat
    PROVE  Possible' /\ Inside' /\ Covered'
<1>1. /\ UNCHANGED <<world, turn, header, dirs, explicit, before, found>> /\ at = "walk"
      /\ turn \in 1..Len(Roots) /\ path = NoPath /\ errors \subseteq errors'
  BY DEF Stat, Blamed, Faithful, IInv, TypeOK, WalkShape, InWalk
<1>2. PICK q \in files :
         /\ files' = files \ {q}
         /\ \/ /\ Excluded(q) \/ ~Is(q, "file")
               /\ Excluded(q) \/ ~Is(q, "absent") \/ <<turn, q>> \in errors'
               /\ at' = at /\ path' = path
            \/ ~Excluded(q) /\ Is(q, "file") /\ at' = "read" /\ path' = q
  BY DEF Stat, Is, Blamed
<1>3. Possible'
  BY <1>1 DEF Faithful, Possible, world
<1>4. Inside'
  <2>1. /\ \A e : Way(turn, e)' = Way(turn, e)
        /\ excluded' = excluded /\ dirs' = dirs /\ turn' = turn
    BY <1>1 DEF Way, world
  <2>2. Way(turn, q) \intersect excluded \subseteq {q}
    BY DEF Faithful, Inside
  <2>3. path' # NoPath => Way(turn, path') \intersect excluded = {}
    BY <1>1, <1>2, <2>2 DEF Excluded
  <2>4. \A e \in files' : Way(turn, e) \intersect excluded \subseteq {e}
    BY <1>2 DEF Faithful, Inside
  <2>5. ExcludedStaysOut'
    BY <1>1 DEF Faithful, Inside, ExcludedStaysOut, Way, world, found
  <2>6. at' \notin {"roots", "done"}
    BY <1>1, <1>2
  <2>7. \A e \in dirs' : Way(turn, e) \intersect excluded = {}
    BY <2>1 DEF Faithful, Inside
  <2> QED
    BY <2>1, <2>3, <2>4, <2>5, <2>6, <2>7 DEF Inside, Way
<1>5. ASSUME NEW i \in 1..Len(Roots), NEW p \in Paths, Visible(i, p)', Steady(i, p)'
      PROVE  /\ i < turn' => Dealt(i, p)'
             /\ i = turn' /\ InWalk' => Dealt(i, p)' \/ Pending(p)'
  <2>1. Visible(i, p) /\ Steady(i, p)
    BY <1>1, <1>5, ScanKeeps
  <2>2. Dealt(i, p) => Dealt(i, p)'
    BY <1>1, DealtStays DEF found
  <2>3. i < turn => Dealt(i, p)
    BY <2>1 DEF Faithful, Covered
  <2>4. ASSUME i = turn, ~Dealt(i, p) PROVE Dealt(i, p)' \/ Pending(p)'
    <3>1. p \in Way(turn, p) /\ Way(turn, p) \intersect excluded = {}
      BY <2>1, <2>4, VisibleWay
    <3>2. Pending(p) /\ path # p
      BY <1>1, <2>1, <2>4 DEF Faithful, Covered, InWalk, DiscoverAssumption
    <3>3. /\ \A e2 : Way(turn, e2)' = Way(turn, e2)
          /\ \A type : Is(p, type)' = Is(p, type)
      BY <1>1, ScanKeeps DEF Way
    <3>4. CASE p = q /\ Is(p, "file")
      <4>1. path' = p /\ at' = "read"
        BY <1>2, <3>1, <3>4 DEF Excluded
      <4> QED
        BY <3>3, <3>4, <4>1 DEF Pending
    <3>5. CASE p = q /\ ~Is(p, "file") /\ ~Is(p, "dir")
      <4>1. ~Candidate(i, p)
        BY <3>5 DEF Candidate
      <4>2. Is(p, "absent")
        BY <2>4, <3>5, <4>1 DEF Dealt, Bad, Is, Target
      <4>3. <<i, p>> \in errors'
        BY <1>2, <2>4, <3>1, <3>5, <4>2 DEF Excluded
      <4>4. ~Candidate(i, p)'
        BY <3>3, <3>5 DEF Candidate
      <4> QED
        BY <4>3, <4>4 DEF Dealt
    <3>6. CASE p # q \/ Is(p, "dir")
      <4>1. CASE p \in files /\ ~Is(p, "dir")
        <5>1. p \in files'
          BY <1>2, <3>6, <4>1
        <5> QED
          BY <3>3, <4>1, <5>1 DEF Pending
      <4>2. CASE \E d \in dirs : d \in Way(turn, p) /\ (d = p => Is(p, "dir"))
        BY <1>1, <3>3, <4>2 DEF Pending
      <4> QED
        BY <3>2, <4>1, <4>2 DEF Pending
    <3> QED
      BY <3>4, <3>5, <3>6
  <2> QED
    BY <1>1, <2>2, <2>3, <2>4
<1> QED
  BY <1>3, <1>4, <1>5 DEF Covered

\* A file in hand is read and shows what it is, or is blamed.
LEMMA ReadHeaderFaithful ==
    ASSUME DiscoverAssumption, Faithful, ReadHeader
    PROVE  Possible' /\ Inside' /\ Covered'
<1>1. /\ UNCHANGED <<world, turn, walk, found>> /\ at = "read"
      /\ turn \in 1..Len(Roots) /\ path \in Paths /\ path # NoPath /\ errors \subseteq errors'
      /\ at' \in {"walk", "resolve"} /\ (path' = path \/ path' = NoPath)
  BY DEF ReadHeader, Leave, Unopened, Blamed, Faithful, IInv, TypeOK, WalkShape, InWalk,
         DiscoverAssumption
<1>2. Possible'
  BY <1>1 DEF Faithful, Possible, world
<1>3. Inside'
  <2>1. /\ \A e : Way(turn, e)' = Way(turn, e)
        /\ excluded' = excluded /\ dirs' = dirs /\ files' = files /\ turn' = turn
    BY <1>1 DEF Way, world, walk
  <2>2. ExcludedStaysOut'
    BY <1>1 DEF Faithful, Inside, ExcludedStaysOut, Way, world, found
  <2>3. path' # NoPath => Way(turn, path') \intersect excluded = {}
    BY <1>1 DEF Faithful, Inside
  <2>4. at' \notin {"roots", "done"}
    BY <1>1
  <2> QED
    BY <2>1, <2>2, <2>3, <2>4 DEF Faithful, Inside, Way
<1>4. ASSUME NEW i \in 1..Len(Roots), NEW p \in Paths, Visible(i, p)', Steady(i, p)'
      PROVE  /\ i < turn' => Dealt(i, p)'
             /\ i = turn' /\ InWalk' => Dealt(i, p)' \/ Pending(p)'
  <2>1. Visible(i, p) /\ Steady(i, p)
    BY <1>1, <1>4, ScanKeeps
  <2>2. Dealt(i, p) => Dealt(i, p)'
    BY <1>1, DealtStays DEF found
  <2>3. i < turn => Dealt(i, p)
    BY <2>1 DEF Faithful, Covered
  <2>4. ASSUME i = turn, ~Dealt(i, p) PROVE Dealt(i, p)' \/ Pending(p)'
    <3>1. Pending(p)
      BY <1>1, <2>1, <2>4 DEF Faithful, Covered, InWalk
    <3>2. /\ \A e2 : Way(turn, e2)' = Way(turn, e2)
          /\ \A type : Is(p, type)' = Is(p, type)
          /\ Candidate(i, p)' = Candidate(i, p) /\ Target(p)' = Target(p) /\ disk' = disk
      BY <1>1, ScanKeeps DEF Way, world
    <3>3. CASE ~(path = p /\ Is(p, "file"))
      BY <1>1, <3>1, <3>2, <3>3 DEF Pending, walk
    <3>4. CASE path = p /\ Is(p, "file") /\ disk[Target(p)].readable
      <4>1. Candidate(i, p)
        BY <2>4, <3>4 DEF Dealt, Bad, Is, Target
      <4>2. Kind(Root.kind, p, disk[Target(p)].content) # "none"
        BY <2>4, <4>1 DEF Candidate, Root
      <4>3. at' = "resolve" /\ path' = p
        BY <3>4, <4>2 DEF ReadHeader
      <4> QED
        BY <3>2, <3>4, <4>3 DEF Pending
    <3>5. CASE path = p /\ Is(p, "file") /\ ~disk[Target(p)].readable
      <4>1. <<turn, p>> \in errors'
        BY <3>5 DEF ReadHeader, Unopened, Blamed
      <4>2. ~disk'[Target(p)'].readable
        BY <3>2, <3>5
      <4> QED
        BY <2>4, <4>1, <4>2 DEF Dealt
    <3> QED
      BY <3>3, <3>4, <3>5
  <2> QED
    BY <1>1, <2>2, <2>3, <2>4
<1> QED
  BY <1>2, <1>3, <1>4 DEF Covered

\* A file that is still there becomes an artifact.
LEMMA ResolveFaithful ==
    ASSUME DiscoverAssumption, Faithful, Resolve
    PROVE  Possible' /\ Inside' /\ Covered'
<1>1. /\ UNCHANGED <<world, turn, walk>> /\ at = "resolve" /\ at' = "walk" /\ path' = NoPath
      /\ turn \in 1..Len(Roots) /\ path \in Paths /\ path # NoPath /\ errors \subseteq errors'
  BY DEF Resolve, Leave, Blamed, Faithful, IInv, TypeOK, WalkShape, InWalk, DiscoverAssumption
<1>2. /\ reached \subseteq reached'
      /\ ~Is(path, "absent") => [root |-> turn, path |-> path, real |-> Target(path)] \in reached'
      /\ \A a \in reached' : a \in reached \/ a = [root |-> turn, path |-> path, real |-> Target(path)]
  BY DEF Resolve, Recorded, found
<1>3. Possible'
  BY <1>1 DEF Faithful, Possible, world
<1>4. Inside'
  <2>1. /\ \A e : Way(turn, e)' = Way(turn, e)
        /\ excluded' = excluded /\ dirs' = dirs /\ files' = files /\ turn' = turn
    BY <1>1 DEF Way, world, walk
  <2>2. ExcludedStaysOut'
    <3>1. Way(turn, path) \intersect excluded = {}
      BY <1>1 DEF Faithful, Inside
    <3>2. \A a \in reached' : Way(a.root, a.path) \intersect excluded = {}
      BY <1>2, <3>1 DEF Faithful, Inside, ExcludedStaysOut
    <3> QED
      BY <2>1, <3>2 DEF ExcludedStaysOut, Way
  <2> QED
    BY <1>1, <2>1, <2>2 DEF Faithful, Inside, Way
<1>5. ASSUME NEW i \in 1..Len(Roots), NEW p \in Paths, Visible(i, p)', Steady(i, p)'
      PROVE  /\ i < turn' => Dealt(i, p)'
             /\ i = turn' /\ InWalk' => Dealt(i, p)' \/ Pending(p)'
  <2>1. Visible(i, p) /\ Steady(i, p)
    BY <1>1, <1>5, ScanKeeps
  <2>2. Dealt(i, p) => Dealt(i, p)'
    BY <1>1, <1>2, DealtStays
  <2>3. i < turn => Dealt(i, p)
    BY <2>1 DEF Faithful, Covered
  <2>4. ASSUME i = turn, ~Dealt(i, p) PROVE Dealt(i, p)' \/ Pending(p)'
    <3>1. Pending(p)
      BY <1>1, <2>1, <2>4 DEF Faithful, Covered, InWalk
    <3>2. /\ \A e2 : Way(turn, e2)' = Way(turn, e2)
          /\ \A type : Is(p, type)' = Is(p, type)
          /\ Bad(p)' = Bad(p) /\ Hit(i, p)' = Hit(i, p)
      BY <1>1, ScanKeeps DEF Way
    <3>3. CASE ~(path = p /\ Is(p, "file") /\ disk[Target(p)].readable)
      BY <1>1, <3>1, <3>2, <3>3 DEF Pending, walk
    <3>4. CASE path = p /\ Is(p, "file") /\ disk[Target(p)].readable
      <4>1. Hit(i, p) \in reached'
        BY <1>2, <2>4, <3>4 DEF Hit, Is
      <4>2. ~Bad(p)
        BY <3>4 DEF Bad, Is, Target
      <4> QED
        BY <3>2, <4>1, <4>2 DEF Dealt
    <3> QED
      BY <3>3, <3>4
  <2> QED
    BY <1>1, <2>2, <2>3, <2>4
<1> QED
  BY <1>3, <1>4, <1>5 DEF Covered

\* Nothing is pending when the walk leaves a root, or ends.
LEMMA LeaveFaithful ==
    ASSUME DiscoverAssumption, Faithful, LeaveRoot \/ Finish
    PROVE  Possible' /\ Inside' /\ Covered'
<1>1. /\ UNCHANGED <<world, add, dirs, files, artifacts, reached>>
      /\ dirs = {} /\ files = {} /\ path = NoPath /\ errors \subseteq errors'
      /\ ~InWalk' /\ at' \in {"roots", "done"}
      /\ \/ at = "walk" /\ turn' = turn + 1
         \/ turn' = turn
      /\ turn \in 1..Len(Roots) + 1 /\ Len(Roots) \in Nat
  BY DEF LeaveRoot, Finish, Blamed, InWalk, Faithful, IInv, TypeOK, Inside, walk, found,
         DiscoverAssumption
<1>2. Possible'
  BY <1>1 DEF Faithful, Possible, world
<1>3. Inside'
  <2>1. ExcludedStaysOut'
    BY <1>1 DEF Faithful, Inside, ExcludedStaysOut, Way, world
  <2> QED
    BY <1>1, <2>1 DEF Inside, add
<1>4. ASSUME NEW i \in 1..Len(Roots), NEW p \in Paths, Visible(i, p)', Steady(i, p)'
      PROVE  /\ i < turn' => Dealt(i, p)'
             /\ i = turn' /\ InWalk' => Dealt(i, p)' \/ Pending(p)'
  <2>1. Visible(i, p) /\ Steady(i, p)
    BY <1>1, <1>4, ScanKeeps
  <2>2. Dealt(i, p) => Dealt(i, p)'
    BY <1>1, DealtStays
  <2>3. i < turn => Dealt(i, p)
    BY <2>1 DEF Faithful, Covered
  <2>4. at = "walk" /\ i = turn => Dealt(i, p)
    <3>1. ~Pending(p)
      BY <1>1 DEF Pending, DiscoverAssumption
    <3> QED
      BY <2>1, <3>1 DEF Faithful, Covered, InWalk
  <2>5. i < turn' => i < turn \/ (at = "walk" /\ i = turn)
    BY <1>1
  <2> QED
    BY <1>1, <2>2, <2>3, <2>4, <2>5
<1> QED
  BY <1>2, <1>3, <1>4 DEF Covered

\* Every step keeps it.
LEMMA StepFaithful ==
    ASSUME DiscoverAssumption, Faithful, [Next]_vars
    PROVE  Faithful'
<1>1. IInv'
  BY StepInv DEF Faithful
<1>2. CASE UNCHANGED vars
  <2>1. /\ UNCHANGED <<disk, excluded, changed, at, turn, path, dirs, files, artifacts, reached,
                       errors>>
    BY <1>2 DEF vars, world, add, walk, found
  <2>2. Possible'
    BY <2>1 DEF Faithful, Possible
  <2>3. Inside'
    BY <2>1 DEF Faithful, Inside, ExcludedStaysOut, Way
  <2>4. Covered'
    <3>1. ASSUME NEW i \in 1..Len(Roots), NEW p \in Paths
          PROVE  /\ Visible(i, p)' = Visible(i, p) /\ Steady(i, p)' = Steady(i, p)
                 /\ Pending(p)' = Pending(p)
      BY <2>1 DEF Visible, Steady, Pending, Is, Target, Way
    <3>2. ASSUME NEW i \in 1..Len(Roots), NEW p \in Paths
          PROVE  Dealt(i, p)' = Dealt(i, p)
      BY <2>1 DEF Candidate, Visible, Dealt, Is, Target, Way, Bad, Hit
    <3> QED
      BY <2>1, <3>1, <3>2 DEF Faithful, Covered, InWalk
  <2> QED
    BY <1>1, <2>2, <2>3, <2>4 DEF Faithful
<1>3. Next => Possible' /\ Inside' /\ Covered'
  BY ChangeFaithful, SkipRootFaithful, EnterRootFaithful, ListDirectoryFaithful, StatFaithful,
     ReadHeaderFaithful, ResolveFaithful, LeaveFaithful DEF Next, Scan
<1> QED
  BY <1>1, <1>2, <1>3 DEF Faithful

\* Whatever changes under the walk: no file that belongs to the scan and stays
\* as it is is missing among the artifacts and the errors, and no artifact was
\* reached through an excluded path.
THEOREM DiscoverFaithful == Spec => []ScanFaithful
<1>1. Init => Faithful
  BY InitFaithful, DiscoverAssumption
<1>2. Faithful /\ [Next]_vars => Faithful'
  BY StepFaithful, DiscoverAssumption
<1>3. Faithful => ScanFaithful
  <2> SUFFICES ASSUME Faithful PROVE NothingOverlooked /\ ExcludedStaysOut
    BY DEF ScanFaithful
  <2>1. ASSUME at = "done", NEW i \in DOMAIN Roots, NEW p \in Paths,
               Candidate(i, p), Steady(i, p)
        PROVE  IF disk[Target(p)].readable
                 THEN Target(p) \in DOMAIN artifacts ELSE <<i, p>> \in errors
    <3>1. DOMAIN Roots = 1..Len(Roots) /\ Len(Roots) \in Nat
      BY DiscoverAssumption DEF DiscoverAssumption
    <3>2. turn = Len(Roots) + 1
      BY <2>1 DEF Faithful, IInv, WalkShape
    <3>3. i \in 1..Len(Roots) /\ i < turn
      BY <3>1, <3>2
    <3>4. Dealt(i, p) /\ Is(p, "file")
      BY <2>1, <3>3 DEF Faithful, Covered, Candidate
    <3>5. CASE disk[Target(p)].readable
      <4>1. Hit(i, p) \in reached /\ Hit(i, p).real = Target(p)
        BY <2>1, <3>4, <3>5 DEF Dealt, Hit
      <4> QED
        BY <3>5, <4>1 DEF Faithful, IInv, TypeOK
    <3>6. CASE ~disk[Target(p)].readable
      BY <3>4, <3>6 DEF Dealt, Bad
    <3> QED
      BY <3>5, <3>6
  <2>2. NothingOverlooked
    BY <2>1 DEF NothingOverlooked
  <2> QED
    BY <2>2 DEF Faithful, Inside
<1> QED
  BY <1>1, <1>2, <1>3, PTL DEF Spec

-----------------------------------------------------------------------------
(* The invariant behind ScanExact.                                          *)

\* When artifacts and errors have come about.
Turns ==
    /\ \A a \in reached : /\ a.root \in 1..Len(Roots) /\ a.path \in Paths /\ a.root <= turn
                          /\ a.root = turn => InWalk /\ matched
    /\ artifacts = <<>> \/ reached # {}
    /\ explicit => InWalk
    /\ \A e \in errors : e[1] = Len(Roots) + 1 => at = "done" /\ artifacts = <<>>

\* The walk is where it ought to be.
OnWay(i, p) ==
    /\ Roots[i].path \in Above[p] /\ Way(i, p) \intersect excluded \subseteq {p}
    /\ \A d \in Way(i, p) \ {p} : disk[d].type = "dir" /\ disk[d].readable
    /\ p # Roots[i].path => disk[p].type # "absent"

WalkAtRest ==
    /\ InWalk => Root.path \notin excluded
    /\ \A d \in dirs : Visible(turn, d) /\ Is(d, "dir")
    /\ \A q \in files : OnWay(turn, q) /\ (explicit \/ q # Root.path)
    /\ explicit =>
         /\ files \subseteq {Root.path} /\ dirs = {} /\ (path # NoPath => path = Root.path)
         /\ Is(Root.path, "file") /\ Root.kind = "binary"
    /\ path # NoPath => /\ Visible(turn, path) /\ Is(path, "file")
                        /\ path = Root.path => Root.kind = "binary"
    /\ at = "resolve" => header = disk[Target(path)].content /\ disk[Target(path)].readable

\* What was found is what there is: the last find says what an artifact is
\* taken for, and every error has its reason.
FoundAtRest ==
    /\ \A a \in reached : /\ a.real = Target(a.path) /\ Candidate(a.root, a.path)
                          /\ disk[a.real].readable
    /\ \A f \in DOMAIN artifacts : \E a \in reached :
         /\ a.real = f /\ artifacts[f] = Kind(Roots[a.root].kind, a.path, disk[f].content)
         /\ \A b \in reached : b.real = f => b.root <= a.root
    /\ \A e \in errors : e[1] # Len(Roots) + 1 => Troubled(e[1])

Exact == Faithful /\ Turns /\ (changed = {} => WalkAtRest /\ FoundAtRest)

\* The order of the turns is kept by every step.
LEMMA StepTurns ==
    ASSUME DiscoverAssumption, Faithful, Turns, [Next]_vars
    PROVE  Turns'
<1>0. /\ Len(Roots) \in Nat /\ turn \in 1..Len(Roots) + 1
      /\ InWalk => turn \in 1..Len(Roots)
      /\ at \in {"read", "resolve"} => path \in Paths
  BY DEF DiscoverAssumption, Faithful, IInv, TypeOK, WalkShape
<1>1. CASE UNCHANGED vars \/ Change
  <2>1. UNCHANGED <<at, turn, explicit, matched, artifacts, reached, errors>>
    BY <1>1 DEF vars, world, add, walk, found, Change
  <2> QED
    BY <2>1 DEF Turns, InWalk
<1>2. CASE SkipRoot \/ LeaveRoot
  <2>1. turn' = turn + 1 /\ UNCHANGED <<artifacts, reached>> /\ at' = "roots"
        /\ turn \in 1..Len(Roots)
    BY <1>0, <1>2 DEF SkipRoot, LeaveRoot, found, InWalk
  <2>2. explicit' = FALSE
    BY <1>2 DEF SkipRoot, LeaveRoot, walk, Turns, InWalk
  <2>3. \A e \in errors' : e[1] # Len(Roots) + 1
    <3>1. \A e \in errors' : e \in errors \/ e = <<turn, Root.path>>
      BY <1>2 DEF SkipRoot, LeaveRoot, Blamed
    <3>2. at # "done" /\ turn # Len(Roots) + 1
      BY <1>2, <2>1 DEF SkipRoot, LeaveRoot
    <3>3. \A e \in errors : e[1] # Len(Roots) + 1
      BY <3>2 DEF Turns
    <3> QED
      BY <3>1, <3>2, <3>3
  <2>4. \A a \in reached : a.root \in 1..Len(Roots) /\ a.path \in Paths /\ a.root <= turn
    BY DEF Turns
  <2>5. \A n \in 1..Len(Roots) : n <= turn => n <= turn + 1 /\ n # turn + 1
    BY <1>0
  <2> QED
    BY <2>1, <2>2, <2>3, <2>4, <2>5 DEF Turns
<1>3. CASE EnterRoot
  <2>1. /\ UNCHANGED <<turn, artifacts, reached>> /\ at' = "walk" /\ at = "roots"
        /\ turn \in 1..Len(Roots)
        /\ \A e \in errors' : e \in errors \/ e = <<turn, Root.path>>
    BY <1>0, <1>3 DEF EnterRoot, Blamed
  <2>2. turn # Len(Roots) + 1
    BY <1>0, <2>1
  <2> QED
    BY <2>1, <2>2 DEF Turns, InWalk
<1>4. CASE ListDirectory \/ Stat \/ ReadHeader
  <2>1. /\ UNCHANGED <<turn, artifacts, reached, explicit, matched>>
        /\ InWalk /\ InWalk'
        /\ \A e \in errors' : e \in errors \/ e[1] = turn
    BY <1>4 DEF ListDirectory, Stat, ReadHeader, Leave, Unopened, Blamed, InWalk, walk, found
  <2>2. turn # Len(Roots) + 1
    BY <1>0, <2>1
  <2> QED
    BY <2>1, <2>2 DEF Turns, InWalk
<1>5. CASE Resolve
  <2>1. /\ UNCHANGED <<turn, explicit>> /\ InWalk /\ InWalk' /\ path \in Paths
        /\ \A e \in errors' : e \in errors \/ e[1] = turn
    BY <1>0, <1>5 DEF Resolve, Leave, Blamed, InWalk, walk
  <2>2. turn # Len(Roots) + 1 /\ turn \in 1..Len(Roots) /\ turn <= turn
    BY <1>0, <2>1
  <2>3. \/ UNCHANGED <<artifacts, reached, matched>>
        \/ /\ reached' = reached \union {[root |-> turn, path |-> path, real |-> Target(path)]}
           /\ matched' = TRUE
    BY <1>5 DEF Resolve, found
  <2>4. \A a \in reached' : /\ a.root \in 1..Len(Roots) /\ a.path \in Paths /\ a.root <= turn
                            /\ a.root = turn => matched'
    BY <2>1, <2>2, <2>3 DEF Turns
  <2>5. \A e \in errors' : e[1] # Len(Roots) + 1
    BY <2>1, <2>2 DEF Turns, InWalk
  <2> QED
    BY <2>1, <2>3, <2>4, <2>5 DEF Turns
<1>6. CASE Finish
  <2>1. /\ UNCHANGED <<turn, artifacts, reached, explicit, matched>> /\ at = "roots" /\ at' = "done"
        /\ artifacts = <<>> \/ errors' = errors
    BY <1>6 DEF Finish, walk, found
  <2>2. \A e \in errors' : e \in errors \/ artifacts = <<>>
    BY <2>1
  <2> QED
    BY <2>1, <2>2 DEF Turns, InWalk
<1> QED
  BY <1>1, <1>2, <1>3, <1>4, <1>5, <1>6 DEF Next, Scan

\* What is on the way and not excluded is visible, and so is the root alone.
LEMMA OnWayVisible ==
    ASSUME DiscoverAssumption, NEW i \in 1..Len(Roots)
    PROVE  /\ \A p \in Paths : OnWay(i, p) /\ p \notin excluded => Visible(i, p)
           /\ OnWay(i, Roots[i].path)
<1>1. Roots[i].path \in Paths
  BY RootType
<1>2. Roots[i].path \in Above[Roots[i].path] /\ Way(i, Roots[i].path) \subseteq {Roots[i].path}
  <2>1. \A p \in Paths : p \in Above[p]
    BY AboveUnfold
  <2> QED
    BY <1>1, <2>1, WayGrows
<1> QED
  BY <1>2 DEF OnWay, Visible

\* Below a directory that can be listed the way goes on.
LEMMA OnWayBelow ==
    ASSUME DiscoverAssumption, NEW i \in 1..Len(Roots), NEW d \in Paths, Visible(i, d),
           disk[d].type = "dir", disk[d].readable,
           NEW q \in Paths, Parent[q] = d, disk[q].type # "absent"
    PROVE  OnWay(i, q) /\ q # Roots[i].path
<1>1. Above[q] = {q} \union Above[d] /\ Way(i, q) \subseteq {q} \union Way(i, d)
  BY AboveUnfold, WayGrows
<1>2. Roots[i].path \in Above[d]
  BY DEF Visible
<1>3. q # Roots[i].path
  BY <1>2, NotAboveItself
<1> QED
  BY <1>1, <1>2, <1>3 DEF OnWay, Visible

\* A root that is no directory is all there is of it.
LEMMA RootAlone ==
    ASSUME DiscoverAssumption, NEW i \in 1..Len(Roots), ~Is(Roots[i].path, "dir"),
           NEW p \in Paths, Visible(i, p)
    PROVE  p = Roots[i].path
BY VisibleWay DEF Is, Target

\* What is troubled stays so while the tree is left alone.
LEMMA TroubledKeeps ==
    ASSUME UNCHANGED world, NEW i
    PROVE  Troubled(i)' = Troubled(i)
<1>1. disk' = disk /\ excluded' = excluded
  BY DEF world
<1>2. \A p : Candidate(i, p)' = Candidate(i, p) /\ Visible(i, p)' = Visible(i, p)
  BY <1>1 DEF Candidate, Visible, Is, Target, Way
<1>3. \A p : /\ Target(p)' = Target(p)
             /\ \A type : Is(p, type)' = Is(p, type)
  BY <1>1 DEF Is, Target
<1> QED
  BY <1>1, <1>2, <1>3 DEF Troubled

\* What was found stays found: the finds are kept, and new errors have a reason.
LEMMA FoundKept ==
    ASSUME FoundAtRest, UNCHANGED world, UNCHANGED <<artifacts, reached>>,
           \A e \in errors' : \/ e \in errors
                              \/ e[1] # Len(Roots) + 1 => Troubled(e[1])
    PROVE  FoundAtRest'
<1>1. \A a \in reached : /\ a.real = Target(a.path)' /\ Candidate(a.root, a.path)'
                         /\ disk'[a.real].readable
  BY DEF FoundAtRest, world, Candidate, Visible, Is, Target, Way
<1>2. \A f \in DOMAIN artifacts : \E a \in reached :
         /\ a.real = f /\ artifacts[f] = Kind(Roots[a.root].kind, a.path, disk'[f].content)
         /\ \A b \in reached : b.real = f => b.root <= a.root
  BY DEF FoundAtRest, world
<1>3. \A e \in errors' : e[1] # Len(Roots) + 1 => Troubled(e[1])'
  BY TroubledKeeps DEF FoundAtRest
<1> QED
  BY <1>1, <1>2, <1>3 DEF FoundAtRest

\* So is the place of the walk, while it stands still.
LEMMA WalkKept ==
    ASSUME UNCHANGED world, UNCHANGED turn
    PROVE  /\ Root' = Root /\ disk' = disk /\ excluded' = excluded
           /\ \A p : /\ Visible(turn, p)' = Visible(turn, p) /\ OnWay(turn, p)' = OnWay(turn, p)
                     /\ Target(p)' = Target(p)
                     /\ \A type : Is(p, type)' = Is(p, type)
BY DEF world, Root, Visible, OnWay, Is, Target, Way

\* Before the walk.
LEMMA InitExact ==
    ASSUME DiscoverAssumption, Init
    PROVE  Exact
<1>1. Faithful
  BY InitFaithful
<1>2. Turns
  BY DEF Init, Turns
<1>3. WalkAtRest
  BY DEF Init, WalkAtRest, InWalk
<1>4. FoundAtRest
  BY DEF Init, FoundAtRest
<1> QED
  BY <1>1, <1>2, <1>3, <1>4 DEF Exact

\* The roots that are entered and left.
LEMMA SkipRootExact ==
    ASSUME DiscoverAssumption, Exact, changed = {}, SkipRoot \/ Finish
    PROVE  WalkAtRest' /\ FoundAtRest'
<1>1. /\ UNCHANGED world /\ UNCHANGED <<artifacts, reached>>
      /\ at = "roots" /\ ~InWalk'
      /\ path = NoPath /\ path' = NoPath /\ dirs' = {} /\ files' = {} /\ at' # "resolve"
      /\ explicit' = explicit /\ ~explicit
  BY DEF SkipRoot, Finish, add, walk, found, Exact, Faithful, Inside, Turns, InWalk, IInv, TypeOK
<1>2. WalkAtRest'
  BY <1>1 DEF WalkAtRest
<1>3. \A e \in errors' : e \in errors \/ e[1] = Len(Roots) + 1
  <2>1. CASE SkipRoot
    BY <2>1 DEF SkipRoot
  <2>2. CASE Finish
    <3>1. turn = Len(Roots) + 1
      BY <2>2 DEF Finish, Exact, Faithful, IInv, TypeOK, DiscoverAssumption
    <3> QED
      BY <2>2, <3>1 DEF Finish
  <2> QED
    BY <2>1, <2>2
<1>4. FoundAtRest'
  BY <1>1, <1>3, FoundKept DEF Exact
<1> QED
  BY <1>2, <1>4

\* A root that is neither a directory nor a file to inspect has no candidate.
LEMMA EnterRootExact ==
    ASSUME DiscoverAssumption, Exact, changed = {}, EnterRoot
    PROVE  WalkAtRest' /\ FoundAtRest'
<1>1. /\ UNCHANGED world /\ UNCHANGED turn /\ UNCHANGED <<artifacts, reached>> /\ at' = "walk"
      /\ turn \in 1..Len(Roots) /\ Root.path \notin excluded /\ path' = NoPath
      /\ \/ /\ Is(Root.path, "file") /\ Root.kind = "binary"
            /\ files' = {Root.path} /\ dirs' = {} /\ explicit' /\ errors' = errors
         \/ /\ Is(Root.path, "dir")
            /\ files' = {} /\ dirs' = {Root.path} /\ ~explicit' /\ errors' = errors
         \/ /\ ~Is(Root.path, "dir") /\ ~(Is(Root.path, "file") /\ Root.kind = "binary")
            /\ files' = {} /\ dirs' = {} /\ ~explicit'
            /\ errors' = errors \union {<<turn, Root.path>>}
  BY DEF EnterRoot, Excluded, Blamed, Exact, Faithful, IInv, TypeOK, DiscoverAssumption, add
<1>2. Root = Roots[turn] /\ Root.path \in Paths
  BY <1>1, RootType DEF Root
<1>3. Visible(turn, Root.path) /\ OnWay(turn, Root.path)
  BY <1>1, <1>2, OnWayVisible
<1>4. WalkAtRest'
  <2>1. /\ Root' = Root /\ excluded' = excluded
        /\ \A p : Visible(turn, p)' = Visible(turn, p) /\ OnWay(turn, p)' = OnWay(turn, p)
        /\ \A p, type : Is(p, type)' = Is(p, type)
    BY <1>1, WalkKept
  <2> QED
    BY <1>1, <1>3, <2>1 DEF WalkAtRest
<1>5. ~Is(Root.path, "dir") /\ ~(Is(Root.path, "file") /\ Root.kind = "binary") => Troubled(turn)
  <2> SUFFICES ASSUME ~Is(Root.path, "dir"), ~(Is(Root.path, "file") /\ Root.kind = "binary"),
                      NEW p \in Paths, Candidate(turn, p)
               PROVE  FALSE
    BY <1>1, <1>2 DEF Troubled
  <2>1. p = Root.path
    BY <1>1, <1>2, RootAlone DEF Candidate
  <2> QED
    BY <1>2, <2>1 DEF Candidate
<1>6. FoundAtRest'
  <2>1. \A e \in errors' : e \in errors \/ Troubled(e[1])
    BY <1>1, <1>5
  <2> QED
    BY <1>1, <2>1, FoundKept DEF Exact
<1> QED
  BY <1>4, <1>6

\* A root that gave nothing had nothing to give.
LEMMA LeaveRootExact ==
    ASSUME DiscoverAssumption, Exact, changed = {}, LeaveRoot
    PROVE  WalkAtRest' /\ FoundAtRest'
<1>1. /\ UNCHANGED world /\ UNCHANGED <<artifacts, reached>> /\ at = "walk" /\ at' = "roots"
      /\ path = NoPath /\ path' = NoPath /\ dirs = {} /\ files = {} /\ dirs' = {} /\ files' = {}
      /\ ~explicit' /\ turn \in 1..Len(Roots) /\ InWalk /\ ~InWalk'
  BY DEF LeaveRoot, add, Exact, Faithful, IInv, TypeOK, WalkShape, InWalk
<1>2. WalkAtRest'
  BY <1>1 DEF WalkAtRest
<1>3. ~matched => Troubled(turn)
  <2> SUFFICES ASSUME ~matched, NEW p \in Paths, Candidate(turn, p), disk[Target(p)].readable
               PROVE  FALSE
    BY <1>1 DEF Troubled, Exact, WalkAtRest, Root
  <2>1. Visible(turn, p) /\ Steady(turn, p)
    BY DEF Candidate, Steady
  <2>2. ~Pending(p)
    BY <1>1 DEF Pending, DiscoverAssumption
  <2>3. Dealt(turn, p)
    BY <1>1, <2>1, <2>2 DEF Exact, Faithful, Covered
  <2>4. Hit(turn, p) \in reached /\ Hit(turn, p).root = turn
    BY <2>3 DEF Dealt, Hit
  <2> QED
    BY <2>4 DEF Exact, Turns
<1>4. \A e \in errors' : e \in errors \/ Troubled(e[1])
  BY <1>3 DEF LeaveRoot, Unmatched, Blamed
<1>5. FoundAtRest'
  BY <1>1, <1>4, FoundKept DEF Exact
<1> QED
  BY <1>2, <1>5

\* What a directory holds is on the way; one that cannot be listed is an error.
LEMMA ListDirectoryExact ==
    ASSUME DiscoverAssumption, Exact, changed = {}, ListDirectory
    PROVE  WalkAtRest' /\ FoundAtRest'
<1>1. /\ UNCHANGED world /\ UNCHANGED turn /\ UNCHANGED <<artifacts, reached>> /\ at = "walk"
      /\ at' = at /\ path' = path /\ explicit' = explicit
      /\ files = {} /\ path = NoPath /\ turn \in 1..Len(Roots) /\ InWalk /\ InWalk'
      /\ dirs \subseteq Paths /\ disk \in [Paths -> Entry]
  BY DEF ListDirectory, found, add, Exact, Faithful, IInv, TypeOK, WalkShape, InWalk
<1>2. PICK d \in dirs :
         \/ /\ NotFollowed(d)
            /\ dirs' = dirs \ {d} /\ files' = files /\ errors' = errors
         \/ /\ ~NotFollowed(d) /\ (~Is(d, "dir") \/ ~disk[Target(d)].readable)
            /\ dirs' = dirs \ {d} /\ files' = files /\ errors' = errors \union {<<turn, d>>}
         \/ /\ ~NotFollowed(d) /\ Is(d, "dir") /\ disk[Target(d)].readable
            /\ files' = {p \in Listed(d) : ~Is(p, "dir")}
            /\ dirs' = (dirs \ {d}) \union {p \in Listed(d) : Is(p, "dir") /\ ~Excluded(p)}
            /\ errors' = errors
  BY DEF ListDirectory, Blamed
<1>3. /\ d \in Paths /\ Visible(turn, d) /\ Is(d, "dir") /\ ~explicit /\ Root.path \notin excluded
      /\ \A e \in dirs : Visible(turn, e) /\ Is(e, "dir")
  BY <1>1 DEF Exact, WalkAtRest
<1>4. ~NotFollowed(d) => Target(d) = d /\ disk[d].type = "dir"
  <2> SUFFICES ASSUME d = Root.path, disk[d].type = "link" PROVE FALSE
    BY <1>3 DEF NotFollowed, Target, Is
  <2>1. disk[d] \in Options[d] /\ disk[d] \in Entry /\ disk[d].to \in Paths
    BY <1>1, <1>3 DEF Exact, Faithful, Possible, Entry
  <2>2. disk[disk[d].to] \in Options[disk[d].to] /\ disk[disk[d].to].type = "dir"
    BY <1>3, <2>1 DEF Exact, Faithful, Possible, Is, Target
  <2>3. turn \in DOMAIN Roots
    BY <1>1 DEF DiscoverAssumption
  <2> QED
    BY <2>1, <2>2, <2>3 DEF DiscoverAssumption, Root
<1>5. ASSUME ~NotFollowed(d), disk[d].readable, NEW q \in Listed(d)
      PROVE  /\ q \in Paths /\ OnWay(turn, q) /\ q # Root.path
             /\ q \notin excluded => Visible(turn, q)
  <2>1. q \in Paths /\ Parent[q] = d /\ disk[q].type # "absent"
    BY <1>4, <1>5 DEF Listed
  <2>2. OnWay(turn, q) /\ q # Roots[turn].path
    BY <1>1, <1>3, <1>4, <1>5, <2>1, OnWayBelow
  <2> QED
    BY <1>1, <2>1, <2>2, OnWayVisible DEF Root
<1>6. /\ \A e \in dirs' : Visible(turn, e) /\ Is(e, "dir")
      /\ \A q \in files' : OnWay(turn, q) /\ q # Root.path
  BY <1>1, <1>2, <1>3, <1>4, <1>5 DEF Excluded
<1>7. WalkAtRest'
  <2>1. /\ Root' = Root /\ excluded' = excluded
        /\ \A p : Visible(turn, p)' = Visible(turn, p) /\ OnWay(turn, p)' = OnWay(turn, p)
        /\ \A p, type : Is(p, type)' = Is(p, type)
    BY <1>1, WalkKept
  <2> QED
    BY <1>1, <1>3, <1>6, <2>1 DEF WalkAtRest
<1>8. ~NotFollowed(d) /\ ~disk[Target(d)].readable => Troubled(turn)
  BY <1>3, <1>4 DEF Troubled, Root
<1>9. FoundAtRest'
  <2>1. \A e \in errors' : e \in errors \/ Troubled(e[1])
    BY <1>2, <1>3, <1>8
  <2> QED
    BY <1>1, <2>1, FoundKept DEF Exact
<1> QED
  BY <1>7, <1>9

\* What is taken up is a file that the walk comes to; a link to nothing is an error.
LEMMA StatExact ==
    ASSUME DiscoverAssumption, Exact, changed = {}, Stat
    PROVE  WalkAtRest' /\ FoundAtRest'
<1>1. /\ UNCHANGED world /\ UNCHANGED turn /\ UNCHANGED <<artifacts, reached>> /\ at = "walk"
      /\ dirs' = dirs /\ explicit' = explicit /\ at' # "resolve"
      /\ path = NoPath /\ turn \in 1..Len(Roots) /\ InWalk /\ files \subseteq Paths
  BY DEF Stat, found, Exact, Faithful, IInv, TypeOK, WalkShape, InWalk
<1>2. PICK q \in files :
         /\ files' = files \ {q}
         /\ \/ Excluded(q) /\ path' = path /\ errors' = errors
            \/ /\ ~Excluded(q) /\ Is(q, "absent") /\ path' = path
               /\ errors' = errors \union {<<turn, q>>}
            \/ /\ ~Excluded(q) /\ ~Is(q, "absent") /\ ~Is(q, "file") /\ path' = path
               /\ explicit \/ errors' = errors
            \/ /\ ~Excluded(q) /\ Is(q, "file")
               /\ path' = q /\ errors' = errors
  BY DEF Stat, Blamed
<1>3. /\ q \in Paths /\ OnWay(turn, q) /\ (explicit \/ q # Root.path)
      /\ explicit => q = Root.path /\ Is(q, "file") /\ Root.kind = "binary"
      /\ q \notin excluded => Visible(turn, q)
  BY <1>1, OnWayVisible DEF Exact, WalkAtRest
<1>4. WalkAtRest'
  <2>1. /\ Root' = Root /\ excluded' = excluded
        /\ \A p : Visible(turn, p)' = Visible(turn, p) /\ OnWay(turn, p)' = OnWay(turn, p)
        /\ \A p, type : Is(p, type)' = Is(p, type)
    BY <1>1, WalkKept
  <2>2. path' # NoPath => path' = q /\ Visible(turn, q) /\ Is(q, "file")
    BY <1>1, <1>2, <1>3 DEF Excluded
  <2>3. /\ Root.path \notin excluded
        /\ \A d \in dirs : Visible(turn, d) /\ Is(d, "dir")
        /\ \A r \in files : OnWay(turn, r) /\ (explicit \/ r # Root.path)
        /\ explicit => /\ files \subseteq {Root.path} /\ dirs = {}
                       /\ Is(Root.path, "file") /\ Root.kind = "binary"
    BY <1>1 DEF Exact, WalkAtRest
  <2>4. files' \subseteq files
    BY <1>2
  <2> QED
    BY <1>1, <1>3, <2>1, <2>2, <2>3, <2>4 DEF WalkAtRest
<1>5. ~Excluded(q) /\ Is(q, "absent") => Troubled(turn)
  BY <1>1, <1>3 DEF Troubled, Excluded, Exact, WalkAtRest, Root
<1>6. \A e \in errors' : e \in errors \/ Troubled(e[1])
  BY <1>2, <1>3, <1>5
<1>7. FoundAtRest'
  BY <1>1, <1>6, FoundKept DEF Exact
<1> QED
  BY <1>4, <1>7

\* A file that cannot be read is an error, and so is a root that is no binary.
LEMMA ReadHeaderExact ==
    ASSUME DiscoverAssumption, Exact, changed = {}, ReadHeader
    PROVE  WalkAtRest' /\ FoundAtRest'
<1>1. /\ UNCHANGED world /\ UNCHANGED turn /\ UNCHANGED <<artifacts, reached>> /\ at = "read"
      /\ dirs' = dirs /\ files' = files /\ explicit' = explicit
      /\ turn \in 1..Len(Roots) /\ InWalk /\ path \in Paths /\ path # NoPath
  BY DEF ReadHeader, walk, found, Exact, Faithful, IInv, TypeOK, WalkShape, InWalk,
         DiscoverAssumption
<1>2. \/ /\ ~(Is(path, "file") /\ disk[Target(path)].readable)
         /\ path' = NoPath /\ at' = "walk" /\ errors' = errors \union {<<turn, path>>}
      \/ /\ Is(path, "file") /\ disk[Target(path)].readable
         /\ \/ /\ Kind(Root.kind, path, disk[Target(path)].content) = "none"
               /\ path' = NoPath /\ at' = "walk"
               /\ errors' = IF explicit THEN errors \union {<<turn, path>>} ELSE errors
            \/ /\ at' = "resolve" /\ header' = disk[Target(path)].content
               /\ path' = path /\ errors' = errors
  BY DEF ReadHeader, Unopened, Leave, Blamed
<1>3. /\ Visible(turn, path) /\ Is(path, "file") /\ (path = Root.path => Root.kind = "binary")
      /\ explicit => path = Root.path
      /\ Root.path \notin excluded /\ Root = Roots[turn]
  BY <1>1 DEF Exact, WalkAtRest, Root
<1>4. WalkAtRest'
  <2>1. /\ Root' = Root /\ excluded' = excluded /\ disk' = disk
        /\ \A p : /\ Visible(turn, p)' = Visible(turn, p) /\ OnWay(turn, p)' = OnWay(turn, p)
                  /\ Target(p)' = Target(p)
        /\ \A p, type : Is(p, type)' = Is(p, type)
    BY <1>1, WalkKept
  <2>2. /\ \A d \in dirs : Visible(turn, d) /\ Is(d, "dir")
        /\ \A r \in files : OnWay(turn, r) /\ (explicit \/ r # Root.path)
        /\ explicit => /\ files \subseteq {Root.path} /\ dirs = {}
                       /\ Is(Root.path, "file") /\ Root.kind = "binary"
    BY DEF Exact, WalkAtRest
  <2>3. /\ path' # NoPath => path' = path
        /\ at' = "resolve" => /\ header' = disk[Target(path)].content /\ path' = path
                              /\ disk[Target(path)].readable
    BY <1>2
  <2> QED
    BY <1>1, <1>3, <2>1, <2>2, <2>3 DEF WalkAtRest
<1>5. ~disk[Target(path)].readable => Troubled(turn)
  BY <1>1, <1>3 DEF Troubled
<1>6. explicit /\ Kind(Root.kind, path, disk[Target(path)].content) = "none" => Troubled(turn)
  <2> SUFFICES ASSUME path = Root.path, Kind(Root.kind, path, disk[Target(path)].content) = "none",
                      NEW p \in Paths, Candidate(turn, p)
               PROVE  FALSE
    BY <1>3 DEF Troubled
  <2>1. ~Is(Root.path, "dir")
    BY <1>3 DEF Is
  <2>2. p = Root.path
    BY <1>1, <1>3, <2>1, RootAlone DEF Candidate
  <2> QED
    BY <1>3, <2>2 DEF Candidate
<1>7. \A e \in errors' : e \in errors \/ Troubled(e[1])
  BY <1>2, <1>3, <1>5, <1>6
<1>8. FoundAtRest'
  BY <1>1, <1>7, FoundKept DEF Exact
<1> QED
  BY <1>4, <1>8

\* The file becomes an artifact, of the kind its root and its first bytes say.
LEMMA ResolveExact ==
    ASSUME DiscoverAssumption, Exact, changed = {}, Resolve
    PROVE  WalkAtRest' /\ FoundAtRest'
<1>1. /\ UNCHANGED world /\ UNCHANGED turn /\ at = "resolve" /\ at' = "walk" /\ path' = NoPath
      /\ dirs' = dirs /\ files' = files /\ explicit' = explicit
      /\ turn \in 1..Len(Roots) /\ InWalk /\ path \in Paths /\ path # NoPath
  BY DEF Resolve, Leave, walk, found, Exact, Faithful, IInv, TypeOK, WalkShape, InWalk,
         DiscoverAssumption
<1>2. /\ Visible(turn, path) /\ Is(path, "file") /\ (path = Root.path => Root.kind = "binary")
      /\ header = disk[Target(path)].content /\ disk[Target(path)].readable
      /\ Root = Roots[turn] /\ Kind(Root.kind, path, header) # "none"
  BY <1>1 DEF Exact, WalkAtRest, Root, Faithful, IInv, WalkShape
<1> DEFINE f == Target(path)
           new == [root |-> turn, path |-> path, real |-> f]
           kind == Kind(Root.kind, path, header)
<1>3. /\ artifacts' = Recorded(f, kind) /\ reached' = reached \union {new} /\ errors' = errors
  BY <1>2 DEF Resolve, Is
<1>4. WalkAtRest'
  <2>1. /\ Root' = Root /\ excluded' = excluded
        /\ \A p : Visible(turn, p)' = Visible(turn, p) /\ OnWay(turn, p)' = OnWay(turn, p)
        /\ \A p, type : Is(p, type)' = Is(p, type)
    BY <1>1, WalkKept
  <2>2. /\ Root.path \notin excluded
        /\ \A d \in dirs : Visible(turn, d) /\ Is(d, "dir")
        /\ \A r \in files : OnWay(turn, r) /\ (explicit \/ r # Root.path)
        /\ explicit => /\ files \subseteq {Root.path} /\ dirs = {}
                       /\ Is(Root.path, "file") /\ Root.kind = "binary"
    BY <1>1 DEF Exact, WalkAtRest
  <2> QED
    BY <1>1, <2>1, <2>2 DEF WalkAtRest
<1>5. FoundAtRest'
  <2>0. /\ \A i, p : Candidate(i, p)' = Candidate(i, p) /\ Target(p)' = Target(p)
        /\ disk' = disk
    BY <1>1, ScanKeeps DEF world
  <2>1. Candidate(turn, path)
    BY <1>2 DEF Candidate
  <2>2. new.root = turn /\ new.path = path /\ new.real = f
    OBVIOUS
  <2>3. \A a \in reached : /\ a.real = Target(a.path) /\ Candidate(a.root, a.path)
                           /\ disk[a.real].readable /\ a.root <= turn
    BY DEF Exact, FoundAtRest, Turns
  <2>4. /\ DOMAIN artifacts' = {f} \union DOMAIN artifacts
        /\ \A g \in DOMAIN artifacts' : artifacts'[g] = IF g = f THEN kind ELSE artifacts[g]
    BY <1>3 DEF Recorded
  <2> HIDE DEF new
  <2>5. \A a \in reached' : /\ a.real = Target(a.path)' /\ Candidate(a.root, a.path)'
                            /\ disk'[a.real].readable
    BY <1>2, <1>3, <2>0, <2>1, <2>2, <2>3
  <2>6. ASSUME NEW g \in DOMAIN artifacts'
        PROVE  \E a \in reached' :
                 /\ a.real = g /\ artifacts'[g] = Kind(Roots[a.root].kind, a.path, disk'[g].content)
                 /\ \A b \in reached' : b.real = g => b.root <= a.root
    <3>1. CASE g = f
      <4>1. new \in reached' /\ artifacts'[g] = kind /\ turn <= turn
        BY <1>1, <1>3, <2>4, <3>1
      <4>2. \A b \in reached' : b.root <= turn
        BY <1>3, <2>2, <2>3, <4>1
      <4>3. kind = Kind(Roots[new.root].kind, new.path, disk'[g].content)
        BY <1>2, <2>0, <2>2, <3>1
      <4> QED
        BY <2>2, <3>1, <4>1, <4>2, <4>3
    <3>2. CASE g # f
      <4>1. g \in DOMAIN artifacts /\ artifacts'[g] = artifacts[g]
        BY <2>4, <3>2
      <4>2. PICK a \in reached :
               /\ a.real = g /\ artifacts[g] = Kind(Roots[a.root].kind, a.path, disk[g].content)
               /\ \A b \in reached : b.real = g => b.root <= a.root
        BY <4>1 DEF Exact, FoundAtRest
      <4> QED
        BY <1>3, <2>0, <2>2, <3>2, <4>1, <4>2
    <3> QED
      BY <3>1, <3>2
  <2>7. \A e \in errors' : e[1] # Len(Roots) + 1 => Troubled(e[1])'
    BY <1>1, <1>3, TroubledKeeps DEF Exact, FoundAtRest
  <2> QED
    BY <2>5, <2>6, <2>7 DEF FoundAtRest
<1> QED
  BY <1>4, <1>5

\* Every step keeps it; a tree that has changed is not at rest.
LEMMA StepExact ==
    ASSUME DiscoverAssumption, Exact, [Next]_vars
    PROVE  Exact'
<1>1. Faithful' /\ Turns'
  BY StepFaithful, StepTurns DEF Exact
<1>2. CASE Change
  <2>1. changed' # {}
    BY <1>2 DEF Change
  <2> QED
    BY <1>1, <2>1 DEF Exact
<1>3. CASE Scan
  <2>1. changed' = changed
    BY <1>3 DEF Scan, SkipRoot, EnterRoot, ListDirectory, Stat, ReadHeader, Resolve, LeaveRoot,
                Finish, world
  <2>2. changed = {} => WalkAtRest' /\ FoundAtRest'
    BY <1>3, SkipRootExact, EnterRootExact, ListDirectoryExact, StatExact, ReadHeaderExact,
       ResolveExact, LeaveRootExact DEF Scan
  <2> QED
    BY <1>1, <2>1, <2>2 DEF Exact
<1>4. CASE UNCHANGED vars
  <2>1. /\ UNCHANGED world /\ UNCHANGED turn /\ UNCHANGED <<artifacts, reached>>
        /\ UNCHANGED <<at, path, header, dirs, files, explicit, errors>>
    BY <1>4 DEF vars, world, add, walk, found
  <2>2. WalkAtRest => WalkAtRest'
    <3>1. /\ Root' = Root /\ excluded' = excluded /\ disk' = disk
          /\ \A p : /\ Visible(turn, p)' = Visible(turn, p) /\ OnWay(turn, p)' = OnWay(turn, p)
                    /\ Target(p)' = Target(p)
          /\ \A p, type : Is(p, type)' = Is(p, type)
      BY <2>1, WalkKept
    <3> QED
      BY <2>1, <3>1 DEF WalkAtRest, InWalk
  <2>3. FoundAtRest => FoundAtRest'
    BY <2>1, FoundKept
  <2> QED
    BY <1>1, <2>1, <2>2, <2>3 DEF Exact, world
<1> QED
  BY <1>2, <1>3, <1>4 DEF Next

\* What is taken for a binary comes from a binary root, and the other way round.
LEMMA BinaryKind ==
    ASSUME DiscoverAssumption, NEW i \in 1..Len(Roots), NEW p \in Paths, NEW content,
           Kind(Roots[i].kind, p, content) # "none"
    PROVE  Kind(Roots[i].kind, p, content) = "binary" <=> Roots[i].kind = "binary"
<1>1. Roots[i].kind \in {"object", "binary"} /\ Suffix[p] \in {"object", "archive", "none"}
  BY RootType DEF DiscoverAssumption
<1> QED
  BY <1>1 DEF Kind

\* A tree that nobody changes is reported exactly: the artifacts are the files
\* that the roots ask for, a binary where a binary root leads to it, and there
\* is an error if and only if something is wrong with a root.
THEOREM DiscoverExact == Spec => []ScanExact
<1>1. Init => Exact
  BY InitExact, DiscoverAssumption
<1>2. Exact /\ [Next]_vars => Exact'
  BY StepExact, DiscoverAssumption
<1>3. Exact => ScanExact
  <2> SUFFICES ASSUME Exact, at = "done", changed = {}
               PROVE  /\ \A f \in Paths :
                           LET finds == {x \in (DOMAIN Roots) \X Paths :
                                           /\ Target(x[2]) = f /\ Candidate(x[1], x[2])
                                           /\ disk[f].readable}
                               kinds == {Kind(Roots[x[1]].kind, x[2], disk[f].content) : x \in finds}
                           IN  /\ f \in DOMAIN artifacts <=> finds # {}
                               /\ f \in DOMAIN artifacts =>
                                    artifacts[f] \in (IF "binary" \in kinds THEN {"binary"} ELSE kinds)
                      /\ errors = {} <=>
                           /\ \A i \in DOMAIN Roots : ~Troubled(i)
                           /\ \E i \in DOMAIN Roots : Roots[i].path \notin excluded
    BY DEF ScanExact
  <2> USE DiscoverAssumption
  <2>1. /\ DOMAIN Roots = 1..Len(Roots) /\ Len(Roots) \in Nat /\ turn = Len(Roots) + 1
        /\ \A i \in DOMAIN Roots : i \in 1..Len(Roots) /\ i < turn
    BY DEF DiscoverAssumption, Exact, Faithful, IInv, WalkShape
  <2>2. \A i \in DOMAIN Roots, p \in Paths : Visible(i, p) => Dealt(i, p)
    BY <2>1 DEF Exact, Faithful, Covered, Steady
  <2>3. \A a \in reached : /\ a.root \in DOMAIN Roots /\ a.path \in Paths
                           /\ a.real = Target(a.path) /\ Candidate(a.root, a.path)
                           /\ disk[a.real].readable /\ a.real \in DOMAIN artifacts
    BY <2>1 DEF Exact, Turns, FoundAtRest, Faithful, IInv, TypeOK
  <2>4. ASSUME NEW i \in DOMAIN Roots, NEW p \in Paths, Candidate(i, p), disk[Target(p)].readable
        PROVE  Hit(i, p) \in reached /\ Hit(i, p).root = i /\ Hit(i, p).path = p
               /\ Hit(i, p).real = Target(p)
    BY <2>2, <2>4 DEF Dealt, Candidate, Hit
  <2>5. ASSUME NEW f \in Paths
        PROVE  LET finds == {x \in (DOMAIN Roots) \X Paths :
                               Target(x[2]) = f /\ Candidate(x[1], x[2]) /\ disk[f].readable}
                   kinds == {Kind(Roots[x[1]].kind, x[2], disk[f].content) : x \in finds}
               IN  /\ f \in DOMAIN artifacts <=> finds # {}
                   /\ f \in DOMAIN artifacts =>
                        artifacts[f] \in (IF "binary" \in kinds THEN {"binary"} ELSE kinds)
    <3> DEFINE finds == {x \in (DOMAIN Roots) \X Paths :
                           Target(x[2]) = f /\ Candidate(x[1], x[2]) /\ disk[f].readable}
               kinds == {Kind(Roots[x[1]].kind, x[2], disk[f].content) : x \in finds}
    <3>1. ASSUME NEW x \in finds
          PROVE  Hit(x[1], x[2]) \in reached /\ f \in DOMAIN artifacts
                 /\ Hit(x[1], x[2]).root = x[1] /\ Hit(x[1], x[2]).real = f
                 /\ x[1] \in DOMAIN Roots /\ x[2] \in Paths /\ Candidate(x[1], x[2])
      BY <2>3, <2>4
    <3>2. ASSUME f \in DOMAIN artifacts
          PROVE  \E x \in finds :
                    /\ artifacts[f] = Kind(Roots[x[1]].kind, x[2], disk[f].content)
                    /\ \A b \in reached : b.real = f => b.root <= x[1]
      <4>1. PICK a \in reached :
               /\ a.real = f /\ artifacts[f] = Kind(Roots[a.root].kind, a.path, disk[f].content)
               /\ \A b \in reached : b.real = f => b.root <= a.root
        BY <3>2 DEF Exact, FoundAtRest
      <4>2. <<a.root, a.path>> \in finds
        BY <2>3, <4>1
      <4> QED
        BY <4>1, <4>2
    <3>3. ASSUME f \in DOMAIN artifacts
          PROVE  artifacts[f] \in (IF "binary" \in kinds THEN {"binary"} ELSE kinds)
      <4>1. PICK x \in finds :
              /\ artifacts[f] = Kind(Roots[x[1]].kind, x[2], disk[f].content)
              /\ \A b \in reached : b.real = f => b.root <= x[1]
        BY <3>2, <3>3
      <4>2. artifacts[f] \in kinds
        BY <4>1
      <4>3. ASSUME "binary" \in kinds PROVE artifacts[f] = "binary"
        <5>1. PICK y \in finds : Kind(Roots[y[1]].kind, y[2], disk[f].content) = "binary"
          BY <4>3
        <5>2. y[1] \in 1..Len(Roots) /\ x[1] \in 1..Len(Roots) /\ y[1] <= x[1] /\ x[2] \in Paths
              /\ y[2] \in Paths /\ Candidate(x[1], x[2]) /\ Target(x[2]) = f
          BY <2>1, <3>1, <4>1
        <5>3. Roots[y[1]].kind = "binary"
          BY <5>1, <5>2, BinaryKind
        <5>4. Roots[x[1]].kind = "binary"
          <6>1. y[1] = x[1] \/ y[1] < x[1]
            BY <5>2
          <6> QED
            BY <2>1, <5>2, <5>3, <6>1 DEF DiscoverAssumption
        <5>5. Kind(Roots[x[1]].kind, x[2], disk[f].content) # "none"
          BY <5>2 DEF Candidate
        <5>6. Kind(Roots[x[1]].kind, x[2], disk[f].content) = "binary"
          <6>1. PICK i \in 1..Len(Roots) : i = x[1]
            BY <5>2
          <6>2. PICK p \in Paths : p = x[2]
            BY <5>2
          <6>3. Roots[i].kind = "binary" /\ Kind(Roots[i].kind, p, disk[f].content) # "none"
            BY <5>4, <5>5, <6>1, <6>2
          <6>4. Kind(Roots[i].kind, p, disk[f].content) = "binary"
            BY <6>3, BinaryKind
          <6> QED
            BY <6>1, <6>2, <6>4
        <5> QED
          BY <4>1, <5>6
      <4> QED
        BY <4>2, <4>3
    <3> HIDE DEF finds, kinds
    <3>4. f \in DOMAIN artifacts <=> finds # {}
      BY <3>1, <3>2
    <3>5. /\ f \in DOMAIN artifacts <=> finds # {}
          /\ f \in DOMAIN artifacts =>
               artifacts[f] \in (IF "binary" \in kinds THEN {"binary"} ELSE kinds)
      BY <3>3, <3>4
    <3> QED
      BY <3>5 DEF finds, kinds
  <2>6. ASSUME errors = {}
        PROVE  /\ \A i \in DOMAIN Roots : ~Troubled(i)
               /\ \E i \in DOMAIN Roots : Roots[i].path \notin excluded
    <3>1. ASSUME NEW i \in DOMAIN Roots, Troubled(i) PROVE FALSE
      <4>1. \A p \in Paths : Visible(i, p) => ~Bad(p)
        BY <2>2, <2>6 DEF Dealt
      <4>2. \E a \in reached : a.root = i
        BY <2>1, <2>6, <3>1 DEF Troubled, Exact, Faithful, IInv, RootsGave, Given
      <4>3. \E p \in Paths : Candidate(i, p) /\ disk[Target(p)].readable
        BY <2>3, <4>2
      <4> QED
        BY <3>1, <4>1, <4>3 DEF Troubled, Bad
    <3>2. artifacts # <<>>
      BY <2>6 DEF Exact, Faithful, IInv, RootsGave
    <3>3. PICK a \in reached : TRUE
      BY <3>2 DEF Exact, Turns
    <3>4. a.root \in DOMAIN Roots /\ Roots[a.root].path \notin excluded
      BY <2>1, <2>3, VisibleWay DEF Candidate
    <3> QED
      BY <3>1, <3>4
  <2>7. ASSUME \A i \in DOMAIN Roots : ~Troubled(i),
               NEW i \in DOMAIN Roots, Roots[i].path \notin excluded
        PROVE  errors = {}
    <3>1. PICK p \in Paths : Candidate(i, p) /\ disk[Target(p)].readable
      BY <2>7 DEF Troubled
    <3>2. artifacts # <<>>
      <4>1. Target(p) \in DOMAIN artifacts
        BY <2>3, <2>4, <3>1
      <4> QED
        BY <4>1
    <3>3. ASSUME NEW e \in errors PROVE FALSE
      <4>1. e[1] \in 1..Len(Roots) + 1
        BY DEF Exact, Faithful, IInv, TypeOK
      <4>2. e[1] # Len(Roots) + 1
        BY <3>2 DEF Exact, Turns
      <4>3. e[1] \in DOMAIN Roots
        BY <2>1, <4>1, <4>2
      <4> QED
        BY <2>7, <4>2, <4>3 DEF Exact, FoundAtRest
    <3> QED
      BY <3>3
  <2> QED
    BY <2>5, <2>6, <2>7
<1> QED
  BY <1>1, <1>2, <1>3, PTL DEF Spec
=============================================================================
