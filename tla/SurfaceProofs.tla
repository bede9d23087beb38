---------------------------- MODULE SurfaceProofs ----------------------------
(***************************************************************************)
(* Proofs about refs and notifications of PlaywrightSurface, for every     *)
(* page, every tree and every length of a session.                         *)
(***************************************************************************)
EXTENDS SurfaceProtocol, SequenceTheorems, FiniteSetTheorems, TLAPS

------------------------------------------------------------------------------
(* Counting positions *)

(* A set of positions up to n, and how its members are counted. *)
LEMMA CountBefore ==
  ASSUME NEW n \in Nat, NEW S \in SUBSET (1..n)
  PROVE  /\ IsFiniteSet(S) /\ Cardinality(S) \in Nat
         /\ \A i \in S : Before(S, i) \in 0..(Cardinality(S) - 1)
         /\ \A i, j \in S : i < j => Before(S, i) < Before(S, j)
<1>1. IsFiniteSet(1..n)
  BY FS_Interval
<1>2. ASSUME NEW T \in SUBSET (1..n) PROVE IsFiniteSet(T) /\ Cardinality(T) \in Nat
  BY <1>1, FS_Subset, FS_CardinalityType
<1>3. IsFiniteSet(S) /\ Cardinality(S) \in Nat
  BY <1>2
<1>4. ASSUME NEW T, T \subseteq 1..n, NEW i \in S, {j \in S : j < i} \cup {i} \subseteq T
      PROVE  Before(S, i) \in Nat /\ Before(S, i) + 1 <= Cardinality(T)
  <2> DEFINE B == {j \in S : j < i}
  <2>1. IsFiniteSet(B) /\ Cardinality(B) \in Nat
    <3>1. B \in SUBSET (1..n)
      OBVIOUS
    <3> QED
      BY <1>2, <3>1
  <2>2. i \notin B
    OBVIOUS
  <2>3. B \cup {i} \in SUBSET T
    BY <1>4
  <2>4. Before(S, i) = Cardinality(B)
    BY DEF Before
  <2> HIDE DEF B
  <2>5. IsFiniteSet(T)
    BY <1>2, <1>4
  <2>6. Cardinality(B \cup {i}) = Cardinality(B) + 1
    BY <2>1, <2>2, FS_AddElement
  <2>7. Cardinality(B \cup {i}) <= Cardinality(T)
    BY <2>3, <2>5, FS_Subset
  <2> QED
    BY <2>1, <2>4, <2>6, <2>7
<1>5. ASSUME NEW i \in S PROVE Before(S, i) \in 0..(Cardinality(S) - 1)
  <2>1. {j \in S : j < i} \cup {i} \subseteq S /\ S \subseteq 1..n
    OBVIOUS
  <2>2. Before(S, i) \in Nat /\ Before(S, i) + 1 <= Cardinality(S)
    BY <1>4, <2>1
  <2> QED
    BY <1>3, <2>2
<1>6. ASSUME NEW i \in S, NEW j \in S, i < j PROVE Before(S, i) < Before(S, j)
  <2> DEFINE T == {k \in S : k < j}
  <2>1. T \subseteq 1..n
    OBVIOUS
  <2>2. \A k \in S : k < i => k < j
    BY <1>6
  <2>3. {k \in S : k < i} \cup {i} \subseteq T
    BY <1>6, <2>2
  <2>4. Before(S, i) \in Nat /\ Before(S, i) + 1 <= Cardinality(T)
    <3> HIDE DEF T
    <3> QED
      BY <1>4, <2>1, <2>3
  <2>5. Before(S, j) = Cardinality(T) /\ Before(S, j) \in Int
    BY <1>5, <1>3 DEF Before
  <2> QED
    BY <2>4, <2>5
<1> QED
  BY <1>3, <1>5, <1>6

(* Every member is the k-th one for one k, in order. *)
LEMMA NthMember ==
  ASSUME NEW n \in Nat, NEW S \in SUBSET (1..n)
  PROVE  /\ \A k \in 1..Cardinality(S) : Nth(S, k) \in S /\ Before(S, Nth(S, k)) = k - 1
         /\ \A i \in S : Before(S, i) + 1 \in 1..Cardinality(S) /\ Nth(S, Before(S, i) + 1) = i
         /\ \A k, m \in 1..Cardinality(S) : k < m => Nth(S, k) < Nth(S, m)
<1> DEFINE c == Cardinality(S)
           rank == [i \in S |-> Before(S, i) + 1]
<1>1. /\ IsFiniteSet(S) /\ c \in Nat
      /\ \A i \in S : Before(S, i) \in 0..(c - 1)
      /\ \A i, j \in S : i < j => Before(S, i) < Before(S, j)
  BY CountBefore
<1>2. \A i, j \in S : Before(S, i) = Before(S, j) => i = j
  <2>1. \A i, j \in S : i < j \/ j < i \/ i = j
    OBVIOUS
  <2>2. \A i \in S : Before(S, i) \in Int
    BY <1>1
  <2> QED
    BY <1>1, <2>1, <2>2
<1>3. rank \in Injection(S, 1..c)
  BY <1>1, <1>2 DEF Injection, IsInjective
<1>4. rank \in Surjection(S, 1..c)
  <2>1. IsFiniteSet(1..c) /\ Cardinality(1..c) = c
    BY <1>1, FS_Interval
  <2> HIDE DEF rank
  <2> QED
    BY <1>3, <2>1, FS_Injection
<1>5. \A k \in 1..c : \E i \in S : rank[i] = k
  BY <1>4 DEF Surjection
<1>6. ASSUME NEW k \in 1..c PROVE Nth(S, k) \in S /\ Before(S, Nth(S, k)) = k - 1
  <2>1. PICK i \in S : Before(S, i) + 1 = k
    BY <1>5
  <2>2. Before(S, i) = k - 1
    BY <1>1, <2>1
  <2> QED
    BY <2>2 DEF Nth
<1>7. ASSUME NEW i \in S PROVE Before(S, i) + 1 \in 1..c /\ Nth(S, Before(S, i) + 1) = i
  <2>1. Before(S, i) + 1 \in 1..c /\ (Before(S, i) + 1) - 1 = Before(S, i)
    BY <1>1
  <2> QED
    BY <1>2, <1>6, <2>1
<1>8. ASSUME NEW k \in 1..c, NEW m \in 1..c, k < m PROVE Nth(S, k) < Nth(S, m)
  <2> DEFINE x == Nth(S, k)
             y == Nth(S, m)
  <2> HIDE DEF c, rank, x, y
  <2>1. /\ x \in S /\ Before(S, x) = k - 1
        /\ y \in S /\ Before(S, y) = m - 1
    BY <1>6 DEF x, y
  <2>2. Before(S, x) < Before(S, y)
    BY <1>1, <1>8, <2>1
  <2>3. ~(Before(S, y) < Before(S, x)) /\ x # y
    BY <1>1, <1>8, <2>1, <2>2
  <2>4. x \in Int /\ y \in Int
    BY <2>1
  <2> QED
    BY <1>1, <2>1, <2>3, <2>4 DEF x, y
<1> QED
  BY <1>6, <1>7, <1>8

(* Counted among all the positions up to n or among those of S alone, a    *)
(* part of S is before the k-th member in the same number.                 *)
LEMMA SameCount ==
  ASSUME NEW n \in Nat, NEW S \in SUBSET (1..n), NEW T \in SUBSET S,
         NEW k \in 1..Cardinality(S)
  PROVE  Cardinality({m \in 1..(k - 1) : Nth(S, m) \in T}) = Before(T, Nth(S, k))
<1> DEFINE counted == {m \in 1..(k - 1) : Nth(S, m) \in T}
           there   == {j \in T : j < Nth(S, k)}
           place   == [m \in counted |-> Nth(S, m)]
<1>1. /\ \A m \in 1..Cardinality(S) : Nth(S, m) \in S
      /\ \A i \in S : Before(S, i) + 1 \in 1..Cardinality(S) /\ Nth(S, Before(S, i) + 1) = i
      /\ \A l, m \in 1..Cardinality(S) : l < m => Nth(S, l) < Nth(S, m)
  BY NthMember
<1>2. Cardinality(S) \in Nat /\ 1..(k - 1) \subseteq 1..Cardinality(S)
  <2>1. Cardinality(S) \in Nat
    BY CountBefore
  <2> QED
    BY <2>1
<1>0. (\A i \in S : i \in Int) /\ \A m \in 1..Cardinality(S) : Nth(S, m) \in Int
  <2>1. \A i \in S : i \in Int
    OBVIOUS
  <2> QED
    BY <1>1, <2>1
<1>3. place \in [counted -> there]
  BY <1>1, <1>2
<1>4. ASSUME NEW l \in counted, NEW m \in counted, place[l] = place[m] PROVE l = m
  <2> DEFINE x == Nth(S, l)
             y == Nth(S, m)
  <2>1. l \in 1..Cardinality(S) /\ m \in 1..Cardinality(S)
    BY <1>2
  <2>2. x = y
    BY <1>4
  <2>3. x \in Int /\ (l < m => x < y) /\ (m < l => y < x)
    BY <1>0, <1>1, <2>1
  <2> HIDE DEF x, y, counted, place
  <2> QED
    BY <1>2, <2>1, <2>2, <2>3
<1>5. ASSUME NEW j \in there PROVE \E m \in counted : place[m] = j
  <2> DEFINE m == Before(S, j) + 1
  <2>1. j \in S /\ j < Nth(S, k)
    OBVIOUS
  <2>2. m \in 1..Cardinality(S) /\ Nth(S, m) = j
    BY <1>1, <2>1
  <2> HIDE DEF m
  <2>3. m < k
    <3> DEFINE x == Nth(S, k)
    <3>1. x \in Int /\ j \in Int /\ j < x
      BY <1>0, <2>1
    <3>2. k < m => x < j
      BY <1>1, <2>2
    <3>3. k = m => x = j
      BY <2>2
    <3> HIDE DEF x
    <3>4. k \in Int /\ m \in Int
      BY <1>2, <2>2
    <3> QED
      BY <3>1, <3>2, <3>3, <3>4
  <2>4. m \in counted
    BY <2>2, <2>3
  <2> QED
    BY <2>2, <2>4
<1>6. place \in Bijection(counted, there)
  BY <1>3, <1>4, <1>5 DEF Bijection, Injection, IsInjective, Surjection
<1>7. IsFiniteSet(counted)
  BY FS_Interval, FS_Subset
<1> HIDE DEF counted, there, place
<1>8. Cardinality(there) = Cardinality(counted)
  BY <1>6, <1>7, FS_Bijection DEF ExistsBijection
<1> QED
  BY <1>8 DEF counted, there, Before

(* Among the members of T, one has as many of them before it as `at` has   *)
(* members of U; it is no later than `at`, and it is `at` when U leaves    *)
(* out none of those before.                                               *)
LEMMA CountedShort ==
  ASSUME NEW n \in Nat, NEW T \in SUBSET (1..n), NEW U \in SUBSET T, NEW at \in U
  PROVE  \E i \in 1..at : /\ {x \in T : Before(T, x) = Before(U, at)} = {i}
                          /\ i = at <=> {j \in T \ U : j < at} = {}
<1> DEFINE inT == {j \in T : j < at}
           inU == {j \in U : j < at}
           m   == Before(U, at)
<1>1. /\ Cardinality(T) \in Nat
      /\ \A i \in T : Before(T, i) \in 0..(Cardinality(T) - 1)
      /\ \A i, j \in T : i < j => Before(T, i) < Before(T, j)
  BY CountBefore
<1>2. at \in T /\ at \in 1..n /\ \A i \in T : i \in Int
  OBVIOUS
<1>3. IsFiniteSet(inT) /\ inU \in SUBSET inT
  <2>1. inT \in SUBSET (1..n) /\ inU \in SUBSET inT
    OBVIOUS
  <2>2. IsFiniteSet(1..n)
    BY FS_Interval
  <2> HIDE DEF inT, inU
  <2> QED
    BY <2>1, <2>2, FS_Subset
<1>4. m = Cardinality(inU) /\ Before(T, at) = Cardinality(inT)
  BY DEF Before
<1>5. m \in Nat /\ m <= Before(T, at)
  <2> HIDE DEF inT, inU, m
  <2> QED
    BY <1>3, <1>4, FS_Subset, FS_CardinalityType
<1>6. m = Before(T, at) <=> inU = inT
  <2> HIDE DEF inT, inU, m
  <2> QED
    BY <1>3, <1>4, FS_Subset
<1>7. inU = inT <=> {j \in T \ U : j < at} = {}
  OBVIOUS
<1>8. m + 1 \in 1..Cardinality(T)
  <2> HIDE DEF m
  <2> QED
    BY <1>1, <1>2, <1>5
<1> DEFINE i == Nth(T, m + 1)
<1>9. i \in T /\ Before(T, i) = m
  <2>1. \A k \in 1..Cardinality(T) : Nth(T, k) \in T /\ Before(T, Nth(T, k)) = k - 1
    BY NthMember
  <2> HIDE DEF m
  <2> QED
    BY <1>5, <1>8, <2>1
<1> HIDE DEF m, i, inT, inU
<1>10. \A x, y \in T : Before(T, x) = Before(T, y) => x = y
  <2> SUFFICES ASSUME NEW x \in T, NEW y \in T, Before(T, x) = Before(T, y)
               PROVE  x = y
    OBVIOUS
  <2>1. ~(x < y) /\ ~(y < x) /\ x \in Int /\ y \in Int
    BY <1>1, <1>2
  <2> QED
    BY <2>1
<1>11. i \in 1..at
  <2>1. ~(at < i)
    BY <1>1, <1>2, <1>5, <1>9
  <2>2. i \in 1..n
    BY <1>9
  <2> QED
    BY <1>2, <2>1, <2>2
<1>12. {x \in T : Before(T, x) = m} = {i}
  BY <1>9, <1>10
<1>13. i = at <=> m = Before(T, at)
  BY <1>2, <1>9, <1>10
<1> QED
  BY <1>6, <1>7, <1>11, <1>12, <1>13 DEF m

(* The k-th element of a tree, and what _resolve finds of its recipe in    *)
(* the same tree.                                                          *)
LEMMA RecipeFinds ==
  ASSUME NEW tree \in Trees, NEW k \in DOMAIN ElementsOf(tree)
  PROVE  LET e == ElementsOf(tree)[k]
         IN  \E i \in 1..e.at :
               /\ Relocated(tree, RecipeOf(ElementsOf(tree), k)) = {i}
               /\ i = e.at <=> Uncounted(tree, e) = {}
<1> DEFINE E == ElementsOf(tree)
           S == ListedIn(tree)
           at == Nth(S, k)
           role == tree[at].role
           name == tree[at].name
           T == {j \in DOMAIN tree : Alike(role, name, tree[j])}
           U == T \cap S
<1>1. PICK n \in Nat : DOMAIN tree = 1..n
  BY DEF Trees
<1>2. S \in SUBSET (1..n)
  BY <1>1 DEF ListedIn
<1>3. DOMAIN E = 1..Cardinality(S) /\ Cardinality(S) \in Nat
  BY <1>2, CountBefore DEF ElementsOf
<1>4. \A m \in DOMAIN E : /\ E[m].at = Nth(S, m) /\ Nth(S, m) \in S
                          /\ E[m].role = tree[Nth(S, m)].role
                          /\ E[m].name = tree[Nth(S, m)].name
  <2>1. \A m \in DOMAIN E : /\ E[m].at = Nth(S, m)
                            /\ E[m].role = tree[Nth(S, m)].role
                            /\ E[m].name = tree[Nth(S, m)].name
    BY DEF ElementsOf
  <2> HIDE DEF E, S
  <2>2. \A m \in DOMAIN E : Nth(S, m) \in S
    BY <1>2, <1>3, NthMember
  <2> QED
    BY <2>1, <2>2
<1>5. T \in SUBSET (1..n) /\ at \in U
  <2>1. at \in S /\ at \in DOMAIN tree
    BY <1>4 DEF ListedIn
  <2> HIDE DEF at
  <2>2. at \in T
    BY <2>1 DEF Alike
  <2> QED
    BY <1>1, <2>1, <2>2
<1>6. RecipeOf(E, k) = [role |-> role, name |-> name, ordinal |-> Before(U, at)]
  <2>1. RecipeOf(E, k) =
          [role |-> role, name |-> name,
           ordinal |-> Cardinality({j \in 1..(k - 1) : Alike(role, name, E[j])})]
    BY <1>4 DEF RecipeOf
  <2>2. \A j \in 1..(k - 1) : Alike(role, name, E[j]) <=> Nth(S, j) \in U
    <3>1. \A j \in 1..(k - 1) : j \in DOMAIN E
      BY <1>3
    <3>2. \A j \in S : j \in DOMAIN tree
      BY DEF ListedIn
    <3> HIDE DEF E, S, at
    <3> QED
      BY <1>4, <3>1, <3>2 DEF Alike
  <2>3. {j \in 1..(k - 1) : Alike(role, name, E[j])} = {j \in 1..(k - 1) : Nth(S, j) \in U}
    BY <2>2
  <2>4. k \in 1..Cardinality(S)
    BY <1>3
  <2>6. U \in SUBSET S
    OBVIOUS
  <2> HIDE DEF E, S, U, role, name
  <2>5. Cardinality({j \in 1..(k - 1) : Nth(S, j) \in U}) = Before(U, at)
    BY <1>2, <2>4, <2>6, SameCount
  <2> QED
    BY <2>1, <2>3, <2>5
<1>7. Relocated(tree, RecipeOf(E, k)) = {i \in T : Before(T, i) = Before(U, at)}
  <2>1. Relocated(tree, RecipeOf(E, k)) =
          {i \in T : Cardinality({j \in 1..(i - 1) : Alike(role, name, tree[j])}) = Before(U, at)}
    <3> HIDE DEF E, at, U
    <3> QED
      BY <1>6 DEF Relocated
  <2>2. ASSUME NEW i \in T
        PROVE  {j \in 1..(i - 1) : Alike(role, name, tree[j])} = {j \in T : j < i}
    <3>1. \A j : j \in 1..(i - 1) <=> j \in DOMAIN tree /\ j < i
      BY <1>1
    <3> QED
      BY <3>1
  <2> HIDE DEF E, T, U, at, role, name
  <2> QED
    BY <2>1, <2>2 DEF Before
<1>8. Uncounted(tree, E[k]) = {j \in T \ U : j < at}
  <2>1. /\ E[k].at = at /\ E[k].role = role /\ E[k].name = name
        /\ at \in DOMAIN tree /\ role \notin StructuralRoles
    BY <1>4 DEF ListedIn, Listed
  <2> HIDE DEF E, at
  <2>2. \A j : j \in 1..(at - 1) <=> j \in DOMAIN tree /\ j < at
    BY <1>1, <2>1
  <2>3. \A j \in T : j \in S <=> tree[j].hasRef
    BY <2>1 DEF ListedIn, Listed, Alike
  <2>4. Uncounted(tree, E[k]) = {j \in 1..(at - 1) : ~tree[j].hasRef /\ Alike(role, name, tree[j])}
    BY <2>1 DEF Uncounted
  <2> HIDE DEF S, role, name
  <2> QED
    BY <2>2, <2>3, <2>4
<1>9. \E i \in 1..at : /\ {x \in T : Before(T, x) = Before(U, at)} = {i}
                       /\ i = at <=> {j \in T \ U : j < at} = {}
  <2>1. U \in SUBSET T
    OBVIOUS
  <2> HIDE DEF T, at, U
  <2> QED
    BY <1>5, <2>1, CountedShort
<1> QED
  <2>1. E[k].at = at
    BY <1>4
  <2> HIDE DEF T, at, S, U, E
  <2>2. \E i \in 1..E[k].at : /\ Relocated(tree, RecipeOf(E, k)) = {i}
                              /\ i = E[k].at <=> Uncounted(tree, E[k]) = {}
    BY <1>7, <1>8, <1>9, <2>1
  <2>3. E = ElementsOf(tree)
    BY DEF E
  <2> QED
    BY <2>2, <2>3, Zenon

------------------------------------------------------------------------------
(* The calls *)

Attempts == {"none", "operate", "completed", "failed"}
Kinds    == {"DISPATCHED", "REFUSED", "COMPLETED", "FAILED"}
Notices  == [kind : Kinds, seq : Nat]

(* The refs themselves stay opaque: what they point at does not matter.    *)
Operations(Refs) == [seq : Nat, observation : Nat, ref : Refs, told : Nat]

OperationTypes == \E Refs : operations \in Seq(Operations(Refs))

SurfaceTypes ==
  /\ stepIndex \in Nat /\ dispatched \in Nat /\ refsValid \in BOOLEAN
  /\ attempt.at \in Attempts /\ attempt = [at |-> attempt.at, ref |-> attempt.ref]
  /\ notices \in Seq(Notices)
  /\ OperationTypes

(* No operation is younger than the last observation.  While its refs      *)
(* serve, and while a targeted attempt on one has not reached the driver,  *)
(* none is as young; and refs never serve while an attempt is under way.   *)
Unspent ==
  /\ \A i \in DOMAIN operations : operations[i].observation <= stepIndex
  /\ refsValid \/ (attempt.at = "operate" /\ attempt.ref # NoRef) =>
       /\ stepIndex > 0
       /\ \A i \in DOMAIN operations : operations[i].observation < stepIndex
  /\ refsValid => attempt.at = "none"

(* An attempt under way is the last thing the listener was told; once its  *)
(* operation was made, that is the last one.                               *)
Announced ==
  /\ attempt.at # "none" =>
       /\ notices # <<>>
       /\ notices[Len(notices)] = [kind |-> "DISPATCHED", seq |-> dispatched]
  /\ attempt.at \in {"completed", "failed"} =>
       /\ Len(operations) > 0
       /\ operations[Len(operations)].told = Len(notices)

SurfaceInv ==
  SurfaceTypes /\ Unspent /\ Announced /\ RefsAreFresh /\ AttemptsAreAnnounced

LEMMA SurfaceInit == Init => SurfaceInv
<1> SUFFICES ASSUME Init PROVE SurfaceInv
  OBVIOUS
<1>1. OperationTypes
  <2>1. operations \in Seq(Operations({}))
    BY EmptySeq DEF Init
  <2> QED
    BY <2>1 DEF OperationTypes
<1>2. SurfaceTypes
  BY <1>1, EmptySeq DEF Init, SurfaceTypes, Attempts, NoAttempt
<1>3. DOMAIN operations = {} /\ DOMAIN notices = {} /\ Len(operations) = 0
  BY DEF Init
<1>4. Unspent /\ Announced /\ RefsAreFresh /\ AttemptsAreAnnounced
  BY <1>3 DEF Init, Unspent, Announced, RefsAreFresh, AttemptsAreAnnounced, NoAttempt
<1> QED
  BY <1>2, <1>4 DEF SurfaceInv

(* What is known of the operations performed so far. *)
LEMMA OperationsKnown ==
  ASSUME OperationTypes
  PROVE  /\ Len(operations) \in Nat /\ DOMAIN operations = 1..Len(operations)
         /\ \A i \in DOMAIN operations : operations[i].observation \in Nat
         /\ \A i \in DOMAIN operations : operations[i].told \in Nat
<1>1. PICK Refs : operations \in Seq(Operations(Refs))
  BY DEF OperationTypes
<1>2. \A op \in Operations(Refs) : op.observation \in Nat /\ op.told \in Nat
  BY DEF Operations
<1>3. /\ Len(operations) \in Nat /\ DOMAIN operations = 1..Len(operations)
      /\ \A i \in DOMAIN operations : operations[i] \in Operations(Refs)
  BY <1>1, ElementOfSeq
<1> QED
  BY <1>2, <1>3

(* The calls that operate nothing and tell nothing. *)
LEMMA QuietCalls ==
  ASSUME SurfaceInv, Open \/ Close \/ PageMoves \/ Observe \/ UNCHANGED vars
  PROVE  SurfaceInv'
<1>0. /\ UNCHANGED <<dispatched, attempt, notices, operations>>
      /\ \/ stepIndex' = stepIndex /\ (refsValid' = refsValid \/ refsValid' = FALSE)
         \/ stepIndex' = stepIndex + 1 /\ refsValid' = TRUE /\ attempt = NoAttempt
  BY DEF Open, Close, PageMoves, Observe, Idle, refVars, historyVars, vars
<1>1. SurfaceTypes'
  <2>1. OperationTypes'
    BY <1>0 DEF SurfaceInv, SurfaceTypes, OperationTypes
  <2>2. stepIndex' \in Nat /\ refsValid' \in BOOLEAN
    <3>1. stepIndex \in Nat /\ refsValid \in BOOLEAN
      BY DEF SurfaceInv, SurfaceTypes
    <3>2. stepIndex' \in Nat
      BY <1>0, <3>1
    <3>3. refsValid' \in BOOLEAN
      BY <1>0, <3>1
    <3> QED
      BY <3>2, <3>3
  <2>3. UNCHANGED notices /\ UNCHANGED attempt /\ UNCHANGED dispatched
    BY <1>0
  <2> QED
    BY <2>1, <2>2, <2>3 DEF SurfaceInv, SurfaceTypes
<1>2. Unspent'
  <2>1. \A i \in DOMAIN operations : operations[i].observation \in Nat
    BY OperationsKnown DEF SurfaceInv, SurfaceTypes
  <2>2. UNCHANGED operations /\ UNCHANGED attempt
    BY <1>0
  <2>3. CASE stepIndex' = stepIndex /\ (refsValid' = refsValid \/ refsValid' = FALSE)
    BY <2>2, <2>3 DEF SurfaceInv, SurfaceTypes, Unspent
  <2>4. CASE stepIndex' = stepIndex + 1 /\ refsValid' = TRUE /\ attempt = NoAttempt
    <3>1. \A i \in DOMAIN operations : operations[i].observation < stepIndex + 1
      BY <2>1 DEF SurfaceInv, SurfaceTypes, Unspent
    <3>2. \A i \in DOMAIN operations : operations[i].observation <= stepIndex + 1
      BY <2>1 DEF SurfaceInv, SurfaceTypes, Unspent
    <3>3. stepIndex + 1 > 0 /\ attempt'.at = "none"
      BY <2>2, <2>4 DEF SurfaceInv, SurfaceTypes, NoAttempt
    <3> QED
      BY <2>2, <2>4, <3>1, <3>2, <3>3 DEF Unspent
  <2> QED
    BY <1>0, <2>3, <2>4
<1>3. Announced' /\ RefsAreFresh' /\ AttemptsAreAnnounced'
  BY <1>0 DEF SurfaceInv, Announced, RefsAreFresh, AttemptsAreAnnounced
<1> QED
  BY <1>1, <1>2, <1>3 DEF SurfaceInv

(* One more notice, after which every end told so far still follows its    *)
(* announcement. *)
LEMMA NoticeAdded ==
  ASSUME SurfaceTypes, NEW kind \in Kinds, NEW seq \in Nat, Notify(kind, seq)
  PROVE  /\ notices' \in Seq(Notices) /\ notices' # <<>>
         /\ Len(notices') = Len(notices) + 1 /\ Len(notices) \in Nat
         /\ DOMAIN notices' = 1..(Len(notices) + 1) /\ DOMAIN notices = 1..Len(notices)
         /\ notices'[Len(notices) + 1] = [kind |-> kind, seq |-> seq]
         /\ \A i \in 1..Len(notices) : notices'[i] = notices[i]
<1>1. notices \in Seq(Notices) /\ [kind |-> kind, seq |-> seq] \in Notices
  BY DEF SurfaceTypes, Notices
<1> QED
  BY <1>1, AppendProperties, EmptySeq DEF Notify

(* Each operation follows its announcement, and each end told follows its  *)
(* operation's announcement at once.                                       *)
InOrder(told, done) ==
  /\ \A i \in DOMAIN done :
       /\ done[i].seq = i
       /\ done[i].told \in DOMAIN told
       /\ told[done[i].told] = [kind |-> "DISPATCHED", seq |-> i]
  /\ \A m \in DOMAIN told : told[m].kind \in {"COMPLETED", "FAILED"} =>
       /\ told[m].seq \in DOMAIN done
       /\ done[told[m].seq].told = m - 1

(* A notice more keeps that order, if it is the end of an operation just   *)
(* announced, or no end.                                                   *)
LEMMA StaysInOrder ==
  ASSUME NEW told, NEW more, NEW done, NEW n \in Nat,
         DOMAIN told = 1..n, DOMAIN more = 1..(n + 1),
         \A i \in 1..n : more[i] = told[i],
         InOrder(told, done),
         more[n + 1].kind \in {"COMPLETED", "FAILED"} =>
           more[n + 1].seq \in DOMAIN done /\ done[more[n + 1].seq].told = n
  PROVE  InOrder(more, done)
<1>1. ASSUME NEW i \in DOMAIN done
      PROVE  /\ done[i].seq = i
             /\ done[i].told \in DOMAIN more
             /\ more[done[i].told] = [kind |-> "DISPATCHED", seq |-> i]
  <2>1. /\ done[i].seq = i /\ done[i].told \in 1..n
        /\ told[done[i].told] = [kind |-> "DISPATCHED", seq |-> i]
    BY DEF InOrder
  <2>2. done[i].told \in 1..(n + 1)
    BY <2>1
  <2> QED
    BY <2>1, <2>2
<1>2. ASSUME NEW m \in DOMAIN more, more[m].kind \in {"COMPLETED", "FAILED"}
      PROVE  more[m].seq \in DOMAIN done /\ done[more[m].seq].told = m - 1
  <2>1. CASE m \in 1..n
    BY <1>2, <2>1 DEF InOrder
  <2>2. CASE m = n + 1
    BY <1>2, <2>2
  <2> QED
    BY <2>1, <2>2
<1> QED
  BY <1>1, <1>2 DEF InOrder

LEMMA AnnounceStep ==
  ASSUME SurfaceInv, Announce
  PROVE  SurfaceInv'
<1> PICK kind \in {"REFUSED", "DISPATCHED"} :
      /\ attempt = NoAttempt /\ Notify(kind, dispatched + 1)
      /\ UNCHANGED <<stepIndex, operations>>
      /\ \/ kind = "REFUSED" /\ UNCHANGED <<dispatched, refsValid, attempt>>
         \/ /\ kind = "DISPATCHED"
            /\ dispatched' = dispatched + 1 /\ refsValid' = FALSE
            /\ attempt'.at = "operate" /\ attempt' = [at |-> "operate", ref |-> attempt'.ref]
            /\ attempt'.ref # NoRef => refsValid
  BY DEF Announce, Idle, Resolvable
<1>0. /\ attempt = NoAttempt /\ Notify(kind, dispatched + 1)
      /\ UNCHANGED <<stepIndex, operations>>
      /\ \/ kind = "REFUSED" /\ UNCHANGED <<dispatched, refsValid, attempt>>
         \/ /\ kind = "DISPATCHED"
            /\ dispatched' = dispatched + 1 /\ refsValid' = FALSE
            /\ attempt'.at = "operate" /\ attempt' = [at |-> "operate", ref |-> attempt'.ref]
            /\ attempt'.ref # NoRef => refsValid
  OBVIOUS
<1>1. dispatched + 1 \in Nat /\ kind \in Kinds
  BY DEF SurfaceInv, SurfaceTypes, Kinds
<1>2. /\ notices' \in Seq(Notices) /\ notices' # <<>>
      /\ Len(notices') = Len(notices) + 1 /\ Len(notices) \in Nat
      /\ DOMAIN notices' = 1..(Len(notices) + 1) /\ DOMAIN notices = 1..Len(notices)
      /\ notices'[Len(notices) + 1] = [kind |-> kind, seq |-> dispatched + 1]
      /\ \A i \in 1..Len(notices) : notices'[i] = notices[i]
  BY <1>0, <1>1, NoticeAdded DEF SurfaceInv
<1>3. SurfaceTypes'
  <2>1. OperationTypes'
    BY <1>0 DEF SurfaceInv, SurfaceTypes, OperationTypes
  <2> QED
    BY <1>0, <1>1, <1>2, <2>1 DEF SurfaceInv, SurfaceTypes, Attempts
<1>4. Unspent' /\ RefsAreFresh'
  BY <1>0 DEF SurfaceInv, Unspent, RefsAreFresh, NoAttempt
<1>5. Announced'
  BY <1>0, <1>2 DEF Announced, NoAttempt
<1>6. AttemptsAreAnnounced'
  <2>1. dispatched' = Len(operations') + (IF attempt'.at = "operate" THEN 1 ELSE 0)
    BY <1>0, OperationsKnown DEF SurfaceInv, SurfaceTypes, AttemptsAreAnnounced, NoAttempt
  <2>2. InOrder(notices, operations)
    BY DEF SurfaceInv, AttemptsAreAnnounced, InOrder
  <2>3. InOrder(notices', operations)
    <3>1. notices'[Len(notices) + 1].kind \notin {"COMPLETED", "FAILED"}
      BY <1>2
    <3> QED
      BY <1>2, <2>2, <3>1, StaysInOrder
  <2> QED
    BY <1>0, <2>1, <2>3 DEF AttemptsAreAnnounced, InOrder
<1> QED
  BY <1>3, <1>4, <1>5, <1>6 DEF SurfaceInv

LEMMA OperateStep ==
  ASSUME SurfaceInv, Operate
  PROVE  SurfaceInv'
<1> DEFINE op == [seq |-> dispatched, observation |-> stepIndex, ref |-> attempt.ref,
                told |-> Len(notices)]
<1>0. /\ attempt.at = "operate" /\ operations' = Append(operations, op)
      /\ attempt'.at \in {"completed", "failed"}
      /\ attempt' = [at |-> attempt'.at, ref |-> attempt'.ref]
      /\ UNCHANGED <<stepIndex, refsValid, dispatched, notices>>
  BY DEF Operate, refVars, SurfaceInv, SurfaceTypes
<1>1. PICK Refs : operations \in Seq(Operations(Refs)) /\ op \in Operations(Refs)
  <2>0. Len(notices) \in Nat
    BY LenProperties DEF SurfaceInv, SurfaceTypes
  <2>1. PICK Old : operations \in Seq(Operations(Old))
    BY DEF SurfaceInv, SurfaceTypes, OperationTypes
  <2>2. Operations(Old) \subseteq Operations(Old \cup {attempt.ref})
    BY DEF Operations
  <2>3. operations \in Seq(Operations(Old \cup {attempt.ref}))
    BY <2>1, <2>2, SeqMonotonic
  <2>4. op \in Operations(Old \cup {attempt.ref})
    BY <2>0 DEF Operations, SurfaceInv, SurfaceTypes
  <2> QED
    BY <2>3, <2>4
<1>2. /\ op.seq = dispatched /\ op.observation = stepIndex /\ op.ref = attempt.ref
      /\ op.told = Len(notices)
  OBVIOUS
<1> HIDE DEF op
<1>3. /\ operations' \in Seq(Operations(Refs))
      /\ Len(operations') = Len(operations) + 1 /\ Len(operations) \in Nat
      /\ DOMAIN operations' = 1..(Len(operations) + 1)
      /\ DOMAIN operations = 1..Len(operations)
      /\ operations'[Len(operations) + 1] = op
      /\ \A i \in 1..Len(operations) : operations'[i] = operations[i]
  BY <1>0, <1>1, AppendProperties
<1>4. \A i \in 1..Len(operations) : operations[i].observation \in Nat
  BY <1>3, OperationsKnown DEF SurfaceInv, SurfaceTypes
<1>5. SurfaceTypes'
  <2>1. OperationTypes'
    BY <1>3 DEF OperationTypes
  <2> QED
    BY <1>0, <2>1 DEF SurfaceInv, SurfaceTypes, Attempts
<1>6. dispatched = Len(operations) + 1
  BY <1>0 DEF SurfaceInv, AttemptsAreAnnounced
<1>7. ~refsValid /\ stepIndex \in Nat
  BY <1>0 DEF SurfaceInv, SurfaceTypes, Unspent
<1>8. Unspent'
  <2>1. \A i \in DOMAIN operations' : operations'[i].observation <= stepIndex
    BY <1>2, <1>3, <1>7 DEF SurfaceInv, Unspent
  <2> QED
    BY <1>0, <1>7, <2>1 DEF Unspent
<1>9. RefsAreFresh'
  <2> SUFFICES ASSUME NEW i \in DOMAIN operations', operations'[i].ref # NoRef
               PROVE  /\ operations'[i].observation > 0
                      /\ i > 1 => operations'[i - 1].observation < operations'[i].observation
    BY DEF RefsAreFresh
  <2>1. CASE i \in 1..Len(operations)
    <3>1. i > 1 => i - 1 \in 1..Len(operations)
      BY <1>3, <2>1
    <3> QED
      BY <1>3, <2>1, <3>1 DEF SurfaceInv, RefsAreFresh
  <2>2. CASE i = Len(operations) + 1
    <3>1. /\ attempt.ref # NoRef /\ stepIndex > 0
          /\ \A j \in 1..Len(operations) : operations[j].observation < stepIndex
      BY <1>0, <1>2, <1>3, <2>2 DEF SurfaceInv, Unspent
    <3>2. i > 1 => i - 1 \in 1..Len(operations)
      BY <1>3, <2>2
    <3> QED
      BY <1>2, <1>3, <2>2, <3>1, <3>2
  <2> QED
    BY <1>3, <2>1, <2>2
<1>10. Announced'
  BY <1>0, <1>2, <1>3 DEF SurfaceInv, Announced
<1>11. AttemptsAreAnnounced'
  <2>0. /\ Len(notices) \in DOMAIN notices
        /\ notices[Len(notices)] = [kind |-> "DISPATCHED", seq |-> dispatched]
    <3>1. notices # <<>> /\ notices \in Seq(Notices)
      BY <1>0 DEF SurfaceInv, SurfaceTypes, Announced
    <3>2. Len(notices) \in DOMAIN notices
      BY <3>1, EmptySeq, LenProperties
    <3> QED
      BY <1>0, <3>2 DEF SurfaceInv, Announced
  <2>1. ASSUME NEW i \in DOMAIN operations'
        PROVE  /\ operations'[i].seq = i
               /\ operations'[i].told \in DOMAIN notices
               /\ notices[operations'[i].told] = [kind |-> "DISPATCHED", seq |-> i]
    <3>1. CASE i \in 1..Len(operations)
      BY <1>3, <3>1 DEF SurfaceInv, AttemptsAreAnnounced
    <3>2. CASE i = Len(operations) + 1
      BY <1>2, <1>3, <1>6, <2>0, <3>2
    <3> QED
      BY <1>3, <3>1, <3>2
  <2>2. dispatched' = Len(operations') + (IF attempt'.at = "operate" THEN 1 ELSE 0)
    <3>1. attempt'.at # "operate"
      BY <1>0
    <3>2. dispatched' = Len(operations') /\ Len(operations') \in Nat
      BY <1>0, <1>3, <1>6
    <3> QED
      BY <3>1, <3>2
  <2>3. ASSUME NEW m \in DOMAIN notices, notices[m].kind \in {"COMPLETED", "FAILED"}
        PROVE  /\ notices[m].seq \in DOMAIN operations'
               /\ operations'[notices[m].seq].told = m - 1
    <3>1. /\ notices[m].seq \in 1..Len(operations)
          /\ operations[notices[m].seq].told = m - 1
      BY <1>3, <2>3 DEF SurfaceInv, AttemptsAreAnnounced
    <3>2. notices[m].seq \in 1..(Len(operations) + 1)
      BY <1>3, <3>1
    <3> QED
      BY <1>3, <3>1, <3>2
  <2> QED
    BY <1>0, <2>1, <2>2, <2>3 DEF AttemptsAreAnnounced
<1> QED
  BY <1>5, <1>8, <1>9, <1>10, <1>11 DEF SurfaceInv

LEMMA ReportStep ==
  ASSUME SurfaceInv, Report
  PROVE  SurfaceInv'
<1>0. /\ attempt.at \in {"completed", "failed"} /\ attempt' = NoAttempt
      /\ UNCHANGED <<stepIndex, refsValid, dispatched, operations>>
  BY DEF Report, refVars
<1>1. PICK kind \in {"COMPLETED", "FAILED"} : Notify(kind, dispatched)
  BY DEF Report
<1>2. kind \in Kinds /\ dispatched \in Nat
  BY DEF SurfaceInv, SurfaceTypes, Kinds
<1>3. /\ notices' \in Seq(Notices) /\ notices' # <<>>
      /\ Len(notices') = Len(notices) + 1 /\ Len(notices) \in Nat
      /\ DOMAIN notices' = 1..(Len(notices) + 1) /\ DOMAIN notices = 1..Len(notices)
      /\ notices'[Len(notices) + 1] = [kind |-> kind, seq |-> dispatched]
      /\ \A i \in 1..Len(notices) : notices'[i] = notices[i]
  BY <1>1, <1>2, NoticeAdded DEF SurfaceInv
<1>4. SurfaceTypes'
  <2>1. OperationTypes'
    BY <1>0 DEF SurfaceInv, SurfaceTypes, OperationTypes
  <2> QED
    BY <1>0, <1>3, <2>1 DEF SurfaceInv, SurfaceTypes, Attempts, NoAttempt
<1>5. Unspent' /\ RefsAreFresh' /\ Announced'
  BY <1>0 DEF SurfaceInv, Unspent, RefsAreFresh, Announced, NoAttempt
<1>6. AttemptsAreAnnounced'
  <2>1. dispatched = Len(operations)
    <3>1. attempt.at # "operate"
      BY <1>0
    <3>2. dispatched = Len(operations) + 0 /\ Len(operations) \in Nat
      BY <3>1, OperationsKnown DEF SurfaceInv, SurfaceTypes, AttemptsAreAnnounced
    <3> QED
      BY <3>2
  <2>2. InOrder(notices, operations)
    BY DEF SurfaceInv, AttemptsAreAnnounced, InOrder
  <2>3. dispatched \in DOMAIN operations /\ operations[dispatched].told = Len(notices)
    <3>1. /\ Len(operations) > 0 /\ operations[Len(operations)].told = Len(notices)
      BY <1>0 DEF SurfaceInv, Announced
    <3>2. DOMAIN operations = 1..Len(operations) /\ Len(operations) \in Nat
      BY OperationsKnown DEF SurfaceInv, SurfaceTypes
    <3> QED
      BY <2>1, <3>1, <3>2
  <2>4. InOrder(notices', operations)
    <3>1. notices'[Len(notices) + 1].seq = dispatched
      BY <1>3
    <3> QED
      BY <1>3, <2>2, <2>3, <3>1, StaysInOrder
  <2> QED
    BY <1>0, <2>1, <2>4 DEF AttemptsAreAnnounced, InOrder, NoAttempt
<1> QED
  BY <1>4, <1>5, <1>6 DEF SurfaceInv

LEMMA SurfaceInductive == Spec => []SurfaceInv
<1>1. SurfaceInv /\ [Next]_vars => SurfaceInv'
  BY QuietCalls, AnnounceStep, OperateStep, ReportStep DEF Next
<1> QED
  BY SurfaceInit, <1>1, PTL DEF Spec

(* Whatever the page does and in whatever order the surface is called, a   *)
(* targeted operation was made on an observation, and no operation before  *)
(* it on the same one: _refs_valid, cleared before the driver is called.   *)
THEOREM RefsServeOnce == Spec => []RefsAreFresh
<1>1. SurfaceInv => RefsAreFresh
  BY DEF SurfaceInv
<1> QED
  BY SurfaceInductive, <1>1, PTL

(* Whatever the listener does and whatever the driver answers: the last    *)
(* notice before every driver operation announced it, under its own        *)
(* number, and its end is told right after.                                *)
THEOREM OperationsAnnounced == Spec => []AttemptsAreAnnounced
<1>1. SurfaceInv => AttemptsAreAnnounced
  BY DEF SurfaceInv
<1> QED
  BY SurfaceInductive, <1>1, PTL

(* The refs that serve were built from the elements of one page. *)
Built ==
  /\ page \in Pages /\ seen \in Pages
  /\ refsValid => LET elements == ElementsOf(Tree[seen])
                  IN  refMap = [k \in DOMAIN elements |-> RecipeOf(elements, k)]

(* The refs are replaced by an observation, all of them; any other call    *)
(* that touches them takes them out of service.                            *)
LEMMA RefsStayBuilt ==
  ASSUME Built, [Next]_vars
  PROVE  Built'
<1>1. CASE Observe
  BY <1>1 DEF Built, Observe
<1>2. CASE ~Observe
  <2>1. /\ page' \in Pages /\ UNCHANGED seen
        /\ refsValid' => refsValid /\ UNCHANGED refMap
    BY <1>2 DEF Built, Next, Open, Close, PageMoves, Announce, Operate, Report, refVars,
       historyVars, vars
  <2> QED
    BY <2>1 DEF Built
<1> QED
  BY <1>1, <1>2

(* Whatever is on the page: elements of equal role and name, without a     *)
(* name, without a ref, structural ones between them.  A ref, resolved     *)
(* while the page has not moved, finds one element, never a later one than *)
(* it was issued for; the ref-less nodes its locator counts and the list   *)
(* does not are the one thing that leads it elsewhere.                     *)
THEOREM RefsFindTheirElements == Spec => []RefIsItsElement
<1>1. Init => Built
  BY DEF Init, Built
<1>2. Built => RefIsItsElement
  <2> SUFFICES ASSUME Built, refsValid, page = seen,
                      NEW k \in DOMAIN refMap
               PROVE  LET e == ElementsOf(Tree[page])[k]
                      IN  \E i \in 1..e.at :
                            /\ Relocated(Tree[page], refMap[k]) = {i}
                            /\ i = e.at <=> Uncounted(Tree[page], e) = {}
    BY DEF RefIsItsElement
  <2>1. /\ page \in Pages /\ k \in DOMAIN ElementsOf(Tree[page])
        /\ refMap[k] = RecipeOf(ElementsOf(Tree[page]), k)
    BY DEF Built
  <2>2. Tree[page] \in Trees
    BY <2>1, TreeAssumption
  <2> QED
    BY <2>1, <2>2, RecipeFinds
<1> QED
  BY <1>1, <1>2, RefsStayBuilt, PTL DEF Spec
=============================================================================
