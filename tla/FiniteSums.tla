---------------------------- MODULE FiniteSums -----------------------------
(***************************************************************************)
(* Sums over finite sets. Sum(w, S) adds up the weights w of the members   *)
(* of S, as MapThenSumSet of the community modules does: by taking out     *)
(* one member after the other, in the order of CHOOSE. The lemmas say      *)
(* that the order does not matter and how sums compare. They go by the     *)
(* least set that would violate them (LeastSet), which the well-founded    *)
(* order on finite sets provides.                                          *)
(***************************************************************************)
EXTENDS Integers, FiniteSetsExt, FiniteSetTheorems, WellFoundedInduction, TLAPS

Pick(s) == CHOOSE x \in s : TRUE
IsSum(f, w, S) ==
  f = [s \in SUBSET S |-> IF s = {} THEN 0 ELSE w[Pick(s)] + f[s \ {Pick(s)}]]
Sum(w, S) == (CHOOSE f : IsSum(f, w, S))[S]

\* CHOOSE takes a member of a set that has one.
LEMMA PickIn == \A s : s # {} => Pick(s) \in s
BY DEF Pick

\* A set of finite sets that is not empty has a least member.
LEMMA LeastSet ==
  ASSUME NEW S, IsFiniteSet(S), NEW C, C \subseteq SUBSET S, C # {}
  PROVE  \E T \in C : \A U \in C : U \subseteq T => U = T
<1>1. C \subseteq FiniteSubsetsOf(S)
  BY FS_Subset DEF FiniteSubsetsOf
<1>2. PICK T \in C : \A U \in C : ~(<<U, T>> \in StrictSubsetOrdering(S))
  BY <1>1, FS_StrictSubsetOrderingWellFounded, WFMin
<1> QED BY <1>2 DEF StrictSubsetOrdering

\* At most one function sums up the subsets of a finite set.
LEMMA SumUnique ==
  ASSUME NEW S, IsFiniteSet(S), NEW w, NEW f, NEW g, IsSum(f, w, S), IsSum(g, w, S)
  PROVE  f = g
<1> DEFINE C == {T \in SUBSET S : f[T] # g[T]}
<1>1. ASSUME C # {} PROVE FALSE
  <2>1. PICK T \in C : \A U \in C : U \subseteq T => U = T
    <3>1. C \subseteq SUBSET S
      OBVIOUS
    <3> HIDE DEF C
    <3> QED BY <1>1, <3>1, LeastSet
  <2>2. T # {}
    BY <2>1 DEF IsSum
  <2>3. f[T \ {Pick(T)}] = g[T \ {Pick(T)}]
    BY <2>1, <2>2, PickIn
  <2> QED BY <2>1, <2>2, <2>3 DEF IsSum
<1>2. \A T \in SUBSET S : f[T] = g[T]
  BY <1>1
<1> QED BY <1>2 DEF IsSum

\* A function that sums up the subsets of S does so for those of T.
LEMMA SumRestricted ==
  ASSUME NEW S, NEW T \in SUBSET S, NEW w, NEW f, IsSum(f, w, S)
  PROVE  IsSum([s \in SUBSET T |-> f[s]], w, T)
BY PickIn DEF IsSum

\* The sum of all members but the one picked first.
LEMMA SumTail ==
  ASSUME NEW S, IsFiniteSet(S), NEW w, NEW f, IsSum(f, w, S)
  PROVE  Sum(w, S \ {Pick(S)}) = f[S \ {Pick(S)}]
<1> DEFINE V == S \ {Pick(S)}
           r == [s \in SUBSET V |-> f[s]]
<1>1. V \in SUBSET S /\ IsFiniteSet(V)
  BY FS_Subset
<1>2. IsSum(r, w, V)
  BY <1>1, SumRestricted
<1>3. IsSum(CHOOSE g : IsSum(g, w, V), w, V)
  BY <1>2
<1>4. (CHOOSE g : IsSum(g, w, V)) = r
  BY <1>1, <1>2, <1>3, SumUnique
<1> QED BY <1>4 DEF Sum

\* There is a function that sums up the subsets of a finite set.
LEMMA SumExists ==
  ASSUME NEW S, IsFiniteSet(S), NEW w
  PROVE  \E f : IsSum(f, w, S)
<1> DEFINE C == {T \in SUBSET S : ~\E f : IsSum(f, w, T)}
<1>1. ASSUME C # {} PROVE FALSE
  <2>1. PICK T \in C : \A U \in C : U \subseteq T => U = T
    <3>1. C \subseteq SUBSET S
      OBVIOUS
    <3> HIDE DEF C
    <3> QED BY <1>1, <3>1, LeastSet
  <2> DEFINE h == [s \in SUBSET T |->
                     IF s = {} THEN 0 ELSE w[Pick(s)] + Sum(w, s \ {Pick(s)})]
  <2>2. ASSUME NEW U \in SUBSET T, U # T
        PROVE  h[U] = Sum(w, U)
    <3>1. PICK f : IsSum(f, w, U)
      BY <2>1, <2>2
    <3>2. IsSum(CHOOSE g : IsSum(g, w, U), w, U)
      BY <3>1
    <3>3. Sum(w, U \ {Pick(U)}) = f[U \ {Pick(U)}]
      BY <2>1, <2>2, <3>1, FS_Subset, SumTail
    <3>4. (CHOOSE g : IsSum(g, w, U)) = f
      BY <2>1, <2>2, <3>1, <3>2, SumUnique, FS_Subset
    <3>5. Sum(w, U) = f[U]
      BY <3>4 DEF Sum
    <3>6. U # {} => f[U] = w[Pick(U)] + f[U \ {Pick(U)}]
      BY <3>1 DEF IsSum
    <3>7. U = {} => f[U] = 0
      BY <3>1 DEF IsSum
    <3> QED BY <3>3, <3>5, <3>6, <3>7
  <2>3. ASSUME NEW s \in SUBSET T, s # {}
        PROVE  Sum(w, s \ {Pick(s)}) = h[s \ {Pick(s)}]
    BY <2>2, <2>3, PickIn
  <2> DEFINE k == [s \in SUBSET T |->
                     IF s = {} THEN 0 ELSE w[Pick(s)] + h[s \ {Pick(s)}]]
  <2>4. h = k
    <3>1. \A s \in SUBSET T : h[s] = k[s]
      BY <2>3
    <3>2. h = [s \in SUBSET T |-> h[s]] /\ k = [s \in SUBSET T |-> k[s]]
      OBVIOUS
    <3> HIDE DEF h, k
    <3> QED BY <3>1, <3>2
  <2>5. IsSum(h, w, T)
    BY <2>4 DEF IsSum
  <2> QED BY <2>1, <2>5
<1> QED BY <1>1

\* Any function that sums up the subsets of S gives this sum.
LEMMA SumIs ==
  ASSUME NEW S, IsFiniteSet(S), NEW w, NEW f, IsSum(f, w, S)
  PROVE  f[S] = Sum(w, S)
<1>1. IsSum(CHOOSE g : IsSum(g, w, S), w, S)
  OBVIOUS
<1> QED BY <1>1, SumUnique DEF Sum

\* A sum is the member picked first and the sum of the others.
LEMMA SumUnfold ==
  ASSUME NEW S, IsFiniteSet(S), NEW w
  PROVE  /\ S = {} => Sum(w, S) = 0
         /\ S # {} => Sum(w, S) = w[Pick(S)] + Sum(w, S \ {Pick(S)})
<1>1. PICK f : IsSum(f, w, S)
  BY SumExists
<1>2. (CHOOSE g : IsSum(g, w, S)) = f
  <2>1. IsSum(CHOOSE g : IsSum(g, w, S), w, S)
    BY <1>1
  <2> QED BY <1>1, <2>1, SumUnique
<1>3. Sum(w, S) = f[S]
  BY <1>2 DEF Sum
<1>4. Sum(w, S \ {Pick(S)}) = f[S \ {Pick(S)}]
  BY <1>1, SumTail
<1> QED BY <1>1, <1>3, <1>4 DEF IsSum

\* The sum of nothing.
LEMMA SumEmpty == \A w : Sum(w, {}) = 0
BY SumUnfold, FS_EmptySet

\* Any element can be taken out first.
LEMMA SumRemove ==
  ASSUME NEW S, IsFiniteSet(S), NEW w, \A x \in S : w[x] \in Int
  PROVE  /\ Sum(w, S) \in Int
         /\ \A x \in S : Sum(w, S) = w[x] + Sum(w, S \ {x})
<1> DEFINE Good(T) == /\ Sum(w, T) \in Int
                      /\ \A x \in T : Sum(w, T) = w[x] + Sum(w, T \ {x})
           C == {T \in SUBSET S : ~Good(T)}
<1>1. ASSUME C # {} PROVE FALSE
  <2>1. PICK T \in C : \A U \in C : U \subseteq T => U = T
    <3>1. C \subseteq SUBSET S
      OBVIOUS
    <3> HIDE DEF C
    <3> QED BY <1>1, <3>1, LeastSet
  <2>2. \A U \in SUBSET T : U # T => Good(U)
    BY <2>1
  <2>3. IsFiniteSet(T) /\ T # {}
    <3>1. Good({})
      BY SumEmpty
    <3> QED BY <2>1, <3>1, FS_Subset
  <2> DEFINE p == Pick(T)
  <2>4. p \in T /\ w[p] \in Int
    BY <2>1, <2>3, PickIn
  <2>5. Sum(w, T) = w[p] + Sum(w, T \ {p})
    BY <2>3, SumUnfold
  <2>6. Good(T \ {p})
    BY <2>2, <2>4
  <2>7. Sum(w, T) \in Int
    BY <2>4, <2>5, <2>6
  <2> HIDE DEF p
  <2>8. ASSUME NEW x \in T
        PROVE  Sum(w, T) = w[x] + Sum(w, T \ {x})
    <3>1. CASE x = p
      BY <2>5, <3>1
    <3>2. CASE x # p
      <4>1. Sum(w, T \ {p}) = w[x] + Sum(w, (T \ {p}) \ {x})
        BY <2>6, <3>2
      <4>2. Good(T \ {x}) /\ p \in T \ {x}
        BY <2>2, <2>4, <3>2
      <4>3. Sum(w, T \ {x}) = w[p] + Sum(w, (T \ {x}) \ {p})
        BY <4>2
      <4>4. (T \ {x}) \ {p} = (T \ {p}) \ {x}
        OBVIOUS
      <4>5. Good((T \ {x}) \ {p}) /\ w[x] \in Int
        BY <2>1, <2>2, <2>4, <3>2
      <4> DEFINE rest == Sum(w, (T \ {x}) \ {p})
      <4>6. rest \in Int
        BY <4>5
      <4>7. Sum(w, T) = w[p] + (w[x] + rest) /\ Sum(w, T \ {x}) = w[p] + rest
        BY <2>5, <4>1, <4>3, <4>4
      <4> HIDE DEF rest
      <4> QED BY <2>4, <4>5, <4>6, <4>7
    <3> QED BY <3>1, <3>2
  <2> QED BY <2>1, <2>7, <2>8
<1>2. S \notin C
  BY <1>1
<1> QED BY <1>2

\* One more element.
LEMMA SumInsert ==
  ASSUME NEW S, IsFiniteSet(S), NEW x, x \notin S, NEW w,
         \A y \in S \cup {x} : w[y] \in Int
  PROVE  Sum(w, S \cup {x}) = Sum(w, S) + w[x]
<1>1. IsFiniteSet(S \cup {x}) /\ (S \cup {x}) \ {x} = S
  BY FS_AddElement
<1>2. Sum(w, S \cup {x}) = w[x] + Sum(w, S)
  <2>1. Sum(w, S \cup {x}) = w[x] + Sum(w, (S \cup {x}) \ {x})
    BY <1>1, SumRemove
  <2> QED BY <1>1, <2>1
<1>3. Sum(w, S) \in Int /\ w[x] \in Int
  BY SumRemove
<1> QED BY <1>1, <1>2, <1>3

\* The sum of one.
LEMMA SumSingleton ==
  ASSUME NEW x, NEW w, w[x] \in Int
  PROVE  Sum(w, {x}) = w[x]
<1>1. IsFiniteSet({}) /\ {} \cup {x} = {x}
  BY FS_EmptySet
<1>2. Sum(w, {} \cup {x}) = Sum(w, {}) + w[x]
  BY <1>1, SumInsert
<1> QED BY <1>1, <1>2, SumEmpty

\* Sums of natural numbers, and of parts of a set.
LEMMA SumNat ==
  ASSUME NEW S, IsFiniteSet(S), NEW w, \A x \in S : w[x] \in Nat
  PROVE  Sum(w, S) \in Nat
<1> DEFINE C == {T \in SUBSET S : Sum(w, T) \notin Nat}
<1>1. ASSUME C # {} PROVE FALSE
  <2>1. PICK T \in C : \A U \in C : U \subseteq T => U = T
    <3>1. C \subseteq SUBSET S
      OBVIOUS
    <3> HIDE DEF C
    <3> QED BY <1>1, <3>1, LeastSet
  <2>2. PICK x \in T : TRUE
    <3>1. Sum(w, {}) \in Nat
      BY SumEmpty
    <3>2. T # {}
      BY <2>1, <3>1
    <3> QED BY <3>2
  <2>3. Sum(w, T \ {x}) \in Nat /\ w[x] \in Nat
    BY <2>1, <2>2
  <2>4. IsFiniteSet(T) /\ \A y \in T : w[y] \in Int
    BY <2>1, FS_Subset
  <2>5. Sum(w, T) = w[x] + Sum(w, T \ {x})
    BY <2>4, SumRemove
  <2> QED BY <2>1, <2>3, <2>5
<1>2. S \notin C
  BY <1>1
<1> QED BY <1>2

\* The summands of S are matched by as many, as large ones of T: e maps S
\* one to one into T.
LEMMA SumEmbeds ==
  ASSUME NEW S, IsFiniteSet(S), NEW T, IsFiniteSet(T), NEW w, NEW v, NEW e,
         \A x \in S : w[x] \in Nat /\ e[x] \in T /\ w[x] <= v[e[x]],
         \A y \in T : v[y] \in Nat,
         \A x, y \in S : e[x] = e[y] => x = y
  PROVE  Sum(w, S) <= Sum(v, T)
<1> DEFINE image(A) == {e[x] : x \in A}
           C == {A \in SUBSET S :
                  ~(\A B \in SUBSET T : image(A) \subseteq B => Sum(w, A) <= Sum(v, B))}
<1>0. \A B \in SUBSET T : Sum(v, B) >= 0
  <2>1. ASSUME NEW B \in SUBSET T
        PROVE  Sum(v, B) \in Nat
    BY SumNat, FS_Subset
  <2> QED BY <2>1
<1>1. ASSUME C # {} PROVE FALSE
  <2>1. PICK A \in C : \A U \in C : U \subseteq A => U = A
    <3>1. C \subseteq SUBSET S
      OBVIOUS
    <3> HIDE DEF C
    <3> QED BY <1>1, <3>1, LeastSet
  <2>2. PICK B \in SUBSET T : image(A) \subseteq B /\ ~(Sum(w, A) <= Sum(v, B))
    BY <2>1
  <2>3. PICK x \in A : TRUE
    <3>1. A # {}
      BY <1>0, <2>2, SumEmpty
    <3> QED BY <3>1
  <2>4. A \ {x} \notin C
    BY <2>1, <2>3
  <2>5. image(A \ {x}) \subseteq B \ {e[x]}
    BY <2>1, <2>2, <2>3
  <2>6. Sum(w, A \ {x}) <= Sum(v, B \ {e[x]})
    BY <2>1, <2>4, <2>5
  <2>7. IsFiniteSet(A) /\ IsFiniteSet(B) /\ IsFiniteSet(A \ {x}) /\ IsFiniteSet(B \ {e[x]})
    BY <2>1, FS_Subset, FS_RemoveElement
  <2>8. /\ \A z \in A : w[z] \in Int
        /\ \A z \in B : v[z] \in Int
        /\ e[x] \in B
        /\ w[x] \in Int /\ v[e[x]] \in Int /\ w[x] <= v[e[x]]
    BY <2>1, <2>2, <2>3
  <2>9. Sum(w, A) = w[x] + Sum(w, A \ {x}) /\ Sum(w, A \ {x}) \in Int
    BY <2>3, <2>7, <2>8, SumRemove
  <2>10. Sum(v, B) = v[e[x]] + Sum(v, B \ {e[x]}) /\ Sum(v, B \ {e[x]}) \in Int
    BY <2>7, <2>8, SumRemove
  <2> QED BY <2>2, <2>6, <2>8, <2>9, <2>10
<1>2. S \notin C
  BY <1>1
<1>3. image(S) \subseteq T
  OBVIOUS
<1> QED BY <1>2, <1>3

\* Weights that agree give the same sum.
LEMMA SumSame ==
  ASSUME NEW S, IsFiniteSet(S), NEW w, NEW v,
         \A x \in S : w[x] \in Int /\ v[x] = w[x]
  PROVE  Sum(v, S) = Sum(w, S)
<1> DEFINE C == {T \in SUBSET S : Sum(v, T) # Sum(w, T)}
<1>1. ASSUME C # {} PROVE FALSE
  <2>1. PICK T \in C : \A U \in C : U \subseteq T => U = T
    <3>1. C \subseteq SUBSET S
      OBVIOUS
    <3> HIDE DEF C
    <3> QED BY <1>1, <3>1, LeastSet
  <2>2. PICK x \in T : TRUE
    <3>1. T # {}
      BY <2>1, SumEmpty
    <3> QED BY <3>1
  <2>3. Sum(v, T \ {x}) = Sum(w, T \ {x})
    BY <2>1, <2>2
  <2>4. IsFiniteSet(T) /\ \A y \in T : w[y] \in Int /\ v[y] \in Int
    BY <2>1, FS_Subset
  <2>5. Sum(w, T) = w[x] + Sum(w, T \ {x}) /\ Sum(v, T) = v[x] + Sum(v, T \ {x})
    BY <2>4, SumRemove
  <2> QED BY <2>1, <2>3, <2>5
<1>2. S \notin C
  BY <1>1
<1> QED BY <1>2

\* The sum of two sets that are apart.
LEMMA SumDisjoint ==
  ASSUME NEW A, IsFiniteSet(A), NEW B, IsFiniteSet(B), A \cap B = {}, NEW w,
         \A x \in A \cup B : w[x] \in Int
  PROVE  Sum(w, A \cup B) = Sum(w, A) + Sum(w, B)
<1> DEFINE C == {T \in SUBSET A : Sum(w, T \cup B) # Sum(w, T) + Sum(w, B)}
<1>0. Sum(w, B) \in Int
  BY SumRemove
<1>1. ASSUME C # {} PROVE FALSE
  <2>1. PICK T \in C : \A U \in C : U \subseteq T => U = T
    <3>1. C \subseteq SUBSET A
      OBVIOUS
    <3> HIDE DEF C
    <3> QED BY <1>1, <3>1, LeastSet
  <2>2. PICK x \in T : TRUE
    <3>1. {} \cup B = B /\ Sum(w, {}) = 0
      BY SumEmpty
    <3>2. Sum(w, {} \cup B) = Sum(w, {}) + Sum(w, B)
      BY <1>0, <3>1
    <3>3. {} \notin C
      BY <3>2
    <3> QED BY <2>1, <3>3
  <2>3. Sum(w, (T \ {x}) \cup B) = Sum(w, T \ {x}) + Sum(w, B)
    BY <2>1, <2>2
  <2>4. IsFiniteSet(T) /\ IsFiniteSet(T \cup B)
    BY <2>1, FS_Subset, FS_Union
  <2>5. Sum(w, T) = w[x] + Sum(w, T \ {x}) /\ Sum(w, T \ {x}) \in Int
    BY <2>1, <2>4, SumRemove, FS_RemoveElement
  <2>6. (T \cup B) \ {x} = (T \ {x}) \cup B
    BY <2>1, <2>2
  <2>7. Sum(w, T \cup B) = w[x] + Sum(w, (T \cup B) \ {x})
    BY <2>1, <2>4, SumRemove
  <2>8. w[x] \in Int
    BY <2>1
  <2> QED BY <1>0, <2>1, <2>3, <2>5, <2>6, <2>7, <2>8
<1>2. A \notin C
  BY <1>1
<1> QED BY <1>2

\* The sum over an image, when h maps S one to one.
LEMMA SumImage ==
  ASSUME NEW S, IsFiniteSet(S), NEW h, \A x, y \in S : h[x] = h[y] => x = y,
         NEW w, NEW v, \A x \in S : w[x] \in Int /\ v[h[x]] = w[x]
  PROVE  IsFiniteSet({h[x] : x \in S}) /\ Sum(v, {h[x] : x \in S}) = Sum(w, S)
<1> DEFINE image(A) == {h[x] : x \in A}
           Good(A) == IsFiniteSet(image(A)) /\ Sum(v, image(A)) = Sum(w, A)
           C == {T \in SUBSET S : ~Good(T)}
<1>1. ASSUME C # {} PROVE FALSE
  <2>1. PICK T \in C : \A U \in C : U \subseteq T => U = T
    <3>1. C \subseteq SUBSET S
      OBVIOUS
    <3> HIDE DEF C
    <3> QED BY <1>1, <3>1, LeastSet
  <2>2. PICK x \in T : TRUE
    <3>1. image({}) = {}
      OBVIOUS
    <3>2. Good({})
      BY <3>1, FS_EmptySet, SumEmpty
    <3> QED BY <2>1, <3>2
  <2>3. Good(T \ {x})
    BY <2>1, <2>2
  <2>4. h[x] \notin image(T \ {x}) /\ image(T) = image(T \ {x}) \cup {h[x]}
    BY <2>1
  <2>5. \A y \in image(T) : v[y] \in Int
    BY <2>1
  <2>6. IsFiniteSet(image(T))
    BY <2>3, <2>4, FS_AddElement
  <2>7. Sum(v, image(T)) = Sum(v, image(T \ {x})) + v[h[x]]
    <3> DEFINE most == image(T \ {x})
    <3>1. IsFiniteSet(most) /\ h[x] \notin most /\ image(T) = most \cup {h[x]}
      BY <2>3, <2>4
    <3>2. \A y \in most \cup {h[x]} : v[y] \in Int
      BY <2>5, <3>1
    <3> HIDE DEF most, image, Good
    <3>3. ASSUME NEW y, y \notin most, \A z \in most \cup {y} : v[z] \in Int
          PROVE  Sum(v, most \cup {y}) = Sum(v, most) + v[y]
      BY <3>1, <3>3, SumInsert
    <3> QED BY <3>1, <3>2, <3>3 DEF most
  <2>8. IsFiniteSet(T) /\ \A y \in T : w[y] \in Int
    BY <2>1, FS_Subset
  <2>9. Sum(w, T) = w[x] + Sum(w, T \ {x}) /\ Sum(w, T \ {x}) \in Int
    BY <2>8, SumRemove, FS_RemoveElement
  <2>10. Sum(v, image(T)) = Sum(w, T)
    BY <2>1, <2>2, <2>3, <2>7, <2>8, <2>9
  <2> QED BY <2>1, <2>6, <2>10
<1>2. S \notin C
  BY <1>1
<1> QED BY <1>2

\* Finite parts F[i] of S that are apart and cover S, with weights w on S and
\* the sum v[i] of each part.
ArePartsOf(S, F, I, w, v) ==
  /\ \A i \in I : IsFiniteSet(F[i])
  /\ \A i, j \in I : i # j => F[i] \cap F[j] = {}
  /\ \A x : x \in S <=> \E i \in I : x \in F[i]
  /\ \A i \in I : \A x \in F[i] : w[x] \in Int
  /\ \A i \in I : v[i] = Sum(w, F[i])

\* The sum over such parts is the sum of their sums.
LEMMA SumOfParts ==
  ASSUME NEW I, IsFiniteSet(I), NEW F, NEW S, NEW w, NEW v, ArePartsOf(S, F, I, w, v)
  PROVE  Sum(w, S) = Sum(v, I)
<1>0. /\ \A i \in I : IsFiniteSet(F[i]) /\ v[i] = Sum(w, F[i])
      /\ \A i, j \in I : i # j => F[i] \cap F[j] = {}
      /\ \A i \in I : \A x \in F[i] : w[x] \in Int
  BY DEF ArePartsOf
<1> DEFINE union(J) == UNION {F[i] : i \in J}
           Good(J) == IsFiniteSet(union(J)) /\ Sum(w, union(J)) = Sum(v, J)
           C == {J \in SUBSET I : ~Good(J)}
<1>1. ASSUME C # {} PROVE FALSE
  <2>1. PICK J \in C : \A U \in C : U \subseteq J => U = J
    <3>1. C \subseteq SUBSET I
      OBVIOUS
    <3> HIDE DEF C
    <3> QED BY <1>1, <3>1, LeastSet
  <2>2. PICK i \in J : TRUE
    <3>1. union({}) = {}
      OBVIOUS
    <3>2. Good({})
      BY <3>1, FS_EmptySet, SumEmpty
    <3> QED BY <2>1, <3>2
  <2>3. Good(J \ {i})
    BY <2>1, <2>2
  <2>4. union(J \ {i}) \cap F[i] = {} /\ union(J) = union(J \ {i}) \cup F[i]
    BY <1>0, <2>1
  <2>5. \A x \in union(J) : w[x] \in Int
    BY <1>0, <2>1
  <2>6. IsFiniteSet(F[i]) /\ IsFiniteSet(union(J))
    <3> DEFINE most == union(J \ {i})
    <3>1. IsFiniteSet(most) /\ IsFiniteSet(F[i]) /\ union(J) = most \cup F[i]
      BY <1>0, <2>1, <2>3, <2>4
    <3> HIDE DEF most
    <3>2. IsFiniteSet(most \cup F[i])
      BY <3>1, FS_Union
    <3> QED BY <3>1, <3>2
  <2>7. Sum(w, union(J)) = Sum(w, union(J \ {i})) + Sum(w, F[i])
    <3> DEFINE most == union(J \ {i})
    <3>1. IsFiniteSet(most) /\ most \cap F[i] = {} /\ union(J) = most \cup F[i]
      BY <2>3, <2>4
    <3>2. \A x \in most \cup F[i] : w[x] \in Int
      BY <2>5, <3>1
    <3> HIDE DEF most
    <3>3. Sum(w, most \cup F[i]) = Sum(w, most) + Sum(w, F[i])
      BY <2>6, <3>1, <3>2, SumDisjoint
    <3> QED BY <3>1, <3>3 DEF most
  <2>8. IsFiniteSet(J) /\ \A j \in J : v[j] \in Int
    <3>1. ASSUME NEW j \in J PROVE v[j] \in Int
      <4>1. /\ IsFiniteSet(F[j]) /\ v[j] = Sum(w, F[j])
            /\ \A x \in F[j] : w[x] \in Int
        BY <1>0, <2>1
      <4>2. Sum(w, F[j]) \in Int
        BY <4>1, SumRemove
      <4> QED BY <4>1, <4>2
    <3> QED BY <2>1, <3>1, FS_Subset
  <2>9. Sum(v, J) = v[i] + Sum(v, J \ {i}) /\ Sum(v, J \ {i}) \in Int
    <3>1. IsFiniteSet(J \ {i})
      BY <2>8, FS_RemoveElement
    <3>2. Sum(v, J) = v[i] + Sum(v, J \ {i})
      BY <2>2, <2>8, SumRemove
    <3>3. Sum(v, J \ {i}) \in Int
      BY <2>8, <3>1, SumRemove
    <3> QED BY <3>2, <3>3
  <2>10. v[i] = Sum(w, F[i]) /\ v[i] \in Int
    BY <1>0, <2>1, <2>8
  <2>11. Sum(w, union(J)) = Sum(v, J)
    BY <2>3, <2>7, <2>9, <2>10
  <2> QED BY <2>1, <2>6, <2>11
<1>2. I \notin C
  BY <1>1
<1>3. S = union(I)
  BY DEF ArePartsOf
<1> QED BY <1>2, <1>3
=============================================================================
