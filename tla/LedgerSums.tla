----------------------------- MODULE LedgerSums -----------------------------
(***************************************************************************)
(* Sums of entry rows: what Total, a fold of the community modules, gives  *)
(* for finite sets.  The order in which a fold visits a set is that of     *)
(* CHOOSE, so each fact is shown by a smallest set that would violate it.  *)
(***************************************************************************)
EXTENDS LedgerTypes, FiniteSetTheorems, TLAPS

\* Among subsets of a finite set there is a smallest one.
LEMMA MinimalSet ==
    ASSUME NEW S, IsFiniteSet(S), NEW T, T \subseteq SUBSET S, T # {}
    PROVE  \E A \in T : \A B \in T : B \subseteq A => B = A
  <1>1. IsWellFoundedOn(StrictSubsetOrdering(S), SUBSET S)
    BY FS_StrictSubsetOrderingWellFounded, FS_FiniteSubsetsOfFinite
  <1>2. PICK A \in T : \A B \in T : ~ (<<B, A>> \in StrictSubsetOrdering(S))
    BY <1>1, WFMin
  <1> QED
    BY <1>2 DEF StrictSubsetOrdering

\* The element a fold visits next.
Pick(s) == CHOOSE x \in s : TRUE

\* f sums g over every subset of S, in the order of Pick.
IsSum(f, g, S) ==
    f = [s \in SUBSET S |-> IF s = {} THEN 0 ELSE g[Pick(s)] + f[s \ {Pick(s)}]]

LEMMA PickType == ASSUME NEW s, s # {} PROVE Pick(s) \in s
  BY DEF Pick

\* Sums of the same numbers agree wherever both are defined.
LEMMA SumsAgree ==
    ASSUME NEW S, IsFiniteSet(S), NEW T, NEW f, NEW g, NEW h, NEW k,
           IsSum(f, g, S), IsSum(h, k, T), \A x \in S \cap T : g[x] = k[x]
    PROVE  \A s \in SUBSET (S \cap T) : f[s] = h[s]
  <1> DEFINE Bad == { s \in SUBSET (S \cap T) : f[s] # h[s] }
  <1> SUFFICES ASSUME Bad # {} PROVE FALSE
    OBVIOUS
  <1>0. Bad \subseteq SUBSET S
    OBVIOUS
  <1>1. PICK A \in Bad : \A B \in Bad : B \subseteq A => B = A
    <2> HIDE DEF Bad
    <2> QED
      BY <1>0, MinimalSet
  <1>2. A # {} /\ A \in SUBSET S /\ A \in SUBSET T
    BY DEF IsSum
  <1>3. Pick(A) \in A
    BY <1>2, PickType
  <1>4. f[A] = g[Pick(A)] + f[A \ {Pick(A)}] /\ h[A] = k[Pick(A)] + h[A \ {Pick(A)}]
    BY <1>2 DEF IsSum
  <1>5. f[A \ {Pick(A)}] = h[A \ {Pick(A)}]
    BY <1>1, <1>3
  <1> QED
    BY <1>3, <1>4, <1>5

\* There is such a sum for every finite set.
LEMMA SumExists ==
    ASSUME NEW S, IsFiniteSet(S), NEW g
    PROVE  \E f : IsSum(f, g, S)
  <1> DEFINE Bad == { s \in SUBSET S : ~ \E f : IsSum(f, g, s) }
  <1> SUFFICES ASSUME Bad # {} PROVE FALSE
    OBVIOUS
  <1>0. Bad \subseteq SUBSET S
    OBVIOUS
  <1>1. PICK A \in Bad : \A B \in Bad : B \subseteq A => B = A
    <2> HIDE DEF Bad
    <2> QED
      BY <1>0, MinimalSet
  <1> DEFINE G(s) == CHOOSE f : IsSum(f, g, s)
             h == [s \in SUBSET A |-> IF s = {} THEN 0
                                      ELSE g[Pick(s)] + G(s \ {Pick(s)})[s \ {Pick(s)}]]
  <1>2. \A s \in SUBSET A : s # A => IsSum(G(s), g, s)
    BY <1>1
  <1> HIDE DEF G
  <1>3. \A s \in SUBSET A : s # {} => h[s \ {Pick(s)}] = G(s \ {Pick(s)})[s \ {Pick(s)}]
    <2> SUFFICES ASSUME NEW s \in SUBSET A, s # {} PROVE h[s \ {Pick(s)}] = G(s \ {Pick(s)})[s \ {Pick(s)}]
      OBVIOUS
    <2> DEFINE u == s \ {Pick(s)}
               v == u \ {Pick(u)}
    <2>1. u \in SUBSET A /\ u # A /\ v \in SUBSET A /\ v # A /\ v \in SUBSET u
      BY PickType
    <2>2. IsSum(G(u), g, u) /\ IsSum(G(v), g, v)
      BY <1>2, <2>1
    <2>3. CASE u = {}
      BY <2>1, <2>2, <2>3 DEF IsSum
    <2>4. CASE u # {}
      <3>1. G(u)[v] = G(v)[v]
        <4>1. IsFiniteSet(u)
          BY <2>1, FS_Subset
        <4>2. \A t \in SUBSET (u \cap v) : G(u)[t] = G(v)[t]
          <5> HIDE DEF u, v
          <5> QED
            BY <2>2, <4>1, SumsAgree
        <4> QED
          BY <2>1, <4>2
      <3>2. G(u)[u] = g[Pick(u)] + G(u)[v]
        BY <2>2, <2>4 DEF IsSum
      <3> QED
        BY <2>1, <2>4, <3>1, <3>2
    <2> QED
      BY <2>3, <2>4
  <1>4. IsSum(h, g, A)
    BY <1>3 DEF IsSum
  <1> QED
    BY <1>4

\* Total is such a sum of the rows' amounts.
LEMMA TotalIsSum ==
    ASSUME NEW E, IsFiniteSet(E)
    PROVE  \E f : IsSum(f, [e \in E |-> e.amount], E) /\ Total(E) = f[E]
  <1> DEFINE F(f) == [s \in SUBSET E |-> IF s = {} THEN 0 ELSE Pick(s).amount + f[s \ {Pick(s)}]]
  <1>1. \A f : IsSum(f, [e \in E |-> e.amount], E) <=> f = F(f)
    BY PickType DEF IsSum
  <1>2. \E f : f = F(f)
    BY <1>1, SumExists
  <1>3. Total(E) = (CHOOSE f : f = F(f))[E]
    BY DEF Total, MapThenSumSet, MapThenFoldSet, Pick
  <1> QED
    BY <1>1, <1>2, <1>3

\* The fold's first step.
LEMMA TotalFold ==
    /\ Total({}) = 0
    /\ \A E : IsFiniteSet(E) /\ E # {} => Total(E) = Pick(E).amount + Total(E \ {Pick(E)})
  <1>1. Total({}) = 0
    BY TotalIsSum, FS_EmptySet DEF IsSum
  <1>2. ASSUME NEW E, IsFiniteSet(E), E # {}
        PROVE  Total(E) = Pick(E).amount + Total(E \ {Pick(E)})
    <2> DEFINE R == E \ {Pick(E)}
    <2>1. Pick(E) \in E /\ IsFiniteSet(R)
      BY <1>2, PickType, FS_RemoveElement
    <2>2. PICK f : IsSum(f, [e \in E |-> e.amount], E) /\ Total(E) = f[E]
      BY <1>2, TotalIsSum
    <2> HIDE DEF R
    <2>3. PICK h : IsSum(h, [e \in R |-> e.amount], R) /\ Total(R) = h[R]
      BY <2>1, TotalIsSum
    <2>4. \A s \in SUBSET (E \cap R) : f[s] = h[s]
      <3> DEFINE g == [e \in E |-> e.amount]
                 k == [e \in R |-> e.amount]
      <3>1. \A x \in E \cap R : g[x] = k[x]
        OBVIOUS
      <3>2. IsSum(f, g, E) /\ IsSum(h, k, R)
        BY <2>2, <2>3
      <3> HIDE DEF g, k
      <3> QED
        BY <1>2, <3>1, <3>2, SumsAgree
    <2>5. f[R] = h[R]
      BY <2>4 DEF R
    <2>6. f[E] = Pick(E).amount + f[R]
      BY <1>2, <2>1, <2>2 DEF IsSum, R
    <2> QED
      BY <2>2, <2>3, <2>5, <2>6 DEF R
  <1> QED
    BY <1>1, <1>2

\* Rows with integer amounts.
Amounts(E) == IsFiniteSet(E) /\ \A e \in E : e.amount \in Int

\* Their sum is an integer.
LEMMA TotalType ==
    ASSUME NEW E, Amounts(E)
    PROVE  Total(E) \in Int
  <1> DEFINE Bad == { s \in SUBSET E : Total(s) \notin Int }
  <1> SUFFICES ASSUME Bad # {} PROVE FALSE
    OBVIOUS
  <1>0. Bad \subseteq SUBSET E
    OBVIOUS
  <1>1. PICK A \in Bad : \A B \in Bad : B \subseteq A => B = A
    <2> HIDE DEF Bad
    <2> QED
      BY <1>0, MinimalSet DEF Amounts
  <1>2. A # {} /\ IsFiniteSet(A)
    <2>1. Total({}) \in Int
      BY TotalFold
    <2>2. IsFiniteSet(A)
      BY FS_Subset DEF Amounts
    <2> QED
      BY <2>1, <2>2
  <1>3. Pick(A) \in A /\ Pick(A).amount \in Int
    BY <1>2, PickType DEF Amounts
  <1>4. Total(A) = Pick(A).amount + Total(A \ {Pick(A)})
    BY <1>2, TotalFold
  <1>5. Total(A \ {Pick(A)}) \in Int
    BY <1>1, <1>3
  <1> QED
    BY <1>3, <1>4, <1>5

\* Any row may be counted first.
LEMMA TotalRemove ==
    ASSUME NEW E, Amounts(E), NEW x \in E
    PROVE  Total(E) = x.amount + Total(E \ {x})
  <1> DEFINE Bad == { s \in SUBSET E : \E y \in s : Total(s) # y.amount + Total(s \ {y}) }
  <1> SUFFICES ASSUME Bad # {} PROVE FALSE
    OBVIOUS
  <1>0. Bad \subseteq SUBSET E
    OBVIOUS
  <1>1. PICK A \in Bad : \A B \in Bad : B \subseteq A => B = A
    <2> HIDE DEF Bad
    <2> QED
      BY <1>0, MinimalSet DEF Amounts
  <1>2. PICK y \in A : Total(A) # y.amount + Total(A \ {y})
    OBVIOUS
  <1> DEFINE c == Pick(A)
  <1>3. c \in A
    BY <1>2, PickType
  <1> HIDE DEF c
  <1>4. /\ Amounts(A) /\ Amounts(A \ {c, y})
        /\ y.amount \in Int /\ c.amount \in Int
    <2>1. IsFiniteSet(A) /\ IsFiniteSet(A \ {c, y})
      BY FS_Subset DEF Amounts
    <2> QED
      BY <1>3, <2>1 DEF Amounts
  <1>5. Total(A) = c.amount + Total(A \ {c})
    BY <1>2, <1>4, TotalFold DEF c, Amounts
  <1>6. y # c
    BY <1>2, <1>5
  <1>7. Total(A \ {c}) = y.amount + Total(A \ {c, y})
    <2>1. A \ {c} \notin Bad
      BY <1>1, <1>3
    <2>2. (A \ {c}) \ {y} = A \ {c, y} /\ y \in A \ {c}
      BY <1>6
    <2> QED
      BY <2>1, <2>2
  <1>8. Total(A \ {y}) = c.amount + Total(A \ {c, y})
    <2>1. A \ {y} \notin Bad
      BY <1>1
    <2>2. (A \ {y}) \ {c} = A \ {c, y} /\ c \in A \ {y}
      BY <1>3, <1>6
    <2> QED
      BY <2>1, <2>2
  <1>9. Total(A \ {c, y}) \in Int
    BY <1>4, TotalType
  <1> QED
    BY <1>2, <1>4, <1>5, <1>7, <1>8, <1>9

\* The sum of two sets without a common row is the sum of their sums.
LEMMA TotalUnion ==
    ASSUME NEW E, Amounts(E), NEW F, Amounts(F), E \cap F = {}
    PROVE  Total(E \cup F) = Total(E) + Total(F)
  <1> DEFINE Bad == { s \in SUBSET F : Total(E \cup s) # Total(E) + Total(s) }
  <1> SUFFICES ASSUME Bad # {} PROVE FALSE
    OBVIOUS
  <1>0. Bad \subseteq SUBSET F
    OBVIOUS
  <1>1. PICK A \in Bad : \A B \in Bad : B \subseteq A => B = A
    <2> HIDE DEF Bad
    <2> QED
      BY <1>0, MinimalSet DEF Amounts
  <1>2. Total(E) \in Int
    BY TotalType
  <1>3. A # {}
    <2>1. Total({}) = 0
      BY TotalFold
    <2>2. Total(E \cup {}) = Total(E) + Total({})
      <3>1. E \cup {} = E
        OBVIOUS
      <3> QED
        BY <1>2, <2>1, <3>1
    <2> QED
      BY <2>2
  <1>4. PICK x : x \in A
    BY <1>3
  <1> DEFINE R == A \ {x}
  <1>5. Amounts(A) /\ Amounts(R) /\ Amounts(E \cup A) /\ x.amount \in Int
    <2>1. IsFiniteSet(A) /\ IsFiniteSet(R) /\ IsFiniteSet(E \cup A)
      BY FS_Subset, FS_Union DEF Amounts
    <2> QED
      BY <1>4, <2>1 DEF Amounts
  <1>6. Total(E \cup A) = x.amount + Total(E \cup R)
    <2>1. (E \cup A) \ {x} = E \cup R /\ x \in E \cup A
      BY <1>4
    <2> QED
      BY <1>5, <2>1, TotalRemove
  <1>7. Total(A) = x.amount + Total(R)
    BY <1>4, <1>5, TotalRemove
  <1>8. Total(E \cup R) = Total(E) + Total(R)
    BY <1>1, <1>4
  <1>9. Total(R) \in Int
    BY <1>5, TotalType
  <1> QED
    BY <1>2, <1>5, <1>6, <1>7, <1>8, <1>9

\* The sum of the amounts of some lines of a request.
LineTotal(lines, D) == MapThenSumSet(LAMBDA i : lines[i].amount, D)

\* LineTotal is such a sum too, with the fold's first step.
LEMMA LineTotalIsSum ==
    ASSUME NEW lines, NEW D, IsFiniteSet(D)
    PROVE  \E f : IsSum(f, [i \in D |-> lines[i].amount], D) /\ LineTotal(lines, D) = f[D]
  <1> DEFINE F(f) == [s \in SUBSET D |-> IF s = {} THEN 0 ELSE lines[Pick(s)].amount + f[s \ {Pick(s)}]]
  <1>1. \A f : IsSum(f, [i \in D |-> lines[i].amount], D) <=> f = F(f)
    BY PickType DEF IsSum
  <1>2. \E f : f = F(f)
    BY <1>1, SumExists
  <1>3. LineTotal(lines, D) = (CHOOSE f : f = F(f))[D]
    BY DEF LineTotal, MapThenSumSet, MapThenFoldSet, Pick
  <1> QED
    BY <1>1, <1>2, <1>3

LEMMA LineTotalFold ==
    ASSUME NEW lines
    PROVE  /\ LineTotal(lines, {}) = 0
           /\ \A D : IsFiniteSet(D) /\ D # {} =>
                LineTotal(lines, D) = lines[Pick(D)].amount + LineTotal(lines, D \ {Pick(D)})
  <1>1. LineTotal(lines, {}) = 0
    <2>1. PICK f : IsSum(f, [i \in {} |-> lines[i].amount], {}) /\ LineTotal(lines, {}) = f[{}]
      BY LineTotalIsSum, FS_EmptySet
    <2> QED
      BY <2>1 DEF IsSum
  <1>2. ASSUME NEW D, IsFiniteSet(D), D # {}
        PROVE  LineTotal(lines, D) = lines[Pick(D)].amount + LineTotal(lines, D \ {Pick(D)})
    <2> DEFINE R == D \ {Pick(D)}
    <2>1. Pick(D) \in D /\ IsFiniteSet(R)
      BY <1>2, PickType, FS_RemoveElement
    <2>2. PICK f : IsSum(f, [i \in D |-> lines[i].amount], D) /\ LineTotal(lines, D) = f[D]
      BY <1>2, LineTotalIsSum
    <2> HIDE DEF R
    <2>3. PICK h : IsSum(h, [i \in R |-> lines[i].amount], R) /\ LineTotal(lines, R) = h[R]
      BY <2>1, LineTotalIsSum
    <2>4. \A s \in SUBSET (D \cap R) : f[s] = h[s]
      <3> DEFINE g == [i \in D |-> lines[i].amount]
                 k == [i \in R |-> lines[i].amount]
      <3>1. \A x \in D \cap R : g[x] = k[x]
        OBVIOUS
      <3>2. IsSum(f, g, D) /\ IsSum(h, k, R)
        BY <2>2, <2>3
      <3> HIDE DEF g, k
      <3> QED
        BY <1>2, <3>1, <3>2, SumsAgree
    <2>5. f[R] = h[R]
      BY <2>4 DEF R
    <2>6. f[D] = lines[Pick(D)].amount + f[R]
      BY <1>2, <2>1, <2>2 DEF IsSum, R
    <2> QED
      BY <2>2, <2>3, <2>5, <2>6 DEF R
  <1> QED
    BY <1>1, <1>2

\* Lines and the rows they become have the same sum.
LEMMA TotalOfRows ==
    ASSUME NEW D, IsFiniteSet(D), NEW lines, NEW row,
           \A i \in D : lines[i].amount \in Int /\ row[i].amount = lines[i].amount,
           \A i, j \in D : row[i] = row[j] => i = j
    PROVE  Total({ row[i] : i \in D }) = LineTotal(lines, D)
  <1> DEFINE Image(s) == { row[i] : i \in s }
             Bad == { s \in SUBSET D : Total(Image(s)) # LineTotal(lines, s) }
  <1> SUFFICES ASSUME Bad # {} PROVE FALSE
    OBVIOUS
  <1>0. Bad \subseteq SUBSET D
    OBVIOUS
  <1>1. PICK A \in Bad : \A B \in Bad : B \subseteq A => B = A
    <2> HIDE DEF Bad
    <2> QED
      BY <1>0, MinimalSet
  <1>2. A # {}
    <2>1. Image({}) = {}
      OBVIOUS
    <2>2. Total({}) = LineTotal(lines, {})
      BY TotalFold, LineTotalFold
    <2> QED
      BY <2>1, <2>2
  <1> DEFINE c == Pick(A)
  <1>3. c \in A /\ row[c] \in Image(A) /\ row[c].amount = lines[c].amount
    BY <1>2, PickType
  <1>4. Amounts(Image(A)) /\ IsFiniteSet(A)
    <2>1. IsFiniteSet(A)
      BY FS_Subset
    <2>2. IsFiniteSet(Image(A))
      <3> DEFINE f == [i \in A |-> row[i]]
      <3>1. f \in Surjection(A, Image(A))
        BY DEF Surjection
      <3> HIDE DEF f, Image
      <3> QED
        BY <2>1, <3>1, FS_Surjection
    <2> QED
      BY <2>1, <2>2 DEF Amounts
  <1>5. Image(A) \ {row[c]} = Image(A \ {c})
    BY <1>3
  <1>6. Total(Image(A \ {c})) = LineTotal(lines, A \ {c})
    BY <1>1, <1>3
  <1>7. Total(Image(A)) = row[c].amount + Total(Image(A) \ {row[c]})
    <2> HIDE DEF Image, c
    <2> QED
      BY <1>3, <1>4, TotalRemove
  <1>8. LineTotal(lines, A) = lines[c].amount + LineTotal(lines, A \ {c})
    BY <1>2, <1>4, LineTotalFold
  <1> HIDE DEF Image, c
  <1> QED
    BY <1>3, <1>5, <1>6, <1>7, <1>8
=============================================================================
