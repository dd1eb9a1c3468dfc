---------------------------- MODULE RatesProofs ----------------------------
(***************************************************************************)
(* What the counter-rate modules promise for every set of devices, every   *)
(* history of their counters and every length of run.  A published value   *)
(* is a sum or a maximum over the devices and fields, so the first part is *)
(* about those; both recursions are taken by their smallest counterexample *)
(* among the subsets of a finite set.                                      *)
(***************************************************************************)
EXTENDS Rates, FiniteSetTheorems, WellFoundedInduction, TLAPS

Sum(f, T) == SumFunctionOnSet(f, T)

Pick(s) == CHOOSE x \in s : TRUE

(* The function a sum is defined by: some element, and the sum of the rest. *)
IsSum(h, f, T) ==
  h = [s \in SUBSET T |->
         IF s = {} THEN 0 ELSE f[Pick(s)] + h[s \ {Pick(s)}]]

LEMMA SumIs ==
  ASSUME NEW f, NEW T
  PROVE  Sum(f, T) = (CHOOSE h : IsSum(h, f, T))[T]
BY DEF Sum, SumFunctionOnSet, FoldFunctionOnSet, MapThenFoldSet, IsSum, Pick

(* Of some subsets of a finite set one has none of the others within. *)
LEMMA Smallest ==
  ASSUME NEW T, IsFiniteSet(T), NEW F \in SUBSET (SUBSET T), F # {}
  PROVE  \E X \in F : \A Y \in F : Y \subseteq X => Y = X
<1>1. F \subseteq FiniteSubsetsOf(T)
  BY FS_Subset DEF FiniteSubsetsOf
<1>2. PICK X \in F : \A Y \in F : ~ (<<Y, X>> \in StrictSubsetOrdering(T))
  BY <1>1, FS_StrictSubsetOrderingWellFounded, WFMin
<1> QED
  BY <1>2 DEF StrictSubsetOrdering

LEMMA Picked ==
  ASSUME NEW s, s # {}
  PROVE  Pick(s) \in s
BY DEF Pick

LEMMA SumPoint ==
  ASSUME NEW f, NEW T, NEW h, IsSum(h, f, T), NEW s \in SUBSET T
  PROVE  /\ s = {} => h[s] = 0
         /\ s # {} => h[s] = f[Pick(s)] + h[s \ {Pick(s)}]
<1>1. h = [t \in SUBSET T |->
         IF t = {} THEN 0 ELSE f[Pick(t)] + h[t \ {Pick(t)}]]
  BY DEF IsSum
<1>2. h[s] = IF s = {} THEN 0 ELSE f[Pick(s)] + h[s \ {Pick(s)}]
  BY <1>1
<1> QED
  BY <1>2

LEMMA SumUnique ==
  ASSUME NEW f, NEW T, IsFiniteSet(T), NEW g, IsSum(g, f, T), NEW h, IsSum(h, f, T)
  PROVE  g = h
<1> DEFINE F == {s \in SUBSET T : g[s] # h[s]}
<1>1. SUFFICES ASSUME F # {} PROVE FALSE
  <2>1. DOMAIN g = SUBSET T /\ DOMAIN h = SUBSET T /\ \A s \in SUBSET T : g[s] = h[s]
    BY <1>1 DEF IsSum
  <2> QED
    BY <2>1 DEF IsSum
<1>2. PICK s \in F : \A t \in F : t \subseteq s => t = s
  <2>1. F \in SUBSET (SUBSET T)
    OBVIOUS
  <2> HIDE DEF F
  <2> QED
    BY <1>1, <2>1, Smallest
<1> DEFINE x == Pick(s)
<1>3. s # {}
  BY <1>2, SumPoint
<1>4. x \in s
  BY <1>3, Picked
<1>5. g[s \ {x}] = h[s \ {x}]
  BY <1>2, <1>4
<1>6. g[s] = f[x] + g[s \ {x}] /\ h[s] = f[x] + h[s \ {x}]
  BY <1>2, <1>3, SumPoint
<1> QED
  BY <1>2, <1>5, <1>6

LEMMA SumRestricted ==
  ASSUME NEW f, NEW T, NEW h, IsSum(h, f, T), NEW U \in SUBSET T
  PROVE  IsSum([s \in SUBSET U |-> h[s]], f, U)
<1> DEFINE g == [s \in SUBSET U |-> h[s]]
<1>1. ASSUME NEW s \in SUBSET U
      PROVE  g[s] = IF s = {} THEN 0 ELSE f[Pick(s)] + g[s \ {Pick(s)}]
  <2>1. s \ {Pick(s)} \in SUBSET U /\ s \in SUBSET T
    OBVIOUS
  <2>2. g[s] = h[s] /\ g[s \ {Pick(s)}] = h[s \ {Pick(s)}]
    BY <2>1
  <2> HIDE DEF g
  <2> QED
    BY <2>1, <2>2, SumPoint
<1>2. g = [s \in SUBSET U |->
         IF s = {} THEN 0 ELSE f[Pick(s)] + g[s \ {Pick(s)}]]
  <2> HIDE DEF g
  <2>1. DOMAIN g = SUBSET U /\ g = [s \in DOMAIN g |-> g[s]]
    BY DEF g
  <2> QED
    BY <1>1, <2>1
<1> QED
  BY <1>2 DEF IsSum

LEMMA SumOf ==
  ASSUME NEW f, NEW T, IsFiniteSet(T), NEW h, IsSum(h, f, T), NEW U \in SUBSET T
  PROVE  Sum(f, U) = h[U]
<1> DEFINE g == [s \in SUBSET U |-> h[s]]
<1>1. IsSum(g, f, U)
  BY SumRestricted
<1> HIDE DEF g
<1>2. IsSum(CHOOSE k : IsSum(k, f, U), f, U)
  BY <1>1
<1>3. (CHOOSE k : IsSum(k, f, U)) = g
  BY <1>1, <1>2, FS_Subset, SumUnique
<1>4. g[U] = h[U]
  BY DEF g
<1> QED
  BY <1>3, <1>4, SumIs

LEMMA SumExists ==
  ASSUME NEW f, NEW T, IsFiniteSet(T)
  PROVE  \E h : IsSum(h, f, T)
<1> DEFINE F == {U \in SUBSET T : \A h : ~ IsSum(h, f, U)}
<1>1. SUFFICES ASSUME F # {} PROVE FALSE
  OBVIOUS
<1>2. PICK U \in F : \A V \in F : V \subseteq U => V = U
  <2>1. F \in SUBSET (SUBSET T)
    OBVIOUS
  <2> HIDE DEF F
  <2> QED
    BY <1>1, <2>1, Smallest
<1> DEFINE H == [s \in SUBSET U |-> IF s = {} THEN 0 ELSE f[Pick(s)] + Sum(f, s \ {Pick(s)})]
<1>3. ASSUME NEW s \in SUBSET U, s # U PROVE H[s] = Sum(f, s)
  <2>1. PICK h : IsSum(h, f, s)
    BY <1>2, <1>3
  <2>2. IsFiniteSet(s) /\ s \in SUBSET s
    BY FS_Subset
  <2>3. Sum(f, s) = h[s] /\ Sum(f, s \ {Pick(s)}) = h[s \ {Pick(s)}]
    BY <2>1, <2>2, SumOf
  <2> QED
    BY <2>1, <2>3, SumPoint
<1>4. ASSUME NEW s \in SUBSET U
      PROVE  H[s] = IF s = {} THEN 0 ELSE f[Pick(s)] + H[s \ {Pick(s)}]
  <2> SUFFICES ASSUME s # {} PROVE H[s] = f[Pick(s)] + H[s \ {Pick(s)}]
    OBVIOUS
  <2>1. Pick(s) \in s
    BY Picked
  <2>2. s \ {Pick(s)} \in SUBSET U /\ s \ {Pick(s)} # U
    BY <2>1
  <2>3. H[s \ {Pick(s)}] = Sum(f, s \ {Pick(s)})
    BY <1>3, <2>2
  <2> QED
    BY <2>3
<1>5. IsSum(H, f, U)
  <2>1. DOMAIN H = SUBSET U /\ H = [s \in DOMAIN H |-> H[s]]
    OBVIOUS
  <2> HIDE DEF H
  <2> QED
    BY <1>4, <2>1 DEF IsSum
<1> QED
  BY <1>2, <1>5

(* The sum over nothing, and over something from one element on. *)
LEMMA SumStep ==
  ASSUME NEW f, NEW T, IsFiniteSet(T)
  PROVE  /\ T = {} => Sum(f, T) = 0
         /\ T # {} => Sum(f, T) = f[Pick(T)] + Sum(f, T \ {Pick(T)})
<1>1. PICK h : IsSum(h, f, T)
  BY SumExists
<1>2. Sum(f, T) = h[T] /\ Sum(f, T \ {Pick(T)}) = h[T \ {Pick(T)}]
  BY <1>1, SumOf
<1> QED
  BY <1>1, <1>2, SumPoint

LEMMA SumInt ==
  ASSUME NEW f, NEW T, IsFiniteSet(T), \A x \in T : f[x] \in Int
  PROVE  Sum(f, T) \in Int
<1> DEFINE F == {U \in SUBSET T : Sum(f, U) \notin Int}
<1>1. SUFFICES ASSUME F # {} PROVE FALSE
  OBVIOUS
<1>2. PICK U \in F : \A V \in F : V \subseteq U => V = U
  <2>1. F \in SUBSET (SUBSET T)
    OBVIOUS
  <2> HIDE DEF F
  <2> QED
    BY <1>1, <2>1, Smallest
<1> DEFINE x == Pick(U)
<1>3. IsFiniteSet(U)
  BY FS_Subset
<1>4. U # {} /\ Sum(f, U) = f[x] + Sum(f, U \ {x})
  <2>1. Sum(f, U) \notin Int
    BY <1>2
  <2>2. 0 \in Int
    OBVIOUS
  <2> QED
    BY <1>3, <2>1, <2>2, SumStep
<1>5. x \in U
  BY <1>4, Picked
<1>6. Sum(f, U \ {x}) \in Int
  BY <1>2, <1>5
<1> QED
  BY <1>2, <1>4, <1>5, <1>6

(* It does not matter which element is taken first. *)
LEMMA SumTake ==
  ASSUME NEW f, NEW T, IsFiniteSet(T), \A x \in T : f[x] \in Int, NEW y \in T
  PROVE  Sum(f, T) = f[y] + Sum(f, T \ {y})
<1> DEFINE F == {U \in SUBSET T : \E x \in U : Sum(f, U) # f[x] + Sum(f, U \ {x})}
<1>1. SUFFICES ASSUME F # {} PROVE FALSE
  OBVIOUS
<1>2. PICK U \in F : \A V \in F : V \subseteq U => V = U
  <2>1. F \in SUBSET (SUBSET T)
    OBVIOUS
  <2> HIDE DEF F
  <2> QED
    BY <1>1, <2>1, Smallest
<1>3. PICK x \in U : Sum(f, U) # f[x] + Sum(f, U \ {x})
  BY <1>2
<1> DEFINE z == Pick(U)
<1>4. z \in U /\ IsFiniteSet(U)
  BY Picked, FS_Subset
<1>5. Sum(f, U) = f[z] + Sum(f, U \ {z})
  BY <1>3, <1>4, SumStep
<1> HIDE DEF z
<1>6. x # z /\ x \in U \ {z} /\ z \in U \ {x}
  BY <1>3, <1>4, <1>5
<1>7. U \ {z} \notin F /\ U \ {x} \notin F
  BY <1>2, <1>4
<1>8. Sum(f, U \ {z}) = f[x] + Sum(f, (U \ {z}) \ {x})
  BY <1>6, <1>7
<1>9. Sum(f, U \ {x}) = f[z] + Sum(f, (U \ {x}) \ {z})
  BY <1>6, <1>7
<1>10. (U \ {z}) \ {x} = (U \ {x}) \ {z} /\ IsFiniteSet((U \ {x}) \ {z})
  BY <1>4, FS_Subset
<1>11. Sum(f, (U \ {x}) \ {z}) \in Int /\ f[x] \in Int /\ f[z] \in Int
  BY <1>4, <1>10, SumInt
<1>12. Sum(f, U) = f[x] + Sum(f, U \ {x})
  <2> DEFINE r == Sum(f, (U \ {x}) \ {z})
  <2>1. Sum(f, U) = f[z] + (f[x] + r) /\ Sum(f, U \ {x}) = f[z] + r
    BY <1>5, <1>8, <1>9, <1>10
  <2>2. r \in Int /\ f[x] \in Int /\ f[z] \in Int
    BY <1>11
  <2> HIDE DEF r
  <2> QED
    BY <2>1, <2>2
<1> QED
  BY <1>3, <1>12

(* A sum is no more than one of greater terms. *)
LEMMA SumLess ==
  ASSUME NEW f, NEW g, NEW T, IsFiniteSet(T),
         \A x \in T : f[x] \in Int /\ g[x] \in Int /\ f[x] <= g[x]
  PROVE  Sum(f, T) <= Sum(g, T)
<1> DEFINE F == {U \in SUBSET T : ~ (Sum(f, U) <= Sum(g, U))}
<1>1. SUFFICES ASSUME F # {} PROVE FALSE
  OBVIOUS
<1>2. PICK U \in F : \A V \in F : V \subseteq U => V = U
  <2>1. F \in SUBSET (SUBSET T)
    OBVIOUS
  <2> HIDE DEF F
  <2> QED
    BY <1>1, <2>1, Smallest
<1> DEFINE x == Pick(U)
<1>3. IsFiniteSet(U)
  BY FS_Subset
<1>4. U # {} /\ Sum(f, U) = f[x] + Sum(f, U \ {x}) /\ Sum(g, U) = g[x] + Sum(g, U \ {x})
  BY <1>2, <1>3, SumStep
<1>5. x \in U
  BY <1>4, Picked
<1> HIDE DEF x
<1>6. Sum(f, U \ {x}) <= Sum(g, U \ {x})
  BY <1>2, <1>5
<1>7. IsFiniteSet(U \ {x}) /\ Sum(f, U \ {x}) \in Int /\ Sum(g, U \ {x}) \in Int
  BY <1>3, FS_Subset, SumInt
<1> QED
  BY <1>2, <1>4, <1>5, <1>6, <1>7

LEMMA SumSame ==
  ASSUME NEW f, NEW g, NEW T, IsFiniteSet(T), \A x \in T : f[x] \in Int /\ f[x] = g[x]
  PROVE  Sum(f, T) = Sum(g, T)
<1>1. Sum(f, T) <= Sum(g, T) /\ Sum(g, T) <= Sum(f, T)
  BY SumLess
<1> QED
  BY <1>1, SumInt

(* A sum of naturals is one, and no less than a part of it. *)
LEMMA SumPart ==
  ASSUME NEW f, NEW T, IsFiniteSet(T), \A x \in T : f[x] \in Nat, NEW P \in SUBSET T
  PROVE  Sum(f, P) \in Nat /\ Sum(f, P) <= Sum(f, T)
<1>1. ASSUME NEW Q \in SUBSET T, NEW R \in SUBSET Q PROVE Sum(f, R) <= Sum(f, Q)
  <2> DEFINE F == {U \in SUBSET Q : R \subseteq U /\ ~ (Sum(f, R) <= Sum(f, U))}
  <2>1. SUFFICES ASSUME F # {} PROVE FALSE
    OBVIOUS
  <2>2. IsFiniteSet(Q)
    BY FS_Subset
  <2>3. PICK U \in F : \A V \in F : V \subseteq U => V = U
    <3>1. F \in SUBSET (SUBSET Q)
      OBVIOUS
    <3> HIDE DEF F
    <3> QED
      BY <2>1, <2>2, <3>1, Smallest
  <2>4. IsFiniteSet(U) /\ IsFiniteSet(R) /\ U \subseteq T
    BY <2>2, FS_Subset
  <2>5. Sum(f, U) \in Int /\ Sum(f, R) \in Int
    BY <2>4, SumInt
  <2>6. PICK x \in U : x \notin R
    <3>1. ~ (Sum(f, R) <= Sum(f, U)) /\ R \subseteq U
      BY <2>3
    <3>2. U # R
      BY <2>5, <3>1
    <3> QED
      BY <3>1, <3>2
  <2>7. Sum(f, U) = f[x] + Sum(f, U \ {x})
    BY <2>4, SumTake
  <2>8. Sum(f, R) <= Sum(f, U \ {x})
    BY <2>3, <2>6
  <2>9. IsFiniteSet(U \ {x}) /\ Sum(f, U \ {x}) \in Int
    BY <2>4, FS_Subset, SumInt
  <2> QED
    BY <2>3, <2>4, <2>5, <2>7, <2>8, <2>9
<1>2. Sum(f, {}) = 0 /\ IsFiniteSet(P) /\ Sum(f, P) \in Int
  <2>1. IsFiniteSet({}) /\ IsFiniteSet(P)
    BY FS_EmptySet, FS_Subset
  <2>2. \A x \in P : f[x] \in Int
    OBVIOUS
  <2> QED
    BY <2>1, <2>2, SumStep, SumInt
<1>3. Sum(f, {}) <= Sum(f, P) /\ Sum(f, P) <= Sum(f, T)
  BY <1>1
<1> QED
  BY <1>2, <1>3

(* A finite set of integers has a greatest. *)
LEMMA Greatest ==
  ASSUME NEW S, IsFiniteSet(S), S # {}, \A x \in S : x \in Int
  PROVE  Max(S) \in S /\ \A y \in S : y <= Max(S)
<1> DEFINE F == {U \in SUBSET S : U # {} /\ \A x \in U : \E y \in U : x < y}
<1>1. SUFFICES ASSUME F # {} PROVE FALSE
  <2>1. S \notin F
    BY <1>1
  <2>2. PICK x \in S : \A y \in S : ~ (x < y)
    BY <2>1
  <2>3. x \in S /\ \A y \in S : x >= y
    BY <2>2
  <2> QED
    BY <2>3 DEF Max
<1>2. PICK U \in F : \A V \in F : V \subseteq U => V = U
  <2>1. F \in SUBSET (SUBSET S)
    OBVIOUS
  <2> HIDE DEF F
  <2> QED
    BY <1>1, <2>1, Smallest
<1>3. PICK x \in U : TRUE
  BY <1>2
<1>4. U \ {x} \notin F
  BY <1>2
<1>5. PICK y \in U : x < y
  BY <1>2
<1>6. y \in U \ {x}
  BY <1>5
<1>7. PICK z \in U \ {x} : \A w \in U \ {x} : ~ (z < w)
  BY <1>4, <1>6
<1>8. PICK w \in U : z < w
  BY <1>2, <1>7
<1>9. w = x
  BY <1>7, <1>8
<1> QED
  BY <1>5, <1>6, <1>7, <1>8, <1>9

-----------------------------------------------------------------------------
(* What is made of two readings.                                           *)

Increases(prev, cur, devs, fields) ==
  \A d \in devs, f \in fields : Increase(prev, cur, d, f) \in Int

Grown(prev, cur, T) == [p \in T |-> Increase(prev, cur, p[1], p[2])]

LEMMA TotalIs ==
  ASSUME NEW prev, NEW cur, NEW devs, NEW fields, IsFiniteSet(devs), IsFiniteSet(fields),
         Increases(prev, cur, devs, fields)
  PROVE  LET T == devs \X fields  f == Grown(prev, cur, T) IN
         /\ Total(prev, cur, devs, fields) = Sum(f, T) /\ IsFiniteSet(T)
         /\ \A p \in T : p[1] \in devs /\ p[2] \in fields /\ f[p] = Increase(prev, cur, p[1], p[2])
<1> DEFINE T == devs \X fields
<1>1. IsFiniteSet(T)
  BY FS_Product
<1>2. Total(prev, cur, devs, fields) = SumFunctionOnSet(Grown(prev, cur, T), DOMAIN Grown(prev, cur, T))
  BY DEF Total, SumFunction, Grown
<1>3. DOMAIN Grown(prev, cur, T) = T
  BY DEF Grown
<1>4. \A p \in T : p[1] \in devs /\ p[2] \in fields /\ Grown(prev, cur, T)[p] = Increase(prev, cur, p[1], p[2])
  BY DEF Grown
<1> QED
  BY <1>1, <1>2, <1>3, <1>4 DEF Sum

LEMMA BusiestIs ==
  ASSUME NEW prev, NEW cur, NEW devs, NEW fields, IsFiniteSet(devs), IsFiniteSet(fields),
         Increases(prev, cur, devs, fields), devs # {}, fields # {}
  PROVE  /\ \E d \in devs, f \in fields : Busiest(prev, cur, devs, fields) = Increase(prev, cur, d, f)
         /\ \A d \in devs, f \in fields : Increase(prev, cur, d, f) <= Busiest(prev, cur, devs, fields)
<1> DEFINE f == [p \in devs \X fields |-> Increase(prev, cur, p[1], p[2])]
           S == {Increase(prev, cur, d, e) : d \in devs, e \in fields}
<1>1. S \subseteq Int /\ S # {}
  BY DEF Increases
<1>2. f \in Surjection(devs \X fields, S)
  <2>1. \A p \in devs \X fields : p[1] \in devs /\ p[2] \in fields /\ f[p] \in S
    OBVIOUS
  <2>2. ASSUME NEW s \in S PROVE \E p \in devs \X fields : f[p] = s
    <3>1. PICK d \in devs, e \in fields : s = Increase(prev, cur, d, e)
      OBVIOUS
    <3>2. <<d, e>> \in devs \X fields /\ f[<<d, e>>] = s
      BY <3>1
    <3> QED
      BY <3>2
  <2>3. f \in [devs \X fields -> S]
    BY <2>1
  <2> HIDE DEF f, S
  <2> QED
    BY <2>2, <2>3 DEF Surjection
<1>3. IsFiniteSet(S)
  <2>1. IsFiniteSet(devs \X fields)
    BY FS_Product
  <2> HIDE DEF f, S
  <2> QED
    BY <1>2, <2>1, FS_Surjection
<1>4. Max(S) \in S /\ \A y \in S : y <= Max(S)
  <2> HIDE DEF S
  <2> QED
    BY <1>1, <1>3, Greatest
<1>5. Busiest(prev, cur, devs, fields) = Max(S)
  BY DEF Busiest
<1>6. Busiest(prev, cur, devs, fields) \in S /\ \A y \in S : y <= Busiest(prev, cur, devs, fields)
  <2> HIDE DEF S
  <2> QED
    BY <1>4, <1>5
<1> QED
  BY <1>6

(* Of naturals, less of each makes less of all. *)
LEMMA AmountLess ==
  ASSUME NEW how, NEW prev, NEW cur, NEW was, NEW is, NEW devs, NEW fields,
         IsFiniteSet(devs), IsFiniteSet(fields), devs # {}, fields # {},
         \A d \in devs, f \in fields :
            /\ Increase(prev, cur, d, f) \in Nat /\ Increase(was, is, d, f) \in Int
            /\ Increase(prev, cur, d, f) <= Increase(was, is, d, f)
  PROVE  /\ Amount(how, prev, cur, devs, fields) \in Nat
         /\ Amount(how, was, is, devs, fields) \in Nat
         /\ Amount(how, prev, cur, devs, fields) <= Amount(how, was, is, devs, fields)
<1>1. Increases(prev, cur, devs, fields) /\ Increases(was, is, devs, fields)
  BY DEF Increases
<1>2. CASE how = "max"
  <2>1. PICK d \in devs, f \in fields : Busiest(prev, cur, devs, fields) = Increase(prev, cur, d, f)
    BY <1>1, BusiestIs
  <2>2. Increase(was, is, d, f) <= Busiest(was, is, devs, fields)
    BY <1>1, BusiestIs
  <2>3. PICK e \in devs, g \in fields : Busiest(was, is, devs, fields) = Increase(was, is, e, g)
    BY <1>1, BusiestIs
  <2>4. /\ Amount(how, prev, cur, devs, fields) = Increase(prev, cur, d, f)
        /\ Amount(how, was, is, devs, fields) = Increase(was, is, e, g)
        /\ Increase(was, is, d, f) <= Increase(was, is, e, g)
    BY <1>2, <2>1, <2>2, <2>3 DEF Amount
  <2> QED
    BY <2>4
<1>3. CASE how # "max"
  <2> DEFINE f == Grown(prev, cur, devs \X fields)
             g == Grown(was, is, devs \X fields)
             T == devs \X fields
  <2>1. /\ Total(prev, cur, devs, fields) = Sum(f, T) /\ IsFiniteSet(T)
        /\ \A p \in T : p[1] \in devs /\ p[2] \in fields /\ f[p] = Increase(prev, cur, p[1], p[2])
    BY <1>1, TotalIs
  <2>2. /\ Total(was, is, devs, fields) = Sum(g, T)
        /\ \A p \in T : g[p] = Increase(was, is, p[1], p[2])
    BY <1>1, TotalIs
  <2> HIDE DEF f, g, T
  <2>3. \A p \in T : f[p] \in Nat /\ g[p] \in Nat /\ f[p] <= g[p]
    BY <2>1, <2>2
  <2>4. Sum(f, T) \in Nat /\ Sum(g, T) \in Nat /\ Sum(f, T) <= Sum(g, T)
    BY <2>1, <2>3, SumLess, SumPart
  <2> QED
    BY <1>3, <2>1, <2>2, <2>4 DEF Amount
<1> QED
  BY <1>2, <1>3

LEMMA AmountSame ==
  ASSUME NEW how, NEW prev, NEW cur, NEW was, NEW is, NEW devs, NEW fields,
         IsFiniteSet(devs), IsFiniteSet(fields), devs # {}, fields # {},
         \A d \in devs, f \in fields :
            Increase(prev, cur, d, f) \in Nat /\ Increase(prev, cur, d, f) = Increase(was, is, d, f)
  PROVE  Amount(how, prev, cur, devs, fields) = Amount(how, was, is, devs, fields)
<1>1. /\ Amount(how, prev, cur, devs, fields) \in Nat /\ Amount(how, was, is, devs, fields) \in Nat
      /\ Amount(how, prev, cur, devs, fields) <= Amount(how, was, is, devs, fields)
      /\ Amount(how, was, is, devs, fields) <= Amount(how, prev, cur, devs, fields)
  BY AmountLess
<1> QED
  BY <1>1

(* A part of the fields makes no more than all of them. *)
LEMMA TotalPart ==
  ASSUME NEW prev, NEW cur, NEW devs, NEW fields, IsFiniteSet(devs), IsFiniteSet(fields),
         \A d \in devs, f \in fields : Increase(prev, cur, d, f) \in Nat,
         NEW part \in SUBSET fields
  PROVE  /\ Total(prev, cur, devs, part) \in Nat /\ Total(prev, cur, devs, fields) \in Nat
         /\ Total(prev, cur, devs, part) <= Total(prev, cur, devs, fields)
<1> DEFINE f == Grown(prev, cur, devs \X fields)
           g == Grown(prev, cur, devs \X part)
           T == devs \X fields
           P == devs \X part
<1>1. Increases(prev, cur, devs, fields) /\ Increases(prev, cur, devs, part) /\ IsFiniteSet(part)
  BY FS_Subset DEF Increases
<1>2. /\ Total(prev, cur, devs, fields) = Sum(f, T) /\ IsFiniteSet(T)
      /\ \A p \in T : p[1] \in devs /\ p[2] \in fields /\ f[p] = Increase(prev, cur, p[1], p[2])
  BY <1>1, TotalIs
<1>3. /\ Total(prev, cur, devs, part) = Sum(g, P) /\ IsFiniteSet(P)
      /\ \A p \in P : g[p] = Increase(prev, cur, p[1], p[2])
  BY <1>1, TotalIs
<1>4. P \in SUBSET T
  OBVIOUS
<1> HIDE DEF f, g, T, P
<1>5. \A p \in T : f[p] \in Nat
  BY <1>2
<1>6. Sum(g, P) = Sum(f, P)
  <2>1. \A p \in P : g[p] \in Int /\ g[p] = f[p]
    BY <1>2, <1>3, <1>4
  <2> QED
    BY <1>3, <2>1, SumSame
<1>7. /\ Sum(f, P) \in Nat /\ Sum(f, P) <= Sum(f, T) /\ Sum(f, T) \in Nat
  BY <1>2, <1>4, <1>5, SumPart
<1> QED
  BY <1>2, <1>3, <1>6, <1>7

-----------------------------------------------------------------------------
(* The invariant.                                                          *)

(* The counters and the history of what was done have their types. *)
HostInv ==
  /\ module \in Modules /\ now \in Nat
  /\ attached \subseteq veterans /\ veterans \subseteq Names
  /\ DOMAIN counters = Areas /\ DOMAIN done = Areas
  /\ \A a \in Areas : counters[a] \in [Devices(a) -> [Fields(a) -> Nat]]
                      /\ done[a] \in [All(a) -> [Fields(a) -> Nat]]

(* Of an area, what was read of a device that is still in use, and what    *)
(* was done since, is no less than what the system shows now; it is the    *)
(* same if no counter started again.  The rest of the system is in the     *)
(* parameters, for a reading stays while they change.                      *)
Sound(a, of, truth, use, known, shows, did, still) ==
  /\ DOMAIN of \subseteq (IF a \in Many THEN known \ Stacked ELSE {"host"})
  /\ DOMAIN of \subseteq DOMAIN truth
  /\ \A d \in DOMAIN of, f \in Fields(a) :
       /\ of[d][f] \in Nat /\ truth[d][f] \in Nat
       /\ truth[d][f] <= did[d][f]
       /\ d \in (IF a \in Many THEN use ELSE {"host"}) =>
            /\ shows[d][f] + truth[d][f] <= did[d][f] + of[d][f]
            /\ still => shows[d][f] + truth[d][f] = did[d][f] + of[d][f]

SoundReading(r, areas, time, use, known, shows, did, still) ==
  /\ r.at \in Nat /\ r.at <= time
  /\ \A a \in areas : r.of[a] # None =>
       Sound(a, r.of[a], r.truth[a], use, known, shows[a], did[a], a \in still)

Stands(r) == SoundReading(r, Areas, now, attached, veterans, counters, done, calm)

RatesInv ==
  /\ HostInv
  /\ last # None => Stands(last)
  /\ first # None => Stands(first)

(* A module's areas, fields and keys. *)
LEMMA KeyFacts ==
  ASSUME module \in Modules, NEW k \in Keys
  PROVE  /\ k.area \in Areas /\ k.part \subseteq k.whole /\ k.part # {}
         /\ k.whole \subseteq Fields(k.area) /\ IsFiniteSet(k.whole) /\ IsFiniteSet(k.part)
         /\ module = "cpu" => k.how = "share"
<1>0. module \in {"cpu", "disk", "network"}
  BY RatesAssumption
<1>1. \A x, y : IsFiniteSet({x}) /\ IsFiniteSet({x, y})
  <2> SUFFICES ASSUME NEW x, NEW y PROVE IsFiniteSet({x}) /\ IsFiniteSet({x, y})
    OBVIOUS
  <2>1. IsFiniteSet({x})
    BY FS_Singleton
  <2>2. {x, y} = {x} \cup {y}
    OBVIOUS
  <2> QED
    BY <2>1, <2>2, FS_AddElement
<1>2. CASE module = "cpu"
  <2>1. Areas = {"times"} /\ k = Key("times", "share", {"user"}, {"user", "idle"})
    BY <1>2 DEF Areas, Keys
  <2> QED
    BY <1>1, <2>1 DEF Key, Fields
<1>3. CASE module = "disk"
  <2>1. Areas = {"io"} /\ Keys = {Key("io", "sum", {"ops"}, {"ops"}), Key("io", "max", {"busy"}, {"busy"})}
    BY <1>3 DEF Areas, Keys
  <2>2. CASE k = Key("io", "sum", {"ops"}, {"ops"})
    BY <1>1, <1>3, <2>1, <2>2 DEF Key, Fields
  <2>3. CASE k = Key("io", "max", {"busy"}, {"busy"})
    BY <1>1, <1>3, <2>1, <2>3 DEF Key, Fields
  <2> QED
    BY <2>1, <2>2, <2>3
<1>4. CASE module = "network"
  <2>1. \A f \in Fields("ifaces") : IsFiniteSet({f})
    BY <1>1
  <2>2. Keys = {Key("ifaces", "sum", {f}, {f}) : f \in Fields("ifaces")}
         \cup {Key("stack", "share", {"retrans"}, {"out", "retrans"}),
               Key("stack", "sum", {"resets"}, {"resets"}), Key("listen", "sum", {"drops"}, {"drops"})}
    BY <1>4 DEF Keys
  <2>3. CASE k \in {Key("ifaces", "sum", {f}, {f}) : f \in Fields("ifaces")}
    BY <1>4, <2>1, <2>3 DEF Key, Areas
  <2>4. CASE k = Key("stack", "share", {"retrans"}, {"out", "retrans"})
    BY <1>1, <1>4, <2>4 DEF Key, Areas, Fields
  <2>5. CASE k = Key("stack", "sum", {"resets"}, {"resets"})
    BY <1>1, <1>4, <2>5 DEF Key, Areas, Fields
  <2>6. CASE k = Key("listen", "sum", {"drops"}, {"drops"})
    BY <1>1, <1>4, <2>6 DEF Key, Areas, Fields
  <2> QED
    BY <2>2, <2>3, <2>4, <2>5, <2>6
<1> QED
  BY <1>0, <1>2, <1>3, <1>4

(* What one reading shows now is sound. *)
LEMMA FreshIsSound ==
  ASSUME HostInv, NEW failing
  PROVE  \A still : SoundReading(Reading(failing), Areas, now, attached, veterans, counters, done, still)
<1> DEFINE r == Reading(failing)
<1>1. r.at = now /\ r.truth = done
  BY DEF Reading
<1>2. ASSUME NEW a \in Areas, r.of[a] # None
      PROVE  r.of[a] = [d \in Counted(a) |-> counters[a][d]]
  BY <1>2 DEF Reading
<1>3. ASSUME NEW a \in Areas, NEW b, r.of[a] # None
      PROVE  Sound(a, r.of[a], done[a], attached, veterans, counters[a], done[a], b)
  <2>1. DOMAIN r.of[a] = Counted(a) /\ \A d \in Counted(a) : r.of[a][d] = counters[a][d]
    BY <1>2, <1>3
  <2>2. Counted(a) \subseteq Devices(a) /\ Devices(a) \subseteq All(a)
    BY DEF HostInv, Counted, Physical, Devices, All
  <2>3. /\ \A d \in Devices(a), f \in Fields(a) : counters[a][d][f] \in Nat
        /\ \A d \in All(a), f \in Fields(a) : done[a][d][f] \in Nat
        /\ DOMAIN done[a] = All(a)
    BY DEF HostInv
  <2>4. Counted(a) \subseteq (IF a \in Many THEN veterans \ Stacked ELSE {"host"})
    BY DEF HostInv, Counted, Physical, Devices
  <2> HIDE DEF r
  <2>5. ASSUME NEW d \in DOMAIN r.of[a], NEW f \in Fields(a)
        PROVE  /\ r.of[a][d][f] = counters[a][d][f] /\ r.of[a][d][f] \in Nat /\ done[a][d][f] \in Nat
    BY <2>1, <2>2, <2>3
  <2>6. DOMAIN r.of[a] \subseteq DOMAIN done[a]
    BY <2>1, <2>2, <2>3
  <2> QED
    BY <2>1, <2>4, <2>5, <2>6 DEF Sound
<1> HIDE DEF r
<1>4. now \in Nat
  BY DEF HostInv
<1> QED
  BY <1>1, <1>3, <1>4 DEF SoundReading, r

-----------------------------------------------------------------------------
(* A collection.                                                           *)

(* What the counters of a baseline grew by is no more than what was done,  *)
(* and the same if they are undisturbed.                                   *)
LEMMA Compared ==
  ASSUME HostInv, NEW prev, Stands(prev), NEW failing, NEW a \in Areas,
         prev.of[a] # None, Reading(failing).of[a] # None
  PROVE  LET cur == Reading(failing)  p == prev.of[a]  c == cur.of[a]  devs == Common(p, c) IN
         /\ IsFiniteSet(devs) /\ devs \cap Stacked = {}
         /\ cur.at = now /\ prev.at \in Nat /\ now \in Nat
         /\ \A d \in devs, f \in Fields(a) :
              /\ Increase(p, c, d, f) \in Int /\ (c[d][f] < Was(p, d, f) <=> Increase(p, c, d, f) < 0)
              /\ Increase(prev.truth[a], cur.truth[a], d, f) \in Nat
              /\ Increase(p, c, d, f) <= Increase(prev.truth[a], cur.truth[a], d, f)
              /\ a \in calm => Increase(p, c, d, f) = Increase(prev.truth[a], cur.truth[a], d, f)
<1> DEFINE cur == Reading(failing)
           p == prev.of[a]
           c == cur.of[a]
           devs == Common(p, c)
           truth == prev.truth[a]
<1>1. cur.at = now /\ cur.truth = done /\ c = [d \in Counted(a) |-> counters[a][d]]
  BY DEF Reading
<1>2. prev.at \in Nat /\ now \in Nat
  BY DEF Stands, SoundReading, HostInv
<1>3. Sound(a, p, truth, attached, veterans, counters[a], done[a], a \in calm)
  BY DEF Stands, SoundReading
<1>4. /\ Counted(a) \subseteq Devices(a) /\ Counted(a) \cap Stacked = {}
      /\ Devices(a) = (IF a \in Many THEN attached ELSE {"host"})
      /\ Devices(a) \subseteq All(a) /\ IsFiniteSet(Devices(a))
  <2>1. "host" \notin Stacked /\ attached \subseteq Names /\ IsFiniteSet(Names)
    BY RatesAssumption DEF HostInv
  <2>2. IsFiniteSet({"host"}) /\ IsFiniteSet(attached)
    BY <2>1, FS_Singleton, FS_Subset
  <2> QED
    BY <2>1, <2>2 DEF Counted, Physical, Devices, All
<1>5. /\ \A d \in Devices(a), f \in Fields(a) : counters[a][d][f] \in Nat
      /\ \A d \in All(a), f \in Fields(a) : done[a][d][f] \in Nat
      /\ DOMAIN done[a] = All(a)
  BY DEF HostInv
<1>6. devs = DOMAIN p \cap Counted(a)
  BY <1>1 DEF Common
<1>7. IsFiniteSet(devs) /\ devs \cap Stacked = {}
  <2> HIDE DEF devs
  <2>1. devs \subseteq Devices(a) /\ devs \cap Stacked = {}
    BY <1>4, <1>6
  <2> QED
    BY <1>4, <2>1, FS_Subset
<1>8. ASSUME NEW d \in devs, NEW f \in Fields(a)
      PROVE  /\ c[d][f] = counters[a][d][f] /\ cur.truth[a][d][f] = done[a][d][f]
             /\ Was(p, d, f) = p[d][f] /\ Was(truth, d, f) = truth[d][f]
             /\ counters[a][d][f] \in Nat /\ done[a][d][f] \in Nat /\ p[d][f] \in Nat /\ truth[d][f] \in Nat
             /\ truth[d][f] <= done[a][d][f]
             /\ counters[a][d][f] + truth[d][f] <= done[a][d][f] + p[d][f]
             /\ a \in calm => counters[a][d][f] + truth[d][f] = done[a][d][f] + p[d][f]
  <2>1. d \in DOMAIN p /\ d \in Counted(a) /\ d \in Devices(a) /\ d \in All(a)
    BY <1>4, <1>6, <1>8
  <2>2. c[d] = counters[a][d] /\ cur.truth = done
    BY <1>1, <2>1
  <2> HIDE DEF cur, p, c, devs, truth
  <2>3. d \in DOMAIN truth
    BY <1>3, <2>1 DEF Sound
  <2> QED
    BY <1>3, <1>4, <1>5, <2>1, <2>2, <2>3 DEF Sound, Was
<1>9. ASSUME NEW d \in devs, NEW f \in Fields(a)
      PROVE  /\ Increase(p, c, d, f) \in Int /\ (c[d][f] < Was(p, d, f) <=> Increase(p, c, d, f) < 0)
             /\ Increase(truth, cur.truth[a], d, f) \in Nat
             /\ Increase(p, c, d, f) <= Increase(truth, cur.truth[a], d, f)
             /\ a \in calm => Increase(p, c, d, f) = Increase(truth, cur.truth[a], d, f)
  <2> HIDE DEF cur, p, c, devs, truth
  <2> QED
    BY <1>8, <1>9 DEF Increase
<1> HIDE DEF cur, p, c, devs, truth
<1> QED
  BY <1>1, <1>2, <1>7, <1>9 DEF cur, p, c, devs, truth

(* What RatesTrue says of one value. *)
True(v, prev, cur) ==
  LET k == v.key  p == prev.of[k.area]  c == cur.of[k.area]  devs == Common(p, c)
      really(fields) == Amount(k.how, prev.truth[k.area], cur.truth[k.area], devs, fields) IN
  /\ devs # {} /\ devs \cap Stacked = {} /\ v.part >= 0
  /\ k.how = "share" => v.part <= v.whole /\ v.whole > 0
  /\ k.how # "share" => cur.at > prev.at /\ v.part <= really(k.part)
  /\ k.area \in calm => v.part = really(k.part) /\ v.whole = really(k.whole)

LEMMA PublishedTrue ==
  ASSUME HostInv, NEW prev, Stands(prev), NEW failing, NEW v \in Published(prev, Reading(failing))
  PROVE  True(v, prev, Reading(failing))
<1> DEFINE cur == Reading(failing)
<1>1. PICK k \in Keys :
        /\ Comparable(k, prev, cur) /\ ~ Backwards(prev.of[k.area], cur.of[k.area], k.whole)
        /\ module = "cpu" \/ cur.at > prev.at
        /\ k.how = "share" => Value(k, prev, cur).whole > 0
        /\ v = Value(k, prev, cur)
  BY DEF Published
<1> DEFINE p == prev.of[k.area]
           c == cur.of[k.area]
           devs == Common(p, c)
           w == prev.truth[k.area]
           i == cur.truth[k.area]
<1>2. /\ k.area \in Areas /\ k.part \subseteq k.whole /\ k.part # {}
      /\ k.whole \subseteq Fields(k.area) /\ IsFiniteSet(k.whole) /\ IsFiniteSet(k.part)
      /\ module = "cpu" => k.how = "share"
  BY KeyFacts DEF HostInv
<1>3. prev.of[k.area] # None /\ cur.of[k.area] # None /\ devs # {}
  BY <1>1 DEF Comparable
<1>4. /\ IsFiniteSet(devs) /\ devs \cap Stacked = {}
      /\ cur.at = now /\ prev.at \in Nat /\ now \in Nat
      /\ \A d \in devs, f \in Fields(k.area) :
           /\ Increase(p, c, d, f) \in Int /\ (c[d][f] < Was(p, d, f) <=> Increase(p, c, d, f) < 0)
           /\ Increase(w, i, d, f) \in Nat
           /\ Increase(p, c, d, f) <= Increase(w, i, d, f)
           /\ k.area \in calm => Increase(p, c, d, f) = Increase(w, i, d, f)
  <2>1. k.area \in Areas /\ prev.of[k.area] # None /\ Reading(failing).of[k.area] # None
    BY <1>2, <1>3
  <2> QED
    BY <2>1, Compared
<1>5. \A d \in devs, f \in k.whole : ~ (c[d][f] < Was(p, d, f))
  BY <1>1 DEF Backwards
<1>6. /\ v.key = k
      /\ v.part = Amount(k.how, p, c, devs, k.part) /\ v.whole = Amount(k.how, p, c, devs, k.whole)
      /\ k.how = "share" => v.whole > 0
  BY <1>1 DEF Value
<1>7. module = "cpu" \/ cur.at > prev.at
  BY <1>1
<1> HIDE DEF cur, p, c, devs, w, i
<1>8. \A d \in devs, f \in k.whole : Increase(p, c, d, f) \in Nat
  BY <1>2, <1>4, <1>5
<1>9. /\ v.part \in Nat /\ v.part <= Amount(k.how, w, i, devs, k.part)
  <2>1. \A d \in devs, f \in k.part :
          /\ Increase(p, c, d, f) \in Nat /\ Increase(w, i, d, f) \in Int
          /\ Increase(p, c, d, f) <= Increase(w, i, d, f)
    BY <1>2, <1>4, <1>8
  <2> QED
    BY <1>2, <1>3, <1>4, <1>6, <2>1, AmountLess
<1>10. k.how = "share" => v.part <= v.whole
  <2>1. Total(p, c, devs, k.part) <= Total(p, c, devs, k.whole)
    BY <1>2, <1>4, <1>8, TotalPart
  <2> QED
    BY <1>6, <2>1 DEF Amount
<1>11. k.area \in calm => /\ v.part = Amount(k.how, w, i, devs, k.part)
                          /\ v.whole = Amount(k.how, w, i, devs, k.whole)
  <2> SUFFICES ASSUME k.area \in calm PROVE /\ v.part = Amount(k.how, w, i, devs, k.part)
                                             /\ v.whole = Amount(k.how, w, i, devs, k.whole)
    OBVIOUS
  <2>1. \A d \in devs, f \in k.whole : Increase(p, c, d, f) \in Nat /\ Increase(p, c, d, f) = Increase(w, i, d, f)
    BY <1>2, <1>4, <1>8
  <2>2. k.whole # {} /\ \A d \in devs, f \in k.part : Increase(p, c, d, f) \in Nat /\ Increase(p, c, d, f) = Increase(w, i, d, f)
    BY <1>2, <2>1
  <2> QED
    BY <1>2, <1>3, <1>4, <1>6, <2>1, <2>2, AmountSame
<1>12. k.how # "share" => cur.at > prev.at
  BY <1>2, <1>7
<1> QED
  BY <1>3, <1>4, <1>6, <1>9, <1>10, <1>11, <1>12 DEF True, cur, p, c, devs, w, i

-----------------------------------------------------------------------------
(* The steps.                                                              *)

(* A reading that stays is as sound in the next state. *)
StandsNext(r) ==
  SoundReading(r, Areas', now', attached', veterans', counters', done', calm')

(* What a step may do to a counter that a reading shows: it grows by no    *)
(* more than is done, by as much if it is undisturbed, or counts anew.     *)
Follows(a, d, f) ==
  /\ counters'[a][d][f] \in Nat
  /\ \/ /\ d \in Devices(a)
        /\ counters'[a][d][f] + done[a][d][f] <= done'[a][d][f] + counters[a][d][f]
        /\ a \in calm' => counters'[a][d][f] + done[a][d][f] = done'[a][d][f] + counters[a][d][f]
     \/ counters'[a][d][f] = 0 /\ a \notin calm'

LEMMA StandsOn ==
  ASSUME HostInv, Areas' = Areas, now' \in Nat, now <= now',
         veterans \subseteq veterans', calm' \cap Areas \subseteq calm,
         \A a \in Areas : \A d \in All(a), f \in Fields(a) :
            done'[a][d][f] \in Nat /\ done[a][d][f] <= done'[a][d][f],
         \A a \in Areas :
            \A d \in IF a \in Many THEN attached' \cap (veterans \ Stacked) ELSE {"host"}, f \in Fields(a) :
               Follows(a, d, f)
  PROVE  \A r : Stands(r) => StandsNext(r)
<1> SUFFICES ASSUME NEW r, Stands(r) PROVE StandsNext(r)
  OBVIOUS
<1>1. r.at \in Nat /\ r.at <= now'
  BY DEF Stands, SoundReading, HostInv
<1>2. ASSUME NEW a \in Areas, r.of[a] # None
      PROVE  Sound(a, r.of[a], r.truth[a], attached', veterans', counters'[a], done'[a], a \in calm')
  <2> DEFINE of == r.of[a]
             truth == r.truth[a]
             use == IF a \in Many THEN attached' ELSE {"host"}
  <2>1. Sound(a, of, truth, attached, veterans, counters[a], done[a], a \in calm)
    BY <1>2 DEF Stands, SoundReading
  <2> HIDE DEF of, truth, use
  <2>2. /\ DOMAIN of \subseteq (IF a \in Many THEN veterans \ Stacked ELSE {"host"})
        /\ DOMAIN of \subseteq DOMAIN truth
    BY <2>1 DEF Sound
  <2>3. ASSUME NEW d \in DOMAIN of, NEW f \in Fields(a)
        PROVE  /\ of[d][f] \in Nat /\ truth[d][f] \in Nat
               /\ truth[d][f] <= done'[a][d][f]
               /\ d \in use =>
                    /\ counters'[a][d][f] + truth[d][f] <= done'[a][d][f] + of[d][f]
                    /\ a \in calm' => counters'[a][d][f] + truth[d][f] = done'[a][d][f] + of[d][f]
    <3>1. d \in All(a)
      BY <2>2, <2>3 DEF All, HostInv
    <3>2. /\ done[a][d][f] \in Nat /\ done'[a][d][f] \in Nat /\ done[a][d][f] <= done'[a][d][f]
      BY <3>1 DEF HostInv
    <3>3. /\ of[d][f] \in Nat /\ truth[d][f] \in Nat /\ truth[d][f] <= done[a][d][f]
          /\ d \in Devices(a) =>
               /\ counters[a][d][f] + truth[d][f] <= done[a][d][f] + of[d][f]
               /\ a \in calm => counters[a][d][f] + truth[d][f] = done[a][d][f] + of[d][f]
      BY <2>1 DEF Sound, Devices
    <3>4. d \in use => Follows(a, d, f)
      BY <2>2 DEF use
    <3>5. d \in Devices(a) => counters[a][d][f] \in Nat
      BY DEF HostInv
    <3>6. a \in calm' => a \in calm
      OBVIOUS
    <3>7. CASE d \in use
      <4>1. Follows(a, d, f)
        BY <3>4, <3>7
      <4>2. CASE counters'[a][d][f] = 0 /\ a \notin calm'
        BY <3>2, <3>3, <4>2
      <4>3. CASE /\ d \in Devices(a)
                 /\ counters'[a][d][f] + done[a][d][f] <= done'[a][d][f] + counters[a][d][f]
                 /\ a \in calm' => counters'[a][d][f] + done[a][d][f] = done'[a][d][f] + counters[a][d][f]
        <5>1. counters'[a][d][f] \in Nat /\ counters[a][d][f] \in Nat
          BY <3>5, <4>1, <4>3 DEF Follows
        <5> QED
          BY <3>2, <3>3, <3>6, <4>3, <5>1
      <4> QED
        BY <4>1, <4>2, <4>3 DEF Follows
    <3> QED
      BY <3>2, <3>3, <3>7
  <2>4. DOMAIN of \subseteq (IF a \in Many THEN veterans' \ Stacked ELSE {"host"})
    BY <2>2
  <2> QED
    BY <2>2, <2>3, <2>4 DEF Sound, of, truth, use
<1> QED
  BY <1>1, <1>2 DEF StandsNext, SoundReading

LEMMA SameHost ==
  ASSUME HostInv, UNCHANGED <<module, hostVars>>
  PROVE  HostInv' /\ Areas' = Areas
BY DEF HostInv, hostVars, Areas, Devices, All

(* A step of the module leaves a reading as it is while the host rests. *)
LEMMA StandsStill ==
  ASSUME HostInv, UNCHANGED <<module, hostVars, calm>>
  PROVE  \A r : Stands(r) => StandsNext(r)
BY SameHost DEF Stands, StandsNext, hostVars

LEMMA FreshStands ==
  ASSUME HostInv, UNCHANGED <<module, hostVars>>, NEW failing
  PROVE  StandsNext(Reading(failing))
<1>1. SoundReading(Reading(failing), Areas, now, attached, veterans, counters, done, calm')
  BY FreshIsSound
<1>2. /\ Areas' = Areas /\ now' = now /\ attached' = attached /\ veterans' = veterans
      /\ counters' = counters /\ done' = done
  BY SameHost DEF hostVars
<1> QED
  BY <1>1, <1>2 DEF StandsNext

LEMMA TickKeeps ==
  ASSUME HostInv, Tick
  PROVE  HostInv' /\ \A r : Stands(r) => StandsNext(r)
<1>1. /\ now' = now + 1 /\ module' = module /\ attached' = attached /\ veterans' = veterans
      /\ counters' = counters /\ done' = done /\ calm' = calm
  BY DEF Tick, Elsewhere
<1>2. Areas' = Areas /\ now' \in Nat /\ now <= now'
  BY <1>1 DEF Areas, HostInv
<1>3. HostInv'
  BY <1>1, <1>2 DEF HostInv, Devices, All
<1>4. ASSUME NEW r, Stands(r) PROVE StandsNext(r)
  BY <1>1, <1>2, <1>4 DEF Stands, StandsNext, SoundReading, HostInv
<1> QED
  BY <1>3, <1>4

LEMMA RestartsKeeps ==
  ASSUME HostInv, Restarts
  PROVE  HostInv' /\ \A r : Stands(r) => StandsNext(r)
<1>1. PICK area \in Areas : \E d \in Devices(area), f \in Fields(area) : \E v \in 0 .. MaxWork :
        /\ v < counters[area][d][f]
        /\ counters' = [counters EXCEPT ![area][d][f] = v]
        /\ calm' = calm \ {area}
  BY DEF Restarts
<1>2. PICK e \in Devices(area), g \in Fields(area), v \in 0 .. MaxWork :
        /\ v < counters[area][e][g]
        /\ counters' = [counters EXCEPT ![area][e][g] = v]
        /\ calm' = calm \ {area}
  BY <1>1
<1>3. /\ now' = now /\ module' = module /\ attached' = attached /\ veterans' = veterans /\ done' = done
  BY DEF Restarts, Elsewhere
<1>4. Areas' = Areas /\ now' \in Nat /\ now <= now' /\ v \in Nat
  BY <1>3 DEF Areas, HostInv
<1>5. DOMAIN counters' = Areas /\ \A a \in Areas : a # area => counters'[a] = counters[a]
  BY <1>2 DEF HostInv
<1>6. counters[area] \in [Devices(area) -> [Fields(area) -> Nat]]
  BY DEF HostInv
<1>7. counters'[area] = [counters[area] EXCEPT ![e] = [counters[area][e] EXCEPT ![g] = v]]
  BY <1>2 DEF HostInv
<1>8. counters'[area] \in [Devices(area) -> [Fields(area) -> Nat]]
  BY <1>4, <1>6, <1>7
<1>9. ASSUME NEW d \in Devices(area), NEW f \in Fields(area)
      PROVE  counters'[area][d][f] <= counters[area][d][f]
  <2>1. CASE d = e /\ f = g
    BY <1>2, <1>4, <1>6, <1>7, <2>1
  <2>2. CASE d # e \/ f # g
    BY <1>6, <1>7, <2>2
  <2> QED
    BY <2>1, <2>2
<1>10. HostInv'
  BY <1>3, <1>4, <1>5, <1>8 DEF HostInv, Devices, All
<1>11. ASSUME NEW a \in Areas,
              NEW d \in IF a \in Many THEN attached' \cap (veterans \ Stacked) ELSE {"host"}, NEW f \in Fields(a)
       PROVE  Follows(a, d, f)
  <2>1. d \in Devices(a) /\ d \in All(a)
    BY <1>3 DEF Devices, All, HostInv
  <2>2. counters[a][d][f] \in Nat /\ counters'[a][d][f] \in Nat /\ done[a][d][f] \in Nat
    BY <1>5, <1>8, <2>1 DEF HostInv
  <2>3. CASE a = area
    BY <1>2, <1>3, <1>9, <2>1, <2>2, <2>3 DEF Follows
  <2>4. CASE a # area
    BY <1>3, <1>5, <2>1, <2>2, <2>4 DEF Follows
  <2> QED
    BY <2>3, <2>4
<1>12. \A a \in Areas : \A d \in All(a), f \in Fields(a) : done'[a][d][f] \in Nat /\ done[a][d][f] <= done'[a][d][f]
  BY <1>3 DEF HostInv
<1>13. \A r : Stands(r) => StandsNext(r)
  BY <1>2, <1>3, <1>4, <1>11, <1>12, StandsOn
<1> QED
  BY <1>10, <1>13

LEMMA DetachKeeps ==
  ASSUME HostInv, NEW gone \in Names, Detach(gone)
  PROVE  HostInv' /\ \A r : Stands(r) => StandsNext(r)
<1>1. /\ attached' = attached \ {gone} /\ calm' = calm
      /\ counters' = [area \in Areas |->
           IF area \in Many THEN [e \in attached' |-> counters[area][e]] ELSE counters[area]]
      /\ now' = now /\ module' = module /\ veterans' = veterans /\ done' = done
  BY DEF Detach, Elsewhere
<1>2. Areas' = Areas /\ now' \in Nat /\ now <= now'
  BY <1>1 DEF Areas, HostInv
<1>3. DOMAIN counters' = Areas
  BY <1>1
<1>4. ASSUME NEW a \in Areas
      PROVE  /\ counters'[a] \in [Devices(a)' -> [Fields(a) -> Nat]]
             /\ \A d \in Devices(a)' : d \in Devices(a) /\ counters'[a][d] = counters[a][d]
  <2>1. counters[a] \in [Devices(a) -> [Fields(a) -> Nat]]
    BY DEF HostInv
  <2>2. CASE a \in Many
    <3>1. Devices(a)' = attached' /\ Devices(a) = attached
      BY <2>2 DEF Devices, Many
    <3>2. counters'[a] = [e \in attached' |-> counters[a][e]]
      BY <1>1, <2>2
    <3> QED
      BY <1>1, <2>1, <3>1, <3>2
  <2>3. CASE a \notin Many
    BY <1>1, <2>1, <2>3 DEF Devices, Many
  <2> QED
    BY <2>2, <2>3
<1>5. HostInv'
  BY <1>1, <1>2, <1>3, <1>4 DEF HostInv, All, Many
<1>6. ASSUME NEW a \in Areas,
             NEW d \in IF a \in Many THEN attached' \cap (veterans \ Stacked) ELSE {"host"}, NEW f \in Fields(a)
      PROVE  Follows(a, d, f)
  <2>1. d \in Devices(a)' /\ d \in All(a)
    BY DEF Devices, All, Many, HostInv
  <2>2. d \in Devices(a) /\ counters'[a][d] = counters[a][d]
    BY <1>4, <2>1
  <2>3. counters[a][d][f] \in Nat /\ done[a][d][f] \in Nat
    BY <2>1, <2>2 DEF HostInv
  <2> QED
    BY <1>1, <2>2, <2>3 DEF Follows
<1>7. \A a \in Areas : \A d \in All(a), f \in Fields(a) : done'[a][d][f] \in Nat /\ done[a][d][f] <= done'[a][d][f]
  BY <1>1 DEF HostInv
<1>8. \A r : Stands(r) => StandsNext(r)
  BY <1>1, <1>2, <1>6, <1>7, StandsOn
<1> QED
  BY <1>5, <1>8

LEMMA AttachKeeps ==
  ASSUME HostInv, NEW new \in Names, Attach(new)
  PROVE  HostInv' /\ \A r : Stands(r) => StandsNext(r)
<1>1. PICK start \in IF new \in veterans THEN {0} ELSE Lifetimes :
        counters' = [area \in Areas |->
          IF area \in Many
          THEN [e \in attached' |-> IF e = new THEN [f \in Fields(area) |-> start] ELSE counters[area][e]]
          ELSE counters[area]]
  BY DEF Attach
<1>2. /\ new \notin attached /\ attached' = attached \cup {new} /\ veterans' = veterans \cup {new}
      /\ calm' = IF new \in veterans THEN calm \ Many ELSE calm
      /\ now' = now /\ module' = module /\ done' = done
  BY DEF Attach, Elsewhere
<1>3. Areas' = Areas /\ now' \in Nat /\ now <= now' /\ start \in Nat /\ (new \in veterans => start = 0)
  BY <1>1, <1>2, RatesAssumption DEF Areas, HostInv
<1>4. DOMAIN counters' = Areas
  BY <1>1
<1>5. ASSUME NEW a \in Areas
      PROVE  /\ counters'[a] \in [Devices(a)' -> [Fields(a) -> Nat]]
             /\ \A d \in Devices(a)', f \in Fields(a) :
                  \/ d \in Devices(a) /\ counters'[a][d] = counters[a][d]
                  \/ a \in Many /\ d = new /\ counters'[a][d][f] = start
  <2>1. counters[a] \in [Devices(a) -> [Fields(a) -> Nat]]
    BY DEF HostInv
  <2>2. CASE a \in Many
    <3>1. Devices(a)' = attached' /\ Devices(a) = attached
      BY <2>2 DEF Devices, Many
    <3>2. counters'[a] = [e \in attached' |-> IF e = new THEN [f \in Fields(a) |-> start] ELSE counters[a][e]]
      BY <1>1, <2>2
    <3>3. [f \in Fields(a) |-> start] \in [Fields(a) -> Nat]
      BY <1>3
    <3>4. ASSUME NEW d \in attached'
          PROVE  /\ counters'[a][d] \in [Fields(a) -> Nat]
                 /\ d # new => d \in attached /\ counters'[a][d] = counters[a][d]
                 /\ d = new => \A f \in Fields(a) : counters'[a][d][f] = start
      BY <1>2, <2>1, <3>1, <3>2, <3>3
    <3>5. counters'[a] \in [attached' -> [Fields(a) -> Nat]]
      BY <3>2, <3>4
    <3> QED
      BY <2>2, <3>1, <3>4, <3>5
  <2>3. CASE a \notin Many
    BY <1>1, <2>1, <2>3 DEF Devices, Many
  <2> QED
    BY <2>2, <2>3
<1>6. HostInv'
  <2>1. attached' \subseteq veterans' /\ veterans' \subseteq Names
    BY <1>2 DEF HostInv
  <2> QED
    BY <1>2, <1>3, <1>4, <1>5, <2>1 DEF HostInv, All, Many
<1>7. ASSUME NEW a \in Areas,
             NEW d \in IF a \in Many THEN attached' \cap (veterans \ Stacked) ELSE {"host"}, NEW f \in Fields(a)
      PROVE  Follows(a, d, f)
  <2>1. d \in Devices(a)' /\ d \in All(a)
    BY DEF Devices, All, Many, HostInv
  <2>2. counters'[a][d][f] \in Nat /\ done[a][d][f] \in Nat
    BY <1>5, <2>1 DEF HostInv
  <2>3. CASE d \in Devices(a) /\ counters'[a][d] = counters[a][d]
    BY <1>2, <2>2, <2>3 DEF Follows
  <2>4. CASE a \in Many /\ d = new /\ counters'[a][d][f] = start
    <3>1. new \in veterans
      BY <2>4
    <3> QED
      BY <1>2, <1>3, <2>2, <2>4, <3>1 DEF Follows
  <2> QED
    BY <1>5, <2>1, <2>3, <2>4
<1>8. \A a \in Areas : \A d \in All(a), f \in Fields(a) : done'[a][d][f] \in Nat /\ done[a][d][f] <= done'[a][d][f]
  BY <1>2 DEF HostInv
<1>9. \A r : Stands(r) => StandsNext(r)
  <2>1. veterans \subseteq veterans' /\ calm' \cap Areas \subseteq calm
    BY <1>2
  <2> QED
    BY <1>3, <1>7, <1>8, <2>1, StandsOn
<1> QED
  BY <1>6, <1>9

LEMMA WorkKeeps ==
  ASSUME HostInv, Work
  PROVE  HostInv' /\ \A r : Stands(r) => StandsNext(r)
<1>1. PICK area \in Areas : \E d \in Physical(area), f \in Fields(area) :
        /\ done' = [done EXCEPT ![area][d][f] = @ + 1]
        /\ counters' = [counters EXCEPT ![area] = [e \in Devices(area) |->
             IF e = d \/ (area \in Many /\ e \in Stacked)
             THEN [counters[area][e] EXCEPT ![f] = @ + 1] ELSE counters[area][e]]]
  BY DEF Work
<1>2. PICK w \in Physical(area), g \in Fields(area) :
        /\ done' = [done EXCEPT ![area][w][g] = @ + 1]
        /\ counters' = [counters EXCEPT ![area] = [e \in Devices(area) |->
             IF e = w \/ (area \in Many /\ e \in Stacked)
             THEN [counters[area][e] EXCEPT ![g] = @ + 1] ELSE counters[area][e]]]
  BY <1>1
<1>3. /\ now' = now /\ module' = module /\ attached' = attached /\ veterans' = veterans /\ calm' = calm
  BY DEF Work, Elsewhere
<1>4. Areas' = Areas /\ now' \in Nat /\ now <= now'
  BY <1>3 DEF Areas, HostInv
<1>5. w \in Devices(area) /\ w \in All(area)
  BY DEF Physical, Devices, All, HostInv
<1>6. /\ DOMAIN counters' = Areas /\ DOMAIN done' = Areas
      /\ \A a \in Areas : a # area => counters'[a] = counters[a] /\ done'[a] = done[a]
  BY <1>2 DEF HostInv
<1>7. /\ counters[area] \in [Devices(area) -> [Fields(area) -> Nat]]
      /\ done[area] \in [All(area) -> [Fields(area) -> Nat]]
  BY DEF HostInv
<1>8. done'[area] = [done[area] EXCEPT ![w] = [done[area][w] EXCEPT ![g] = done[area][w][g] + 1]]
  BY <1>2 DEF HostInv
<1>9. counters'[area] = [e \in Devices(area) |->
        IF e = w \/ (area \in Many /\ e \in Stacked)
        THEN [counters[area][e] EXCEPT ![g] = counters[area][e][g] + 1] ELSE counters[area][e]]
  <2> DEFINE new == [e \in Devices(area) |->
        IF e = w \/ (area \in Many /\ e \in Stacked)
        THEN [counters[area][e] EXCEPT ![g] = counters[area][e][g] + 1] ELSE counters[area][e]]
  <2>1. counters' = [counters EXCEPT ![area] = new]
    BY <1>2
  <2>2. area \in DOMAIN counters
    BY DEF HostInv
  <2>3. counters'[area] = new
    <3> HIDE DEF new
    <3> QED
      BY <2>1, <2>2
  <2> QED
    BY <2>3
<1>10. /\ done'[area] \in [All(area) -> [Fields(area) -> Nat]]
       /\ \A d \in All(area), f \in Fields(area) :
            done'[area][d][f] = IF d = w /\ f = g THEN done[area][d][f] + 1 ELSE done[area][d][f]
  BY <1>5, <1>7, <1>8
<1>11. ASSUME NEW d \in Devices(area)
       PROVE  /\ counters'[area][d] \in [Fields(area) -> Nat]
              /\ ~ (area \in Many /\ d \in Stacked) => \A f \in Fields(area) :
                   counters'[area][d][f] = IF d = w /\ f = g THEN counters[area][d][f] + 1 ELSE counters[area][d][f]
  <2>1. counters[area][d] \in [Fields(area) -> Nat]
    BY <1>7
  <2>2. CASE d = w \/ (area \in Many /\ d \in Stacked)
    <3>1. counters'[area][d] = [counters[area][d] EXCEPT ![g] = counters[area][d][g] + 1]
      BY <1>9, <2>2
    <3> QED
      BY <2>1, <2>2, <3>1
  <2>3. CASE ~ (d = w \/ (area \in Many /\ d \in Stacked))
    <3>1. counters'[area][d] = counters[area][d]
      BY <1>9, <2>3
    <3> QED
      BY <2>1, <2>3, <3>1
  <2> QED
    BY <2>2, <2>3
<1>12. counters'[area] \in [Devices(area) -> [Fields(area) -> Nat]]
  BY <1>9, <1>11
<1>13. HostInv'
  BY <1>3, <1>4, <1>6, <1>10, <1>12 DEF HostInv, Devices, All
<1>14. ASSUME NEW a \in Areas,
              NEW d \in IF a \in Many THEN attached' \cap (veterans \ Stacked) ELSE {"host"}, NEW f \in Fields(a)
       PROVE  Follows(a, d, f)
  <2>1. d \in Devices(a) /\ d \in All(a) /\ ~ (a \in Many /\ d \in Stacked)
    BY <1>3 DEF Devices, All, HostInv
  <2>2. counters[a][d][f] \in Nat /\ done[a][d][f] \in Nat
    BY <2>1 DEF HostInv
  <2>3. CASE a = area
    <3>1. /\ counters'[a][d][f] = IF d = w /\ f = g THEN counters[a][d][f] + 1 ELSE counters[a][d][f]
          /\ done'[a][d][f] = IF d = w /\ f = g THEN done[a][d][f] + 1 ELSE done[a][d][f]
      BY <1>10, <1>11, <2>1, <2>3
    <3> QED
      BY <2>1, <2>2, <3>1 DEF Follows
  <2>4. CASE a # area
    BY <1>6, <2>1, <2>2, <2>4 DEF Follows
  <2> QED
    BY <2>3, <2>4
<1>15. ASSUME NEW a \in Areas, NEW d \in All(a), NEW f \in Fields(a)
       PROVE  done'[a][d][f] \in Nat /\ done[a][d][f] <= done'[a][d][f]
  <2>1. done[a][d][f] \in Nat
    BY DEF HostInv
  <2> QED
    BY <1>6, <1>10, <2>1
<1>16. \A r : Stands(r) => StandsNext(r)
  BY <1>3, <1>4, <1>14, <1>15, StandsOn
<1> QED
  BY <1>13, <1>16

-----------------------------------------------------------------------------
(* What the behaviours of the specification satisfy.                       *)

LEMMA RatesStart == Init => RatesInv
<1> SUFFICES ASSUME Init PROVE RatesInv
  OBVIOUS
<1>1. attached \subseteq veterans /\ veterans \subseteq Names /\ now \in Nat /\ module \in Modules
  BY RatesAssumption DEF Init
<1>2. HostInv
  BY <1>1 DEF HostInv, Init, Zero
<1> QED
  BY <1>2 DEF RatesInv, Init

(* The steps outside a collection. *)
LEMMA HostKeeps ==
  ASSUME RatesInv, HostInv', \A r : Stands(r) => StandsNext(r), Elsewhere
  PROVE  RatesInv'
<1>1. last' = last /\ first' = first
  BY DEF Elsewhere
<1>2. last # None => StandsNext(last)
  BY DEF RatesInv
<1>3. first # None => StandsNext(first)
  BY DEF RatesInv
<1> QED
  BY <1>1, <1>2, <1>3 DEF RatesInv, StandsNext, Stands

(* The steps of a collection. *)
LEMMA ModuleKeeps ==
  ASSUME RatesInv, UNCHANGED <<module, hostVars>>,
         last' # None => StandsNext(last'), first' # None => StandsNext(first')
  PROVE  RatesInv'
BY SameHost DEF RatesInv, StandsNext, Stands

LEMMA RatesStep == RatesInv /\ [Next]_vars => RatesInv'
<1> SUFFICES ASSUME RatesInv, [Next]_vars PROVE RatesInv'
  OBVIOUS
<1>1. HostInv /\ (last # None => Stands(last)) /\ (first # None => Stands(first))
  BY DEF RatesInv
<1>2. CASE ReadFails
  BY <1>1, <1>2, StandsStill, ModuleKeeps DEF ReadFails
<1>3. CASE Collect
  <2>1. PICK failing : last' = Reading(failing) /\ first' = None /\ UNCHANGED <<module, hostVars>>
    BY <1>3 DEF Collect
  <2> QED
    BY <1>1, <2>1, FreshStands, ModuleKeeps
<1>4. CASE CollectUnprimed
  <2>1. PICK failing : last' = Reading(failing) /\ first' = None /\ UNCHANGED <<module, hostVars>>
    BY <1>4 DEF CollectUnprimed
  <2> QED
    BY <1>1, <2>1, FreshStands, ModuleKeeps
<1>5. CASE Prime
  <2>1. PICK failing : first' = Reading(failing) /\ last' = None /\ UNCHANGED <<module, hostVars>>
    BY <1>5 DEF Prime
  <2> QED
    BY <1>1, <2>1, FreshStands, ModuleKeeps
<1>6. CASE PauseCut
  BY <1>1, <1>6, StandsStill, ModuleKeeps DEF PauseCut
<1>7. CASE ReadAgain
  <2>1. PICK failing : last' = Reading(failing) /\ first' = None /\ UNCHANGED <<module, hostVars>>
    BY <1>7 DEF ReadAgain
  <2> QED
    BY <1>1, <2>1, FreshStands, ModuleKeeps
<1>8. CASE ReadAgainFails
  BY <1>1, <1>8, StandsStill, ModuleKeeps DEF ReadAgainFails
<1>9. CASE Work
  BY <1>1, <1>9, WorkKeeps, HostKeeps DEF Work
<1>10. CASE Restarts
  BY <1>1, <1>10, RestartsKeeps, HostKeeps DEF Restarts
<1>11. CASE Tick
  BY <1>1, <1>11, TickKeeps, HostKeeps DEF Tick
<1>12. CASE ProcessRestarts
  <2>1. HostInv'
    BY <1>1, <1>12 DEF ProcessRestarts, HostInv, Areas, Devices, All
  <2> QED
    BY <1>12, <2>1 DEF ProcessRestarts, RatesInv
<1>13. CASE \E d \in Names : Detach(d) \/ Attach(d)
  <2>1. PICK d \in Names : Detach(d) \/ Attach(d)
    BY <1>13
  <2>2. CASE Detach(d)
    BY <1>1, <2>2, DetachKeeps, HostKeeps DEF Detach
  <2>3. CASE Attach(d)
    BY <1>1, <2>3, AttachKeeps, HostKeeps DEF Attach
  <2> QED
    BY <2>1, <2>2, <2>3
<1>14. CASE UNCHANGED vars
  BY <1>1, <1>14, StandsStill, ModuleKeeps DEF vars, moduleVars
<1> QED
  BY <1>2, <1>3, <1>4, <1>5, <1>6, <1>7, <1>8, <1>9, <1>10, <1>11, <1>12, <1>13, <1>14 DEF Next

LEMMA RatesAlways == Spec => []RatesInv
BY RatesStart, RatesStep, PTL DEF Spec

(* A collection that publishes does so from the baseline and one reading. *)
LEMMA TrueStep == RatesInv /\ [Next]_vars => [ValuesTrue]_vars
<1> SUFFICES ASSUME RatesInv, Next, values' \notin {None, {}}, NEW v \in values'
             PROVE  LET k == v.key  devs == Common(Before.of[k.area], last'.of[k.area]) IN
                    /\ devs # {} /\ devs \cap Stacked = {} /\ v.part >= 0
                    /\ k.how = "share" => v.part <= v.whole /\ v.whole > 0
                    /\ k.how # "share" => last'.at > Before.at /\ v.part <= Really(k, devs, k.part)
                    /\ k.area \in calm => v.part = Really(k, devs, k.part) /\ v.whole = Really(k, devs, k.whole)
  BY DEF ValuesTrue
<1>1. HostInv /\ (last # None => Stands(last)) /\ (first # None => Stands(first))
  BY DEF RatesInv
<1>2. PICK failing : Stands(Before) /\ last' = Reading(failing) /\ v \in Published(Before, last')
  <2>1. CASE Collect
    <3>1. PICK failing : last' = Reading(failing) /\ values' = Published(last, last') /\ first = None /\ last # None
      BY <2>1 DEF Collect
    <3> QED
      BY <1>1, <3>1 DEF Before
  <2>2. CASE ReadAgain
    <3>1. PICK failing : last' = Reading(failing) /\ values' = Published(first, last') /\ first # None
      BY <2>2 DEF ReadAgain
    <3> QED
      BY <1>1, <3>1 DEF Before
  <2>3. ASSUME ~ Collect, ~ ReadAgain PROVE values' \in {None, {}}
    BY <2>3 DEF Next, ReadFails, CollectUnprimed, Prime, PauseCut, ReadAgainFails, Work, Restarts, Tick,
                ProcessRestarts, Detach, Attach, Elsewhere
  <2> QED
    BY <2>1, <2>2, <2>3
<1>3. True(v, Before, last')
  <2>1. v \in Published(Before, Reading(failing))
    BY <1>2
  <2>2. \A prev : Stands(prev) => \A u \in Published(prev, Reading(failing)) : True(u, prev, Reading(failing))
    BY <1>1, PublishedTrue
  <2> QED
    BY <1>2, <2>1, <2>2
<1> QED
  BY <1>3 DEF True, Really

(* ADR-0006, FR-013 to FR-015: a published rate is of work that was done   *)
(* between two whole readings, whatever happened to counters and devices.  *)
THEOREM RatesAreTrue == Spec => RatesTrue
BY RatesAlways, TrueStep, PTL DEF Spec, RatesTrue

-----------------------------------------------------------------------------
(* After a gap.                                                            *)

(* "No reading" can be told from one: None is not a function. *)
NoneApart == None # [x \in DOMAIN None |-> None[x]]

(* The baseline is the latest reading, and older than the time that has    *)
(* passed since.                                                           *)
LatestInv ==
  /\ Before = None => \A a \in Areas : seen[a] = {}
  /\ Before # None =>
       /\ passed => Before.at < now
       /\ \A a \in Areas : seen[a] # {} => Before.of[a] # None /\ DOMAIN Before.of[a] = seen[a]

LEMMA ReadingIsNoNone ==
  ASSUME NoneApart, NEW failing
  PROVE  /\ Reading(failing) # None
         /\ \A a \in Areas \ failing : /\ Reading(failing).of[a] # None
                                       /\ DOMAIN Reading(failing).of[a] = Physical(a)
<1> DEFINE r == Reading(failing)
<1>1. r # None
  <2>1. r = [x \in {"at", "truth", "of"} |-> r[x]] /\ DOMAIN r = {"at", "truth", "of"}
    BY DEF Reading
  <2> HIDE DEF r
  <2> QED
    BY <2>1 DEF NoneApart
<1>2. ASSUME NEW a \in Areas \ failing PROVE r.of[a] = [d \in Counted(a) |-> counters[a][d]]
  BY DEF Reading
<1>3. ASSUME NEW a \in Areas \ failing PROVE r.of[a] # None /\ DOMAIN r.of[a] = Physical(a)
  <2> DEFINE o == [d \in Counted(a) |-> counters[a][d]]
  <2>1. o = [x \in DOMAIN o |-> o[x]] /\ DOMAIN o = Physical(a)
    BY DEF Counted
  <2>2. r.of[a] = o
    BY <1>2
  <2> HIDE DEF o, r
  <2> QED
    BY <2>1, <2>2 DEF NoneApart
<1> QED
  BY <1>1, <1>3

(* After a reading the invariant holds of it. *)
LEMMA LatestOfReading ==
  ASSUME NoneApart, NEW failing, Before' = Reading(failing), Noted(failing), Areas' = Areas
  PROVE  LatestInv'
<1>1. Before' # None
  BY ReadingIsNoNone
<1>2. passed' = FALSE /\ seen' = [a \in Areas |-> IF a \in failing THEN {} ELSE Physical(a)]
  BY DEF Noted
<1>3. ASSUME NEW a \in Areas, seen'[a] # {} PROVE Before'.of[a] # None /\ DOMAIN Before'.of[a] = seen'[a]
  <2>1. a \in Areas \ failing /\ seen'[a] = Physical(a)
    BY <1>2, <1>3
  <2> QED
    BY <2>1, ReadingIsNoNone
<1> QED
  BY <1>1, <1>2, <1>3 DEF LatestInv

LEMMA LatestStep == NoneApart /\ RatesInv /\ LatestInv /\ [Next]_vars => LatestInv'
<1> SUFFICES ASSUME NoneApart, RatesInv, LatestInv, [Next]_vars PROVE LatestInv'
  OBVIOUS
<1>0. module' = module /\ Areas' = Areas
  BY DEF Next, vars, ReadFails, Collect, CollectUnprimed, Prime, PauseCut, ReadAgain, ReadAgainFails, Work,
         Restarts, Tick, ProcessRestarts, Detach, Attach, Elsewhere, Areas
<1>1. ASSUME UNCHANGED <<now, seen, passed>>, Before' = Before PROVE LatestInv'
  BY <1>0, <1>1 DEF LatestInv
<1>2. CASE ReadFails
  BY <1>1, <1>2 DEF ReadFails, hostVars, Before
<1>3. CASE Collect
  <2>1. PICK failing : last' = Reading(failing) /\ first' = None /\ Noted(failing)
    BY <1>3 DEF Collect
  <2> QED
    BY <1>0, <2>1, LatestOfReading DEF Before
<1>4. CASE CollectUnprimed
  <2>1. PICK failing : last' = Reading(failing) /\ first' = None /\ Noted(failing)
    BY <1>4 DEF CollectUnprimed
  <2> QED
    BY <1>0, <2>1, LatestOfReading DEF Before
<1>5. CASE Prime
  <2>1. PICK failing : first' = Reading(failing) /\ Noted(failing)
    BY <1>5 DEF Prime
  <2>2. Before' = Reading(failing)
    BY <2>1, ReadingIsNoNone DEF Before
  <2> QED
    BY <1>0, <2>1, <2>2, LatestOfReading
<1>6. CASE PauseCut
  BY <1>1, <1>6 DEF PauseCut, hostVars, Before
<1>7. CASE ReadAgain
  <2>1. PICK failing : last' = Reading(failing) /\ first' = None /\ Noted(failing)
    BY <1>7 DEF ReadAgain
  <2> QED
    BY <1>0, <2>1, LatestOfReading DEF Before
<1>8. CASE ReadAgainFails
  BY <1>1, <1>8 DEF ReadAgainFails, hostVars, Before
<1>9. CASE Work
  BY <1>1, <1>9 DEF Work, Elsewhere, Before
<1>10. CASE Restarts
  BY <1>1, <1>10 DEF Restarts, Elsewhere, Before
<1>11. CASE Tick
  <2>1. now' = now + 1 /\ Before' = Before /\ seen' = seen
    BY <1>11 DEF Tick, Elsewhere, Before
  <2>2. Before # None => Stands(Before)
    BY DEF RatesInv, Before
  <2>3. Before # None => Before.at \in Nat /\ Before.at <= now /\ now \in Nat
    BY <2>2 DEF RatesInv, HostInv, Stands, SoundReading
  <2>4. Before # None => Before.at < now'
    BY <2>1, <2>3
  <2> QED
    BY <1>0, <2>1, <2>4 DEF LatestInv
<1>12. CASE ProcessRestarts
  BY <1>0, <1>12 DEF ProcessRestarts, LatestInv, Before
<1>13. CASE \E d \in Names : Detach(d) \/ Attach(d)
  BY <1>1, <1>13 DEF Detach, Attach, Elsewhere, Before
<1>14. CASE UNCHANGED vars
  BY <1>1, <1>14 DEF vars, hostVars, moduleVars, Before
<1> QED
  BY <1>2, <1>3, <1>4, <1>5, <1>6, <1>7, <1>8, <1>9, <1>10, <1>11, <1>12, <1>13, <1>14 DEF Next

LEMMA LatestAlways ==
  ASSUME NoneApart
  PROVE  Spec => []LatestInv
<1>1. Init => LatestInv
  BY DEF Init, LatestInv, Before
<1>2. RatesInv /\ LatestInv /\ [Next]_vars => LatestInv'
  BY LatestStep
<1> QED
  BY <1>1, <1>2, RatesAlways, PTL DEF Spec

(* A value that two readings of an undisturbed area allow is published. *)
LEMMA Resumed ==
  ASSUME HostInv, NEW prev, Stands(prev), NEW failing, NEW k \in Keys, k.area \in calm,
         prev.of[k.area] # None, Reading(failing).of[k.area] # None, prev.at < now,
         Common(prev.of[k.area], Reading(failing).of[k.area]) # {},
         k.how = "share" => Amount(k.how, prev.truth[k.area], Reading(failing).truth[k.area],
                                   Common(prev.of[k.area], Reading(failing).of[k.area]), k.whole) > 0
  PROVE  \E v \in Published(prev, Reading(failing)) : v.key = k
<1> DEFINE cur == Reading(failing)
           p == prev.of[k.area]
           c == cur.of[k.area]
           devs == Common(p, c)
           w == prev.truth[k.area]
           i == cur.truth[k.area]
<1>1. /\ k.area \in Areas /\ k.part \subseteq k.whole /\ k.part # {}
      /\ k.whole \subseteq Fields(k.area) /\ IsFiniteSet(k.whole)
  BY KeyFacts DEF HostInv
<1>2. /\ IsFiniteSet(devs) /\ cur.at = now
      /\ \A d \in devs, f \in Fields(k.area) :
           /\ Increase(p, c, d, f) \in Int /\ (c[d][f] < Was(p, d, f) <=> Increase(p, c, d, f) < 0)
           /\ Increase(w, i, d, f) \in Nat
           /\ k.area \in calm => Increase(p, c, d, f) = Increase(w, i, d, f)
  BY <1>1, Compared
<1>3. devs # {} /\ (k.how = "share" => Amount(k.how, w, i, devs, k.whole) > 0)
  OBVIOUS
<1>4. Comparable(k, prev, cur)
  BY DEF Comparable
<1>5. /\ Value(k, prev, cur).key = k
      /\ Value(k, prev, cur).whole = Amount(k.how, p, c, devs, k.whole)
  BY DEF Value
<1>6. cur.at > prev.at
  <2>1. prev.at \in Nat /\ now \in Nat
    BY DEF Stands, SoundReading, HostInv
  <2> QED
    BY <1>2, <2>1
<1>7. Backwards(p, c, k.whole) <=> \E d \in devs, f \in k.whole : c[d][f] < Was(p, d, f)
  BY DEF Backwards
<1> HIDE DEF cur, p, c, devs, w, i
<1>8. \A d \in devs, f \in k.whole :
        /\ Increase(p, c, d, f) \in Nat /\ Increase(p, c, d, f) = Increase(w, i, d, f)
        /\ ~ (c[d][f] < Was(p, d, f))
  BY <1>1, <1>2
<1>9. ~ Backwards(p, c, k.whole)
  BY <1>7, <1>8
<1>10. Amount(k.how, p, c, devs, k.whole) = Amount(k.how, w, i, devs, k.whole)
  BY <1>1, <1>2, <1>3, <1>8, AmountSame
<1>11. k.how = "share" => Value(k, prev, cur).whole > 0
  BY <1>3, <1>5, <1>10
<1>12. Value(k, prev, cur) \in Published(prev, cur)
  BY <1>4, <1>6, <1>9, <1>11 DEF Published, p, c
<1> QED
  BY <1>5, <1>12 DEF cur

LEMMA GapStep == NoneApart /\ RatesInv /\ LatestInv /\ [Next]_vars => [GapEnds]_vars
<1> SUFFICES ASSUME NoneApart, RatesInv, LatestInv, Next, values' # None, NEW k \in Keys,
                    k.area \in calm, passed, ~ passed', seen[k.area] \cap seen'[k.area] # {},
                    k.how = "share" => Before = None \/ Really(k, seen[k.area] \cap seen'[k.area], k.whole) > 0
             PROVE  \E v \in values' : v.key = k
  BY DEF GapEnds
<1>1. HostInv /\ (last # None => Stands(last)) /\ (first # None => Stands(first))
  BY DEF RatesInv
<1>2. k.area \in Areas
  BY <1>1, KeyFacts DEF HostInv
<1>3. /\ Before # None /\ Stands(Before) /\ Before.at < now
      /\ Before.of[k.area] # None /\ DOMAIN Before.of[k.area] = seen[k.area]
  BY <1>1, <1>2 DEF LatestInv, Before
<1>4. PICK failing : last' = Reading(failing) /\ values' = Published(Before, last') /\ Noted(failing)
  <2>1. CASE Collect
    BY <2>1 DEF Collect, Before
  <2>2. CASE ReadAgain
    BY <2>2 DEF ReadAgain, Before
  <2>3. ASSUME ~ Collect, ~ ReadAgain PROVE FALSE
    BY <1>3, <2>3 DEF Next, ReadFails, CollectUnprimed, Prime, PauseCut, ReadAgainFails, Work, Restarts, Tick,
                ProcessRestarts, Detach, Attach, Elsewhere, Before
  <2> QED
    BY <2>1, <2>2, <2>3
<1>5. k.area \notin failing /\ seen'[k.area] = Physical(k.area)
  BY <1>2, <1>4 DEF Noted
<1>6. Reading(failing).of[k.area] # None /\ DOMAIN Reading(failing).of[k.area] = seen'[k.area]
  BY <1>2, <1>5, ReadingIsNoNone
<1>7. Common(Before.of[k.area], Reading(failing).of[k.area]) = seen[k.area] \cap seen'[k.area]
  BY <1>3, <1>6 DEF Common
<1>8. k.how = "share" => Amount(k.how, Before.truth[k.area], Reading(failing).truth[k.area],
                                seen[k.area] \cap seen'[k.area], k.whole) > 0
  BY <1>3, <1>4 DEF Really
<1>9. \A prev : /\ Stands(prev) /\ prev.of[k.area] # None /\ prev.at < now
                /\ Common(prev.of[k.area], Reading(failing).of[k.area]) # {}
                /\ k.how = "share" => Amount(k.how, prev.truth[k.area], Reading(failing).truth[k.area],
                                   Common(prev.of[k.area], Reading(failing).of[k.area]), k.whole) > 0
                => \E v \in Published(prev, Reading(failing)) : v.key = k
  BY <1>1, <1>6, Resumed
<1> QED
  BY <1>3, <1>4, <1>7, <1>8, <1>9

(* FR-014 and FR-015: a disturbance costs a gap and no more.  After two    *)
(* readings of an area whose counters stayed every value is published,     *)
(* whatever was cut short or failed in between.                            *)
THEOREM RatesComeBack ==
  ASSUME NoneApart
  PROVE  Spec => RatesResume
<1>1. RatesInv /\ LatestInv /\ [Next]_vars => [GapEnds]_vars
  BY GapStep
<1> QED
  BY <1>1, RatesAlways, LatestAlways, PTL DEF Spec, RatesResume
=============================================================================
