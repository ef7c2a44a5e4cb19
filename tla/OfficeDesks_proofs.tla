-------------------------- MODULE OfficeDesks_proofs --------------------------
(***************************************************************************)
(* The inductive invariants of the desks of OfficeDesks, for every set of  *)
(* requests, documents, amounts and dates: each holds at the beginning, is *)
(* kept by every step of its desk, and implies what the desk promises.     *)
(* Office_proofs has the theorems of the office that follow.               *)
(***************************************************************************)
EXTENDS OfficeDesks, Functions, FiniteSetTheorems, WellFoundedInduction, TLAPS

-----------------------------------------------------------------------------
(* Sums.  SumFunctionOnSet picks one element after the other; that it does *)
(* not matter which follows by taking a smallest counterexample.           *)

(* Every set of naturals that is not empty has a least element.            *)
LEMMA LeastNat ==
  ASSUME NEW nats, nats \subseteq Nat, nats # {}
  PROVE  \E x \in nats : \A y \in nats : x <= y
<1> DEFINE less == {ss \in Nat \X Nat : ss[1] < ss[2]}
<1>1. IsWellFoundedOn(less, Nat)
  BY NatLessThanWellFounded DEF OpToRel
<1> HIDE DEF less
<1>2. \E x \in nats : \A y \in nats : ~(<<y, x>> \in less)
  BY <1>1, WFMin
<1>3. \A x, y \in Nat : ~(<<y, x>> \in less) => x <= y
  <2> SUFFICES ASSUME NEW x \in Nat, NEW y \in Nat, y < x
               PROVE  <<y, x>> \in less
    OBVIOUS
  <2>1. <<y, x>> \in Nat \X Nat /\ <<y, x>>[1] = y /\ <<y, x>>[2] = x
    OBVIOUS
  <2> QED
    BY <2>1 DEF less
<1> QED
  BY <1>2, <1>3

(* The sum of a function over a set, as the function over its subsets that *)
(* takes one element after the other.                                      *)
Pick(s) == CHOOSE x \in s : TRUE
SumStep(fun, set, g) ==
  [s \in SUBSET set |-> IF s = {} THEN 0 ELSE fun[Pick(s)] + g[s \ {Pick(s)}]]
SumIter(fun, set) == CHOOSE g : g = SumStep(fun, set, g)

LEMMA SumIsIter ==
  ASSUME NEW fun, NEW set
  PROVE  SumFunctionOnSet(fun, set) = SumIter(fun, set)[set]
BY DEF SumFunctionOnSet, FoldFunctionOnSet, MapThenFoldSet, SumIter, SumStep, Pick

LEMMA PickOne ==
  ASSUME NEW set, IsFiniteSet(set), NEW s \in SUBSET set, s # {}
  PROVE  /\ Pick(s) \in s /\ s \ {Pick(s)} \in SUBSET set
         /\ IsFiniteSet(s) /\ Cardinality(s) \in Nat /\ Cardinality(s) # 0
         /\ Cardinality(s \ {Pick(s)}) = Cardinality(s) - 1
<1>1. Pick(s) \in s
  BY DEF Pick
<1>2. IsFiniteSet(s)
  BY FS_Subset
<1> QED
  BY <1>1, <1>2, FS_RemoveElement, FS_CardinalityType, FS_EmptySet

LEMMA SumExists ==
  ASSUME NEW dom, NEW fun \in [dom -> Int], NEW set \in SUBSET dom, IsFiniteSet(set)
  PROVE  \E g : g = SumStep(fun, set, g)
<1> DEFINE Rhs(g, s) == IF s = {} THEN 0 ELSE fun[Pick(s)] + g[s \ {Pick(s)}]
           UpTo(g, n) == \A s \in SUBSET set : Cardinality(s) <= n => g[s] = Rhs(g, s)
           Bad == {n \in Nat : ~ \E g \in [SUBSET set -> Int] : UpTo(g, n)}
<1>0. \A s \in SUBSET set : IsFiniteSet(s) /\ Cardinality(s) \in Nat /\ (Cardinality(s) = 0 => s = {})
  BY FS_Subset, FS_CardinalityType, FS_EmptySet
<1>1. ASSUME NEW n \in Bad, \A y \in Bad : n <= y
      PROVE  FALSE
  <2>1. CASE n = 0
    <3>1. [s \in SUBSET set |-> 0] \in [SUBSET set -> Int]
      OBVIOUS
    <3>2. UpTo([s \in SUBSET set |-> 0], 0)
      BY <1>0
    <3> QED
      BY <1>1, <2>1, <3>1, <3>2
  <2>2. CASE n # 0
    <3>1. n - 1 \in Nat /\ n - 1 \notin Bad
      <4>1. n \in Nat
        BY <1>1
      <4> HIDE DEF Bad
      <4> QED
        BY <1>1, <2>2, <4>1
    <3>2. PICK g \in [SUBSET set -> Int] : UpTo(g, n - 1)
      BY <3>1
    <3> DEFINE h == [s \in SUBSET set |-> IF Cardinality(s) <= n - 1 THEN g[s] ELSE Rhs(g, s)]
    <3>3. ASSUME NEW s \in SUBSET set
          PROVE  /\ Rhs(g, s) \in Int
                 /\ Cardinality(s) <= n => h[s] = Rhs(h, s)
      <4>1. CASE s = {}
        <5>1. Cardinality(s) = 0
          BY <4>1, FS_EmptySet
        <5> QED
          BY <3>1, <3>2, <4>1, <5>1
      <4>2. CASE s # {}
        <5> DEFINE x == Pick(s)
        <5>1. /\ x \in s /\ x \in dom /\ s \ {x} \in SUBSET set /\ fun[x] \in Int
              /\ Cardinality(s) \in Nat /\ Cardinality(s \ {x}) = Cardinality(s) - 1
          BY <4>2, PickOne
        <5> HIDE DEF x
        <5>2. g[s \ {x}] \in Int /\ Rhs(g, s) = fun[x] + g[s \ {x}]
          BY <3>2, <4>2, <5>1 DEF x
        <5>3. Rhs(h, s) = fun[x] + h[s \ {x}]
          BY <4>2 DEF x
        <5>4. Cardinality(s) <= n => h[s \ {x}] = g[s \ {x}]
          BY <5>1
        <5>5. Cardinality(s) <= n => h[s] = fun[x] + g[s \ {x}]
          BY <3>1, <3>2, <5>1, <5>2
        <5> QED
          BY <5>1, <5>2, <5>3, <5>4, <5>5
      <4> QED
        BY <4>1, <4>2
    <3>4. h \in [SUBSET set -> Int]
      BY <3>3
    <3> HIDE DEF h
    <3>5. UpTo(h, n)
      BY <3>3
    <3> QED
      BY <1>1, <3>4, <3>5
  <2> QED
    BY <2>1, <2>2
<1>2. Bad = {}
  <2> SUFFICES ASSUME Bad # {}
               PROVE  FALSE
    OBVIOUS
  <2>1. Bad \subseteq Nat
    OBVIOUS
  <2> HIDE DEF Bad
  <2>2. \E n \in Bad : \A y \in Bad : n <= y
    BY <2>1, LeastNat
  <2> QED
    BY <1>1, <2>2
<1>3. Cardinality(set) \in Nat
  BY FS_CardinalityType
<1>4. PICK g \in [SUBSET set -> Int] : UpTo(g, Cardinality(set))
  BY <1>2, <1>3
<1>5. \A s \in SUBSET set : Cardinality(s) <= Cardinality(set)
  BY FS_Subset
<1>6. \A s \in SUBSET set : g[s] = Rhs(g, s)
  BY <1>4, <1>5
<1>7. g = SumStep(fun, set, g)
  BY <1>4, <1>6 DEF SumStep
<1> QED
  BY <1>7

(* It is the only one.                                                     *)
LEMMA SumUnique ==
  ASSUME NEW dom, NEW fun \in [dom -> Int], NEW set \in SUBSET dom, IsFiniteSet(set),
         NEW sub \in SUBSET set, NEW g, NEW h,
         g = SumStep(fun, set, g), h = SumStep(fun, sub, h)
  PROVE  \A s \in SUBSET sub : g[s] = h[s] /\ h[s] \in Int
<1> DEFINE Bad == {n \in Nat : \E s \in SUBSET sub : Cardinality(s) = n /\ ~(g[s] = h[s] /\ h[s] \in Int)}
<1>0. /\ \A s \in SUBSET set : g[s] = IF s = {} THEN 0 ELSE fun[Pick(s)] + g[s \ {Pick(s)}]
      /\ \A s \in SUBSET sub : h[s] = IF s = {} THEN 0 ELSE fun[Pick(s)] + h[s \ {Pick(s)}]
      /\ IsFiniteSet(sub)
  BY FS_Subset DEF SumStep
<1>1. ASSUME NEW n \in Bad, \A y \in Bad : n <= y
      PROVE  FALSE
  <2>1. PICK s \in SUBSET sub : Cardinality(s) = n /\ ~(g[s] = h[s] /\ h[s] \in Int)
    BY <1>1
  <2>2. s # {} /\ s \in SUBSET set
    <3>1. g[{}] = 0 /\ h[{}] = 0
      BY <1>0
    <3> QED
      BY <2>1, <3>1
  <2> DEFINE x == Pick(s)
  <2>3. /\ x \in dom /\ s \ {x} \in SUBSET sub /\ fun[x] \in Int
        /\ n - 1 \in Nat /\ Cardinality(s \ {x}) = n - 1
    BY <1>0, <2>1, <2>2, PickOne
  <2>4. g[s] = fun[x] + g[s \ {x}] /\ h[s] = fun[x] + h[s \ {x}]
    BY <1>0, <2>2
  <2> HIDE DEF x
  <2>5. n - 1 \notin Bad
    BY <1>1, <2>3
  <2>6. g[s \ {x}] = h[s \ {x}] /\ h[s \ {x}] \in Int
    BY <2>3, <2>5
  <2> QED
    BY <2>1, <2>3, <2>4, <2>6
<1>2. Bad = {}
  <2> SUFFICES ASSUME Bad # {}
               PROVE  FALSE
    OBVIOUS
  <2>1. Bad \subseteq Nat
    OBVIOUS
  <2> HIDE DEF Bad
  <2>2. \E n \in Bad : \A y \in Bad : n <= y
    BY <2>1, LeastNat
  <2> QED
    BY <1>1, <2>2
<1>3. \A s \in SUBSET sub : Cardinality(s) \in Nat
  BY <1>0, FS_Subset, FS_CardinalityType
<1> QED
  BY <1>2, <1>3

(* What is summed up is one element and the rest.                          *)
LEMMA SumRest ==
  ASSUME NEW dom, NEW fun \in [dom -> Int], NEW set \in SUBSET dom, IsFiniteSet(set)
  PROVE  /\ SumFunctionOnSet(fun, set) \in Int
         /\ set = {} => SumFunctionOnSet(fun, set) = 0
         /\ set # {} => SumFunctionOnSet(fun, set)
                        = fun[Pick(set)] + SumFunctionOnSet(fun, set \ {Pick(set)})
<1> DEFINE g == SumIter(fun, set)
           sub == set \ {Pick(set)}
           h == SumIter(fun, sub)
<1>1. g = SumStep(fun, set, g)
  BY SumExists DEF SumIter
<1>2. sub \in SUBSET set /\ sub \in SUBSET dom /\ IsFiniteSet(sub)
  BY FS_Subset
<1>3. h = SumStep(fun, sub, h)
  <2> HIDE DEF sub
  <2> QED
    BY <1>2, SumExists DEF SumIter
<1>4. SumFunctionOnSet(fun, set) = g[set] /\ SumFunctionOnSet(fun, sub) = h[sub]
  BY SumIsIter
<1> HIDE DEF g, h
<1>5. g[sub] = h[sub] /\ h[sub] \in Int
  <2> HIDE DEF sub
  <2> QED
    BY <1>1, <1>2, <1>3, SumUnique
<1>6. g[set] = IF set = {} THEN 0 ELSE fun[Pick(set)] + g[sub]
  BY <1>1 DEF SumStep
<1>7. set # {} => Pick(set) \in dom
  BY DEF Pick
<1>8. g[set] \in Int
  BY <1>5, <1>6, <1>7
<1> QED
  BY <1>4, <1>5, <1>6, <1>8

(* ... whichever element that is.                                          *)
LEMMA SumAdd ==
  ASSUME NEW dom, NEW fun \in [dom -> Int], NEW set \in SUBSET dom, IsFiniteSet(set),
         NEW x \in dom \ set
  PROVE  SumFunctionOnSet(fun, set \cup {x}) = fun[x] + SumFunctionOnSet(fun, set)
<1> DEFINE F(s) == SumFunctionOnSet(fun, s)
           Adds(s, y) == F(s \cup {y}) = fun[y] + F(s)
           Bad == {n \in Nat : \E s \in SUBSET dom : \E y \in dom \ s :
                     IsFiniteSet(s) /\ Cardinality(s) = n /\ ~Adds(s, y)}
<1>1. ASSUME NEW n \in Bad, \A m \in Bad : n <= m
      PROVE  FALSE
  <2>1. PICK s \in SUBSET dom : \E y \in dom \ s :
          IsFiniteSet(s) /\ Cardinality(s) = n /\ ~Adds(s, y)
    BY <1>1
  <2>2. PICK y \in dom \ s : IsFiniteSet(s) /\ Cardinality(s) = n /\ ~Adds(s, y)
    BY <2>1
  <2> DEFINE t == s \cup {y}
             p == Pick(t)
  <2>3. t \in SUBSET dom /\ IsFiniteSet(t) /\ t # {}
    BY <2>2, FS_AddElement
  <2>4. p \in t
    BY <2>3 DEF Pick
  <2>5. F(t) = fun[p] + F(t \ {p})
    <3> HIDE DEF t
    <3> QED
      BY <2>3, SumRest
  <2> HIDE DEF p
  <2>6. CASE p = y
    <3>1. t \ {p} = s
      BY <2>2, <2>6
    <3> QED
      BY <2>2, <2>5, <2>6, <3>1
  <2>7. CASE p # y
    <3> DEFINE u == s \ {p}
    <3>1. /\ p \in s /\ p \in dom /\ t \ {p} = u \cup {y} /\ s = u \cup {p}
          /\ y \in dom \ u /\ p \in dom \ u /\ u \in SUBSET dom
      BY <2>2, <2>4, <2>7
    <3>2. IsFiniteSet(u) /\ Cardinality(u) = n - 1 /\ n - 1 \in Nat
      <4>1. IsFiniteSet(u) /\ Cardinality(u) = Cardinality(s) - 1
        BY <2>2, <3>1, FS_RemoveElement
      <4>2. Cardinality(u) \in Nat
        BY <4>1, FS_CardinalityType
      <4> QED
        BY <2>2, <4>1, <4>2
    <3>3. n - 1 \notin Bad
      <4>1. n \in Nat
        BY <1>1
      <4> HIDE DEF Bad
      <4> QED
        BY <1>1, <3>2, <4>1
    <3> HIDE DEF u
    <3>4. Adds(u, y) /\ Adds(u, p)
      BY <3>1, <3>2, <3>3
    <3>5. F(u) \in Int /\ fun[p] \in Int /\ fun[y] \in Int
      BY <3>1, <3>2, SumRest
    <3> HIDE DEF F
    <3>6. F(t) = fun[p] + (fun[y] + F(u)) /\ F(s) = fun[p] + F(u)
      BY <2>5, <3>1, <3>4
    <3>7. F(t) = fun[y] + F(s)
      BY <3>5, <3>6
    <3> QED
      BY <2>2, <3>7
  <2> QED
    BY <2>6, <2>7
<1>2. Bad = {}
  <2> SUFFICES ASSUME Bad # {}
               PROVE  FALSE
    OBVIOUS
  <2>1. Bad \subseteq Nat
    OBVIOUS
  <2> HIDE DEF Bad
  <2>2. \E n \in Bad : \A y \in Bad : n <= y
    BY <2>1, LeastNat
  <2> QED
    BY <1>1, <2>2
<1>3. Cardinality(set) \in Nat
  BY FS_CardinalityType
<1> HIDE DEF F
<1>4. Adds(set, x)
  BY <1>2, <1>3
<1> QED
  BY <1>4 DEF F

(* Two functions with the same values on a set have the same sum.          *)
LEMMA SumSame ==
  ASSUME NEW dom, NEW fun \in [dom -> Int], NEW ext, NEW gun \in [ext -> Int],
         NEW set, set \subseteq dom, set \subseteq ext, IsFiniteSet(set),
         \A x \in set : fun[x] = gun[x]
  PROVE  SumFunctionOnSet(fun, set) = SumFunctionOnSet(gun, set)
<1> DEFINE F(s) == SumFunctionOnSet(fun, s)
           H(s) == SumFunctionOnSet(gun, s)
           Bad == {n \in Nat : \E s \in SUBSET set : Cardinality(s) = n /\ F(s) # H(s)}
<1>1. ASSUME NEW n \in Bad, \A m \in Bad : n <= m
      PROVE  FALSE
  <2>1. PICK s \in SUBSET set : Cardinality(s) = n /\ F(s) # H(s)
    BY <1>1
  <2>2. IsFiniteSet(s) /\ s \in SUBSET dom /\ s \in SUBSET ext
    BY FS_Subset
  <2>3. s # {}
    <3>1. F({}) = 0
      BY SumRest, FS_EmptySet
    <3>2. H({}) = 0
      BY SumRest, FS_EmptySet
    <3> QED
      BY <2>1, <3>1, <3>2
  <2> DEFINE p == Pick(s)
  <2>4. /\ p \in set /\ s \ {p} \in SUBSET set
        /\ n - 1 \in Nat /\ Cardinality(s \ {p}) = n - 1
    BY <2>1, <2>3, PickOne
  <2>5. F(s) = fun[p] + F(s \ {p})
    BY <2>2, <2>3, SumRest
  <2>6. H(s) = gun[p] + H(s \ {p})
    BY <2>2, <2>3, SumRest
  <2> HIDE DEF p
  <2>7. n - 1 \notin Bad
    <3>1. n \in Nat
      BY <1>1
    <3> HIDE DEF Bad
    <3> QED
      BY <1>1, <2>4, <3>1
  <2>8. F(s \ {p}) = H(s \ {p})
    <3> HIDE DEF F, H
    <3> QED
      BY <2>4, <2>7
  <2> HIDE DEF F, H
  <2>9. F(s) = H(s)
    BY <2>4, <2>5, <2>6, <2>8
  <2> QED
    BY <2>1, <2>9
<1>2. Bad = {}
  <2> SUFFICES ASSUME Bad # {}
               PROVE  FALSE
    OBVIOUS
  <2>1. Bad \subseteq Nat
    OBVIOUS
  <2> HIDE DEF Bad
  <2>2. \E n \in Bad : \A y \in Bad : n <= y
    BY <2>1, LeastNat
  <2> QED
    BY <1>1, <2>2
<1>3. Cardinality(set) \in Nat
  BY FS_CardinalityType
<1> HIDE DEF F, H
<1>4. F(set) = H(set)
  BY <1>2, <1>3
<1> QED
  BY <1>4 DEF F, H

(* A sum without one of its elements.                                      *)
LEMMA SumRemove ==
  ASSUME NEW dom, NEW fun \in [dom -> Int], NEW set \in SUBSET dom, IsFiniteSet(set),
         NEW x \in set
  PROVE  SumFunctionOnSet(fun, set) = fun[x] + SumFunctionOnSet(fun, set \ {x})
<1> DEFINE less == set \ {x}
<1>1. less \in SUBSET dom /\ IsFiniteSet(less) /\ x \in dom \ less /\ set = less \cup {x}
  BY FS_Subset
<1> HIDE DEF less
<1>2. SumFunctionOnSet(fun, less \cup {x}) = fun[x] + SumFunctionOnSet(fun, less)
  BY <1>1, SumAdd
<1> QED
  BY <1>1, <1>2 DEF less


(* Two sets that have nothing in common.                                   *)
LEMMA SumUnion ==
  ASSUME NEW dom, NEW fun \in [dom -> Int], NEW set \in SUBSET dom, NEW sub \in SUBSET dom,
         IsFiniteSet(set), IsFiniteSet(sub), set \cap sub = {}
  PROVE  SumFunctionOnSet(fun, set \cup sub)
           = SumFunctionOnSet(fun, set) + SumFunctionOnSet(fun, sub)
<1> DEFINE F(s) == SumFunctionOnSet(fun, s)
           Bad == {n \in Nat : \E s \in SUBSET sub : Cardinality(s) = n /\ F(set \cup s) # F(set) + F(s)}
<1>1. ASSUME NEW n \in Bad, \A m \in Bad : n <= m
      PROVE  FALSE
  <2>1. PICK s \in SUBSET sub : Cardinality(s) = n /\ F(set \cup s) # F(set) + F(s)
    BY <1>1
  <2>2. F({}) = 0 /\ F(set) \in Int
    BY SumRest, FS_EmptySet
  <2>3. s # {}
    <3> SUFFICES ASSUME s = {}
                 PROVE  FALSE
      OBVIOUS
    <3>1. set \cup s = set
      OBVIOUS
    <3>2. F(set \cup s) = F(set) /\ F(s) = 0
      BY <2>2, <3>1
    <3> HIDE DEF F
    <3> QED
      BY <2>1, <2>2, <3>2
  <2> DEFINE p == Pick(s)
             u == s \ {p}
  <2>4. /\ p \in sub /\ p \in s /\ u \in SUBSET sub /\ IsFiniteSet(s)
        /\ n - 1 \in Nat /\ Cardinality(u) = n - 1
    BY <2>1, <2>3, PickOne
  <2>5. n - 1 \notin Bad
    <3>1. n \in Nat
      BY <1>1
    <3> HIDE DEF Bad
    <3> QED
      BY <1>1, <2>4, <3>1
  <2>6. F(set \cup u) = F(set) + F(u)
    <3> HIDE DEF F, u
    <3> QED
      BY <2>4, <2>5
  <2> HIDE DEF p
  <2>7. /\ IsFiniteSet(u) /\ IsFiniteSet(set \cup u) /\ u \in SUBSET dom /\ set \cup u \in SUBSET dom
        /\ p \in dom \ u /\ p \in dom \ (set \cup u)
    <3>1. IsFiniteSet(u)
      BY <2>4, FS_Subset
    <3> QED
      BY <2>4, <3>1, FS_Union
  <2> HIDE DEF u
  <2>8. F(u \cup {p}) = fun[p] + F(u) /\ F(u) \in Int
    <3>1. SumFunctionOnSet(fun, u \cup {p}) = fun[p] + SumFunctionOnSet(fun, u)
      BY <2>7, SumAdd
    <3>2. SumFunctionOnSet(fun, u) \in Int
      BY <2>7, SumRest
    <3> QED
      BY <3>1, <3>2
  <2>9. F((set \cup u) \cup {p}) = fun[p] + F(set \cup u)
    <3> DEFINE w == set \cup u
    <3>1. w \in SUBSET dom /\ IsFiniteSet(w) /\ p \in dom \ w
      BY <2>7
    <3> HIDE DEF w
    <3>2. SumFunctionOnSet(fun, w \cup {p}) = fun[p] + SumFunctionOnSet(fun, w)
      BY <3>1, SumAdd
    <3> QED
      BY <3>2 DEF w
  <2>10. s = u \cup {p} /\ set \cup s = (set \cup u) \cup {p} /\ fun[p] \in Int
    BY <2>4, <2>7 DEF u
  <2> HIDE DEF F, u
  <2>11. F(s) = fun[p] + F(u) /\ F(set \cup s) = fun[p] + (F(set) + F(u))
    BY <2>6, <2>8, <2>9, <2>10
  <2>12. F(set \cup s) = F(set) + F(s)
    BY <2>2, <2>8, <2>10, <2>11
  <2> QED
    BY <2>1, <2>12
<1>2. Bad = {}
  <2> SUFFICES ASSUME Bad # {}
               PROVE  FALSE
    OBVIOUS
  <2>1. Bad \subseteq Nat
    OBVIOUS
  <2> HIDE DEF Bad
  <2>2. \E n \in Bad : \A y \in Bad : n <= y
    BY <2>1, LeastNat
  <2> QED
    BY <1>1, <2>2
<1>3. Cardinality(sub) \in Nat
  BY FS_CardinalityType
<1> HIDE DEF F
<1>4. F(set \cup sub) = F(set) + F(sub)
  BY <1>2, <1>3
<1> QED
  BY <1>4 DEF F

(* A sum of the sums of the parts that a set falls into by a key.          *)
LEMMA SumParts ==
  ASSUME NEW dom, NEW fun \in [dom -> Int], NEW set \in SUBSET dom, IsFiniteSet(set),
         NEW keys, NEW key \in [dom -> keys], NEW ks \in SUBSET keys, IsFiniteSet(ks)
  PROVE  SumFunctionOnSet([k \in keys |-> SumFunctionOnSet(fun, {x \in set : key[x] = k})], ks)
           = SumFunctionOnSet(fun, {x \in set : key[x] \in ks})
<1> DEFINE part(k) == {x \in set : key[x] = k}
           of(s) == {x \in set : key[x] \in s}
           g == [k \in keys |-> SumFunctionOnSet(fun, part(k))]
           F(s) == SumFunctionOnSet(fun, s)
           H(s) == SumFunctionOnSet(g, s)
           Bad == {n \in Nat : \E s \in SUBSET ks : Cardinality(s) = n /\ H(s) # F(of(s))}
<1>0. /\ \A k : IsFiniteSet(part(k)) /\ part(k) \in SUBSET dom
      /\ \A s : IsFiniteSet(of(s)) /\ of(s) \in SUBSET dom
  BY FS_Subset
<1>g. g \in [keys -> Int]
  <2>1. \A k : F(part(k)) \in Int
    BY <1>0, SumRest
  <2> QED
    BY <2>1
<1>h. \A k \in keys : g[k] = F(part(k))
  OBVIOUS
<1> HIDE DEF g
<1>1. ASSUME NEW n \in Bad, \A m \in Bad : n <= m
      PROVE  FALSE
  <2>1. PICK s \in SUBSET ks : Cardinality(s) = n /\ H(s) # F(of(s))
    BY <1>1
  <2>2. H({}) = 0 /\ F({}) = 0
    BY <1>g, SumRest, FS_EmptySet
  <2>3. s # {}
    <3>1. of({}) = {}
      OBVIOUS
    <3> HIDE DEF F, H, of
    <3> QED
      BY <2>1, <2>2, <3>1
  <2> DEFINE p == Pick(s)
             u == s \ {p}
  <2>4. /\ p \in ks /\ p \in s /\ u \in SUBSET ks /\ IsFiniteSet(s)
        /\ n - 1 \in Nat /\ Cardinality(u) = n - 1
    BY <2>1, <2>3, PickOne
  <2>5. n - 1 \notin Bad
    <3>1. n \in Nat
      BY <1>1
    <3> HIDE DEF Bad
    <3> QED
      BY <1>1, <2>4, <3>1
  <2>6. H(u) = F(of(u))
    <3> HIDE DEF F, H, of, u
    <3> QED
      BY <2>4, <2>5
  <2>7. H(s) = g[p] + H(u)
    <3>1. s \in SUBSET keys
      OBVIOUS
    <3> QED
      BY <1>g, <2>3, <2>4, <3>1, SumRest
  <2> HIDE DEF p
  <2>8. of(s) = part(p) \cup of(u) /\ part(p) \cap of(u) = {}
    BY <2>4
  <2>9. F(part(p) \cup of(u)) = F(part(p)) + F(of(u))
    <3> DEFINE a == part(p)
               b == of(u)
    <3>1. /\ a \in SUBSET dom /\ b \in SUBSET dom /\ IsFiniteSet(a) /\ IsFiniteSet(b)
          /\ a \cap b = {}
      BY <1>0, <2>8
    <3> HIDE DEF a, b
    <3>2. SumFunctionOnSet(fun, a \cup b) = SumFunctionOnSet(fun, a) + SumFunctionOnSet(fun, b)
      BY <3>1, SumUnion
    <3> QED
      BY <3>2 DEF a, b
  <2> HIDE DEF F, H, of, part, u
  <2>10. H(s) = F(of(s))
    BY <1>h, <2>4, <2>6, <2>7, <2>8, <2>9
  <2> QED
    BY <2>1, <2>10
<1>2. Bad = {}
  <2> SUFFICES ASSUME Bad # {}
               PROVE  FALSE
    OBVIOUS
  <2>1. Bad \subseteq Nat
    OBVIOUS
  <2> HIDE DEF Bad
  <2>2. \E n \in Bad : \A y \in Bad : n <= y
    BY <2>1, LeastNat
  <2> QED
    BY <1>1, <2>2
<1>3. Cardinality(ks) \in Nat
  BY FS_CardinalityType
<1> HIDE DEF F, H, of
<1>4. H(ks) = F(of(ks))
  BY <1>2, <1>3
<1> QED
  BY <1>4 DEF F, H, of, g

(* A finite set of naturals has a largest element.                         *)
LEMMA LargestNat ==
  ASSUME NEW set \in SUBSET Nat, IsFiniteSet(set), set # {}
  PROVE  \E x \in set : \A y \in set : y <= x
<1> DEFINE Tops(s) == \E x \in s : \A y \in s : y <= x
           Bad == {n \in Nat : \E s \in SUBSET set : Cardinality(s) = n /\ s # {} /\ ~Tops(s)}
<1>1. ASSUME NEW n \in Bad, \A m \in Bad : n <= m
      PROVE  FALSE
  <2>1. PICK s \in SUBSET set : Cardinality(s) = n /\ s # {} /\ ~Tops(s)
    BY <1>1
  <2> DEFINE p == Pick(s)
             u == s \ {p}
  <2>2. /\ p \in s /\ u \in SUBSET set
        /\ n - 1 \in Nat /\ Cardinality(u) = n - 1
    <3>1. /\ p \in s /\ u \in SUBSET s
          /\ Cardinality(s) \in Nat /\ Cardinality(s) # 0 /\ Cardinality(u) = Cardinality(s) - 1
      BY <2>1, PickOne
    <3>2. s \subseteq set /\ Cardinality(s) = n
      BY <2>1
    <3> HIDE DEF u, p, Bad, Tops
    <3>3. u \in SUBSET set
      BY <3>1, <3>2
    <3>4. n - 1 \in Nat /\ Cardinality(u) = n - 1
      BY <3>1, <3>2
    <3> QED
      BY <3>1, <3>3, <3>4
  <2>3. n - 1 \notin Bad
    <3>1. n \in Nat
      BY <1>1
    <3> HIDE DEF Bad
    <3> QED
      BY <1>1, <2>2, <3>1
  <2>4. u = {} \/ Tops(u)
    BY <2>2, <2>3
  <2> HIDE DEF p
  <2>5. p \in Nat /\ s \subseteq Nat
    BY <2>2
  <2>6. Tops(s)
    <3>1. CASE u = {}
      BY <2>2, <2>5, <3>1
    <3>2. CASE Tops(u)
      <4>1. PICK x \in u : \A y \in u : y <= x
        BY <3>2
      <4>2. CASE p <= x
        BY <2>2, <2>5, <4>1, <4>2
      <4>3. CASE ~(p <= x)
        BY <2>2, <2>5, <4>1, <4>3
      <4> QED
        BY <4>2, <4>3
    <3> QED
      BY <2>4, <3>1, <3>2
  <2> QED
    BY <2>1, <2>6
<1>2. Bad = {}
  <2> SUFFICES ASSUME Bad # {}
               PROVE  FALSE
    OBVIOUS
  <2>1. Bad \subseteq Nat
    OBVIOUS
  <2> HIDE DEF Bad
  <2>2. \E n \in Bad : \A y \in Bad : n <= y
    BY <2>1, LeastNat
  <2> QED
    BY <1>1, <2>2
<1>3. Cardinality(set) \in Nat
  BY FS_CardinalityType
<1>4. Tops(set)
  <2> HIDE DEF Tops
  <2> QED
    BY <1>2, <1>3
<1> QED
  BY <1>4

(* The sum of differences.                                                 *)
LEMMA SumMinus ==
  ASSUME NEW dom, NEW fun \in [dom -> Int], NEW gun \in [dom -> Int], NEW hun \in [dom -> Int],
         NEW set \in SUBSET dom, IsFiniteSet(set), \A x \in set : hun[x] = fun[x] - gun[x]
  PROVE  SumFunctionOnSet(hun, set) = SumFunctionOnSet(fun, set) - SumFunctionOnSet(gun, set)
<1> DEFINE F(s) == SumFunctionOnSet(fun, s)
           J(s) == SumFunctionOnSet(gun, s)
           H(s) == SumFunctionOnSet(hun, s)
           Bad == {n \in Nat : \E s \in SUBSET set : Cardinality(s) = n /\ H(s) # F(s) - J(s)}
<1>1. ASSUME NEW n \in Bad, \A m \in Bad : n <= m
      PROVE  FALSE
  <2>1. PICK s \in SUBSET set : Cardinality(s) = n /\ H(s) # F(s) - J(s)
    BY <1>1
  <2>2. IsFiniteSet(s) /\ s \in SUBSET dom
    BY FS_Subset
  <2>3. s # {}
    <3>1. F({}) = 0 /\ J({}) = 0 /\ H({}) = 0
      BY SumRest, FS_EmptySet
    <3>2. H({}) = F({}) - J({})
      BY <3>1
    <3> HIDE DEF F, J, H
    <3> QED
      BY <2>1, <3>2
  <2> DEFINE p == Pick(s)
  <2>4. /\ p \in set /\ s \ {p} \in SUBSET set
        /\ n - 1 \in Nat /\ Cardinality(s \ {p}) = n - 1
    BY <2>1, <2>3, PickOne
  <2>5. /\ F(s) = fun[p] + F(s \ {p}) /\ J(s) = gun[p] + J(s \ {p})
        /\ H(s) = hun[p] + H(s \ {p})
    BY <2>2, <2>3, SumRest
  <2>6. F(s \ {p}) \in Int /\ J(s \ {p}) \in Int
    BY <2>2, FS_Subset, SumRest
  <2> HIDE DEF p
  <2>7. n - 1 \notin Bad
    <3>1. n \in Nat
      BY <1>1
    <3> HIDE DEF Bad
    <3> QED
      BY <1>1, <2>4, <3>1
  <2>8. H(s \ {p}) = F(s \ {p}) - J(s \ {p})
    <3> HIDE DEF F, J, H
    <3> QED
      BY <2>4, <2>7
  <2> HIDE DEF F, J, H
  <2>9. H(s) = F(s) - J(s)
    BY <2>4, <2>5, <2>6, <2>8
  <2> QED
    BY <2>1, <2>9
<1>2. Bad = {}
  <2> SUFFICES ASSUME Bad # {}
               PROVE  FALSE
    OBVIOUS
  <2>1. Bad \subseteq Nat
    OBVIOUS
  <2> HIDE DEF Bad
  <2>2. \E n \in Bad : \A y \in Bad : n <= y
    BY <2>1, LeastNat
  <2> QED
    BY <1>1, <2>2
<1>3. Cardinality(set) \in Nat
  BY FS_CardinalityType
<1> HIDE DEF F, J, H
<1>4. H(set) = F(set) - J(set)
  BY <1>2, <1>3
<1> QED
  BY <1>4 DEF F, J, H
-----------------------------------------------------------------------------
(* Notes.                                                                  *)

NSteps ==
  {"new", "guard", "flag", "number", "insert", "hook", "issue", "cancel", "edit invoice",
   "edit", "delete invoice", "save", "done"}

NTyped == N!TypeOK /\ pc \in [Three -> NSteps]

(* A request that is about to create a note, and one that is about to      *)
(* issue, to cancel or to edit the note it has found, or to delete the     *)
(* invoice.                                                                *)
NCreating(r) ==
  pc[r] \in {"guard", "flag", "insert"} \/ (pc[r] = "number" /\ hand[r].note = nothing)
NIssuing(r) == pc[r] = "issue" \/ (pc[r] = "number" /\ hand[r].note # nothing)
NEditing(r) == pc[r] \in {"edit invoice", "edit"}
NDeleting(r) == pc[r] = "delete invoice"

(* The note of a request that has not inserted it is not there; what a     *)
(* request has found is there, and it holds what it needs.                 *)
NHolds(r) ==
  /\ pc[r] = "new" \/ NCreating(r) => v3[r] = nothing
  /\ NCreating(r) =>
       /\ hand[r].note = nothing /\ hand[r].doc \in N!Note
       /\ pc[r] = "guard" => hand[r].doc.kind = "credit"
       /\ pc[r] # "insert" => hand[r].doc.number = nothing /\ hand[r].doc.status = "issued"
       /\ hand[r].doc.status \in {"issued", "draft"}
  /\ NIssuing(r) \/ NEditing(r) \/ pc[r] \in {"cancel", "hook"} =>
       hand[r].note \in Three /\ v3[hand[r].note] # nothing
  /\ NIssuing(r) \/ NEditing(r) => hand[r].doc \in N!Note
  /\ NIssuing(r) => hand[r].series \in N!Kind
  /\ pc[r] = "issue" => hand[r].doc.number # nothing
  /\ pc[r] = "save" => hand[r].settings \in N!Company
NHeld == \A r \in Three : NHolds(r)

(* The numbers that notes bear, and those that requests are about to give, *)
(* are below the counters and all of them different.                       *)
NNumber(n) == IF v3[n] = nothing THEN nothing ELSE v3[n].number
NInHand(r) == IF pc[r] \in {"insert", "issue"} THEN hand[r].doc.number ELSE nothing
NBelow(number, next) == number # nothing => number[2] < next[number[1]]
NApart ==
  /\ \A x \in Three : NBelow(NNumber(x), v1.next) /\ NBelow(NInHand(x), v1.next)
  /\ \A x, y \in Three :
       /\ NNumber(x) # nothing => NNumber(x) # NInHand(y)
       /\ x # y /\ NNumber(x) # nothing => NNumber(x) # NNumber(y)
       /\ x # y /\ NInHand(x) # nothing => NInHand(x) # NInHand(y)
NNumbers == "rolled back" \notin marred => NApart

(* As long as requests come one after the other, one at most is at work;   *)
(* the invoice is there while a note is created, and no note is active     *)
(* while it is deleted and after.                                          *)
NSerial ==
  "overlap" \notin marred =>
    /\ \A r, s \in N!Busy : r = s
    /\ \A r \in Three : NCreating(r) => v2 = "live"
    /\ \A r \in Three : NDeleting(r) => N!Active = {}
    /\ v2 = "deleted" => N!Active = {}

(* As long as no draft was inserted, there is none and nobody is at one.   *)
NNoDraft ==
  "draft" \notin marred =>
    /\ \A n \in Three : v3[n] # nothing => v3[n].status # "draft"
    /\ \A r \in Three : ~NIssuing(r) /\ ~NEditing(r)

(* Once the guard was passed, what is about to be inserted fits.           *)
NWithin ==
  /\ N!Sum("credit") <= NoteTotal + N!Sum("debit")
  /\ \A r \in Three : NCreating(r) /\ pc[r] # "guard" /\ hand[r].doc.kind = "credit" =>
       N!Sum("credit") + hand[r].doc.amount <= NoteTotal + N!Sum("debit")
NFits == marred \cap {"overlap", "draft", "debit cancelled"} = {} => NWithin

(* The ledger shows a note as it is unless a hook is on its way.           *)
NShown ==
  "death" \notin marred =>
    \A n \in Three :
      (\A r \in Three : pc[r] = "hook" => hand[r].note # n) => v4[n] = N!View(n)

NInv == NTyped /\ NHeld /\ NNumbers /\ NSerial /\ NNoDraft /\ NFits /\ NShown

NStep(r) == N!Start(r) \/ N!Step(r) \/ N!Die(r)

(* What a step can do to the notes: nothing, insert one, or change one     *)
(* that is there in one of three ways.                                     *)
NInserts(r) ==
  /\ pc[r] = "insert"
  /\ v3' = [v3 EXCEPT ![r] = hand[r].doc]
  /\ UNCHANGED <<v1, v2, v4>>
  /\ marred' = marred \cup IF hand[r].doc.status = "draft" THEN {"draft"} ELSE {}
NSets(r, from, doc) ==
  /\ pc[r] = from
  /\ v3' = [v3 EXCEPT ![hand[r].note] = doc]
  /\ UNCHANGED <<v1, v2, v4>>
NIssues(r) ==
  /\ v3[hand[r].note].status = "draft"
  /\ NSets(r, "issue", [v3[hand[r].note] EXCEPT !.status = "issued",
                                                !.number = hand[r].doc.number])
  /\ UNCHANGED marred
NEdits(r) ==
  /\ v3[hand[r].note].status = "draft"
  /\ NSets(r, "edit", [v3[hand[r].note] EXCEPT !.amount = hand[r].doc.amount])
  /\ UNCHANGED marred
NCancels(r) ==
  /\ NSets(r, "cancel", [v3[hand[r].note] EXCEPT !.status = "cancelled"])
  /\ marred' = marred \cup IF v3[hand[r].note].kind = "debit" THEN {"debit cancelled"} ELSE {}

NWrites(r) == NInserts(r) \/ NIssues(r) \/ NEdits(r) \/ NCancels(r)

LEMMA NotesWrite ==
  ASSUME NTyped, NEW r \in Three, NStep(r)
  PROVE  \/ UNCHANGED v3
         \/ NWrites(r) /\ pc'[r] = "hook" /\ hand'[r].note = IF pc[r] = "insert" THEN r ELSE hand[r].note
<1> USE DEF N!Goto, N!Begin, N!Read, N!Write, N!Mark, N!TakeNumber
<1>t. pc \in [Three -> NSteps] /\ hand \in [Three -> N!Hand]
  BY DEF NTyped, N!TypeOK
<1>h. \A n : [hand[r] EXCEPT !.note = n].note = n
  BY <1>t DEF N!Hand
<1>1. CASE N!Start(r) \/ N!Die(r)
  BY <1>t, <1>1 DEF N!Start, N!Die, N!CreateFind, N!IssueFind, N!CancelFind, N!EditFind,
    N!InvoiceCount, N!SettingsRead
<1>2. CASE N!CreateInsert(r)
  BY <1>t, <1>h, <1>2 DEF N!CreateInsert, NWrites, NInserts
<1>3. CASE N!IssueWrite(r)
  <2>1. CASE v3[hand[r].note].status = "draft"
    <3>1. NIssues(r)
      BY <1>3, <2>1 DEF N!IssueWrite, NIssues, NSets
    <3>2. pc'[r] = "hook" /\ hand'[r].note = hand[r].note /\ pc[r] # "insert"
      <4>1. /\ pc' = [pc EXCEPT ![r] = "hook"]
            /\ hand' = [hand EXCEPT ![r] = [hand[r] EXCEPT !.note = hand[r].note]]
            /\ pc[r] # "insert"
        BY <1>3, <2>1 DEF N!IssueWrite
      <4> QED
        BY <1>t, <1>h, <4>1
    <3> QED
      BY <3>1, <3>2 DEF NWrites
  <2>2. CASE v3[hand[r].note].status # "draft"
    BY <1>3, <2>2 DEF N!IssueWrite
  <2> QED
    BY <2>1, <2>2
<1>4. CASE N!EditWrite(r)
  <2>1. CASE v3[hand[r].note].status = "draft"
    <3>1. NEdits(r)
      BY <1>4, <2>1 DEF N!EditWrite, NEdits, NSets
    <3>2. pc'[r] = "hook" /\ hand'[r].note = hand[r].note /\ pc[r] # "insert"
      <4>1. /\ pc' = [pc EXCEPT ![r] = "hook"]
            /\ hand' = [hand EXCEPT ![r] = [hand[r] EXCEPT !.note = hand[r].note]]
            /\ pc[r] # "insert"
        BY <1>4, <2>1 DEF N!EditWrite
      <4> QED
        BY <1>t, <1>h, <4>1
    <3> QED
      BY <3>1, <3>2 DEF NWrites
  <2>2. CASE v3[hand[r].note].status # "draft"
    BY <1>4, <2>2 DEF N!EditWrite
  <2> QED
    BY <2>1, <2>2
<1>5. CASE N!CancelWrite(r)
  BY <1>t, <1>h, <1>5 DEF N!CancelWrite, NWrites, NCancels, NSets
<1> QED
  BY <1>t, <1>1, <1>2, <1>3, <1>4, <1>5 DEF NStep, N!Step, N!CreateGuard, N!CreateFlag,
    N!CreateNumber, N!IssueNumber, N!EditInvoice, N!InvoiceDelete, N!SettingsWrite, N!Hook

LEMMA NotesTyped ==
  ASSUME NTyped, NHeld, NEW r \in Three, NStep(r)
  PROVE  NTyped'
<1> USE DEF N!Goto, N!Begin, N!Read, N!Write, N!Mark, N!TakeNumber
<1>t. /\ pc \in [Three -> NSteps] /\ hand \in [Three -> N!Hand] /\ v3 \in [Three -> N!Note \cup {nothing}]
      /\ v1 \in N!Company /\ v2 \in {"live", "deleted"}
      /\ v4 \in [Three -> (N!Kind \X NoteAmount) \cup {nothing}]
      /\ marred \subseteq {"overlap", "death", "draft", "debit cancelled", "rolled back"}
  BY DEF NTyped, N!TypeOK
<1>h. hand[r] \in N!Hand /\ NHolds(r) /\ N!Blank \in N!Hand
  BY <1>t DEF NHeld, N!Blank, N!Hand
<1>n. \A n \in Three : v3[n] # nothing => v3[n] \in N!Note
  BY <1>t
<1> DEFINE Good == /\ v3' \in [Three -> N!Note \cup {nothing}]
                   /\ v4' \in [Three -> (N!Kind \X NoteAmount) \cup {nothing}]
                   /\ v1' \in N!Company
           Moved == \E at \in NSteps, what \in N!Hand :
                       pc' = [pc EXCEPT ![r] = at] /\ hand' = [hand EXCEPT ![r] = what]
<1>m. marred' \subseteq {"overlap", "death", "draft", "debit cancelled", "rolled back"} /\ v2' \in {"live", "deleted"}
  BY <1>t DEF NStep, N!Start, N!Step, N!Die, N!CreateFind, N!IssueFind, N!CancelFind, N!EditFind,
    N!InvoiceCount, N!SettingsRead, N!CreateGuard, N!CreateFlag, N!CreateNumber, N!CreateInsert,
    N!IssueNumber, N!IssueWrite, N!CancelWrite, N!EditInvoice, N!EditWrite, N!InvoiceDelete,
    N!SettingsWrite, N!Hook
<1>p. Moved
  <2> USE DEF NSteps
  <2>1. ASSUME NEW kind \in N!Kind, NEW a \in NoteAmount, N!CreateFind(r, kind, a)
        PROVE  Moved
    <3> DEFINE doc == [kind |-> kind, amount |-> a, status |-> "issued", number |-> nothing]
               what == [N!Blank EXCEPT !.doc = doc]
    <3>1. doc \in N!Note
      BY <2>1 DEF N!Note
    <3>2. what \in N!Hand
      BY <1>h, <3>1 DEF N!Hand
    <3> QED
      BY <2>1, <3>2 DEF N!CreateFind
  <2>2. ASSUME NEW n \in Three, NEW series \in N!Kind, N!IssueFind(r, n, series)
        PROVE  Moved
    <3> DEFINE what == [N!Blank EXCEPT !.note = n, !.doc = v3[n], !.series = series]
    <3>1. what \in N!Hand
      BY <1>n, <2>2 DEF N!IssueFind, N!Answers, N!Exists, N!Hand, N!Blank
    <3> QED
      BY <2>2, <3>1 DEF N!IssueFind
  <2>3. ASSUME NEW n \in Three, NEW series \in N!Kind, N!CancelFind(r, n, series)
        PROVE  Moved
    <3> DEFINE what == [N!Blank EXCEPT !.note = n]
    <3>1. what \in N!Hand
      BY <1>h DEF N!Hand
    <3> QED
      BY <2>3, <3>1 DEF N!CancelFind
  <2>4. ASSUME NEW n \in Three, NEW series \in N!Kind, NEW a \in NoteAmount, N!EditFind(r, n, series, a)
        PROVE  Moved
    <3> DEFINE what == [N!Blank EXCEPT !.note = n, !.doc = [v3[n] EXCEPT !.amount = a]]
    <3>1. v3[n] \in N!Note
      BY <1>n, <2>4 DEF N!EditFind, N!Answers, N!Exists
    <3>2. [v3[n] EXCEPT !.amount = a] \in N!Note
      BY <3>1 DEF N!Note
    <3>3. what \in N!Hand
      BY <3>2 DEF N!Hand, N!Blank
    <3> QED
      BY <2>4, <3>3 DEF N!EditFind
  <2>5. ASSUME NEW approval \in BOOLEAN, N!SettingsRead(r, approval)
        PROVE  Moved
    <3> DEFINE what == [N!Blank EXCEPT !.settings = [v1 EXCEPT !.approval = approval]]
    <3>1. [v1 EXCEPT !.approval = approval] \in N!Company
      BY <1>t DEF N!Company
    <3>2. what \in N!Hand
      BY <3>1 DEF N!Hand, N!Blank
    <3> QED
      BY <2>5, <3>2 DEF N!SettingsRead
  <2>6. ASSUME NEW series \in N!Kind, NEW to \in NSteps, N!TakeNumber(r, series, to),
               hand[r].doc \in N!Note, to # "done"
        PROVE  Moved
    <3> DEFINE doc == [hand[r].doc EXCEPT !.number = <<series, v1.next[series]>>]
               what == [hand[r] EXCEPT !.doc = doc]
    <3>1. <<series, v1.next[series]>> \in N!Number
      BY <1>t DEF N!Number, N!Company, N!Seq
    <3>2. doc \in N!Note
      BY <2>6, <3>1 DEF N!Note
    <3>3. what \in N!Hand
      BY <1>h, <3>2 DEF N!Hand
    <3>4. hand' = [hand EXCEPT ![r] = what]
      BY <2>6
    <3> QED
      BY <2>6, <3>3, <3>4
  <2>7. CASE N!CreateNumber(r) \/ N!IssueNumber(r)
    <3>1. hand[r].doc \in N!Note
      BY <1>h, <2>7 DEF N!CreateNumber, N!IssueNumber, NHolds, NCreating, NIssuing
    <3>2. CASE N!CreateNumber(r)
      BY <2>6, <3>1, <3>2 DEF N!CreateNumber, N!Note
    <3>3. CASE N!IssueNumber(r)
      BY <1>h, <2>6, <3>1, <3>3 DEF N!IssueNumber, NHolds, NIssuing
    <3> QED
      BY <2>7, <3>2, <3>3
  <2>8. CASE N!CreateFlag(r)
    <3> DEFINE what == [hand[r] EXCEPT !.doc.status = "draft"]
    <3>1. CASE v1.approval
      <4>1. [hand[r].doc EXCEPT !.status = "draft"] \in N!Note
        BY <1>h, <2>8 DEF N!CreateFlag, NHolds, NCreating, N!Note
      <4>2. what \in N!Hand
        BY <1>h, <4>1 DEF N!Hand
      <4> QED
        BY <2>8, <3>1, <4>2 DEF N!CreateFlag
    <3>2. CASE ~v1.approval
      BY <1>h, <2>8, <3>2 DEF N!CreateFlag
    <3> QED
      BY <3>1, <3>2
  <2>9. ASSUME NEW n \in Three, NEW from, NEW doc, N!Write(r, from, "hook", n, doc)
        PROVE  Moved
    <3>1. [hand[r] EXCEPT !.note = n] \in N!Hand
      BY <1>h DEF N!Hand
    <3> QED
      BY <2>9, <3>1
  <2>10. CASE N!CreateInsert(r)
    BY <2>9, <2>10 DEF N!CreateInsert
  <2>11. ASSUME N!IssueWrite(r) \/ N!EditWrite(r) \/ N!CancelWrite(r)
         PROVE  Moved
    <3>1. hand[r].note \in Three
      BY <1>h, <2>11 DEF N!IssueWrite, N!EditWrite, N!CancelWrite, NHolds, NIssuing, NEditing
    <3> USE DEF NSets
    <3>2. CASE N!IssueWrite(r)
      BY <1>h, <2>9, <3>1, <3>2 DEF N!IssueWrite
    <3>3. CASE N!EditWrite(r)
      BY <1>h, <2>9, <3>1, <3>3 DEF N!EditWrite
    <3>4. CASE N!CancelWrite(r)
      BY <2>9, <3>1, <3>4 DEF N!CancelWrite
    <3> QED
      BY <2>11, <3>2, <3>3, <3>4
  <2>12. CASE N!InvoiceCount(r) \/ N!Die(r) \/ N!InvoiceDelete(r) \/ N!SettingsWrite(r) \/ N!Hook(r)
    BY <1>h, <2>12 DEF N!InvoiceCount, N!Die, N!InvoiceDelete, N!SettingsWrite, N!Hook
  <2>13. CASE N!CreateGuard(r) \/ N!EditInvoice(r)
    BY <1>h, <2>13 DEF N!CreateGuard, N!EditInvoice
  <2> HIDE DEF Moved
  <2> QED
    BY <2>1, <2>2, <2>3, <2>4, <2>5, <2>7, <2>8, <2>10, <2>11, <2>12, <2>13
      DEF NStep, N!Start, N!Step
<1>g. Good
  <2>1. CASE UNCHANGED <<v1, v3, v4>>
    BY <1>t, <2>1
  <2>2. CASE NWrites(r)
    <3>1. PICK n \in Three, doc \in N!Note : v3' = [v3 EXCEPT ![n] = doc] /\ UNCHANGED <<v1, v4>>
      <4>1. CASE NInserts(r)
        BY <1>h, <4>1 DEF NInserts, NHolds, NCreating
      <4>2. ASSUME NIssues(r) \/ NEdits(r) \/ NCancels(r)
            PROVE  hand[r].note \in Three /\ v3[hand[r].note] \in N!Note
        BY <1>n, <1>h, <4>2 DEF NIssues, NEdits, NCancels, NSets, NHolds, NIssuing, NEditing
      <4>3. CASE NIssues(r)
        <5>1. hand[r].doc \in N!Note
          BY <1>h, <4>3 DEF NIssues, NSets, NHolds, NIssuing
        <5>2. [v3[hand[r].note] EXCEPT !.status = "issued", !.number = hand[r].doc.number] \in N!Note
          BY <4>2, <4>3, <5>1 DEF N!Note
        <5> QED
          BY <4>2, <4>3, <5>2 DEF NIssues, NSets
      <4>4. CASE NEdits(r)
        <5>1. hand[r].doc \in N!Note
          BY <1>h, <4>4 DEF NEdits, NSets, NHolds, NEditing
        <5>2. [v3[hand[r].note] EXCEPT !.amount = hand[r].doc.amount] \in N!Note
          BY <4>2, <4>4, <5>1 DEF N!Note
        <5> QED
          BY <4>2, <4>4, <5>2 DEF NEdits, NSets
      <4>5. CASE NCancels(r)
        <5>2. [v3[hand[r].note] EXCEPT !.status = "cancelled"] \in N!Note
          BY <4>2, <4>5 DEF N!Note
        <5> QED
          BY <4>2, <4>5, <5>2 DEF NCancels, NSets
      <4> QED
        BY <2>2, <4>1, <4>3, <4>4, <4>5 DEF NWrites
    <3> QED
      BY <1>t, <3>1
  <2>3. CASE N!TakeNumber(r, hand[r].doc.kind, "insert") \/ N!TakeNumber(r, hand[r].series, "issue")
    <3>1. PICK series : v1' = [v1 EXCEPT !.next[series] = @ + 1] /\ UNCHANGED <<v3, v4>>
      BY <2>3
    <3>2. v1' \in N!Company
      <4>1. [v1.next EXCEPT ![series] = @ + 1] \in [N!Kind -> N!Seq]
        <5> DEFINE next == v1.next
        <5>1. next \in [N!Kind -> Nat]
          BY <1>t DEF N!Company, N!Seq
        <5> HIDE DEF next
        <5>2. [next EXCEPT ![series] = next[series] + 1] \in [N!Kind -> Nat]
          <6>1. CASE series \in N!Kind
            <7>1. next[series] + 1 \in Nat
              BY <5>1, <6>1
            <7> QED
              BY <5>1, <7>1
          <6>2. CASE series \notin N!Kind
            BY <5>1, <6>2
          <6> QED
            BY <6>1, <6>2
        <5> QED
          BY <5>2 DEF N!Seq, next
      <4> QED
        BY <1>t, <3>1, <4>1 DEF N!Company
    <3> QED
      BY <1>t, <3>1, <3>2
  <2>4. CASE N!SettingsWrite(r)
    BY <1>t, <1>h, <2>4 DEF N!SettingsWrite, NHolds
  <2>5. CASE N!Hook(r)
    <3>1. hand[r].note \in Three /\ v3[hand[r].note] \in N!Note
      BY <1>n, <1>h, <2>5 DEF N!Hook, NHolds
    <3>2. N!View(hand[r].note) \in (N!Kind \X NoteAmount) \cup {nothing}
      BY <3>1 DEF N!View, N!Note
    <3> QED
      BY <1>t, <2>5, <3>2 DEF N!Hook
  <2>6. CASE N!Start(r) \/ N!Die(r) \/ N!CreateGuard(r) \/ N!CreateFlag(r) \/ N!EditInvoice(r)
             \/ N!InvoiceDelete(r)
    BY <2>1, <2>6 DEF N!Start, N!Die, N!CreateFind, N!IssueFind, N!CancelFind, N!EditFind,
      N!InvoiceCount, N!SettingsRead, N!CreateGuard, N!CreateFlag, N!EditInvoice, N!InvoiceDelete
  <2>7. CASE N!IssueWrite(r) \/ N!EditWrite(r) \/ N!CancelWrite(r) \/ N!CreateInsert(r)
    <3>1. UNCHANGED v3 \/ NWrites(r)
      BY NotesWrite
    <3> HIDE DEF N!Goto
    <3>2. UNCHANGED <<v1, v4>>
      BY <2>7 DEF N!IssueWrite, N!EditWrite, N!CancelWrite, N!CreateInsert
    <3> QED
      BY <2>1, <2>2, <3>1, <3>2
  <2> HIDE DEF Good
  <2> QED
    BY <2>3, <2>4, <2>5, <2>6, <2>7 DEF NStep, N!Step, N!CreateNumber, N!IssueNumber
<1> QED
  <2> HIDE DEF Good
  <2>1. PICK at \in NSteps, what \in N!Hand :
          pc' = [pc EXCEPT ![r] = at] /\ hand' = [hand EXCEPT ![r] = what]
    BY <1>p
  <2>2. pc' \in [Three -> NSteps] /\ hand' \in [Three -> N!Hand]
    BY <1>t, <2>1
  <2> QED
    BY <1>m, <1>g, <2>2 DEF Good, NTyped, N!TypeOK

(* No note goes, and none comes but the one that is inserted.              *)
LEMMA NotesStay ==
  ASSUME NTyped, NHeld, NEW r \in Three, NStep(r)
  PROVE  \A n \in Three :
           /\ v3[n] # nothing => v3'[n] # nothing
           /\ v3[n] = nothing => v3'[n] = nothing \/ (n = r /\ pc[r] = "insert")
<1>t. v3 \in [Three -> N!Note \cup {nothing}] /\ v3' \in [Three -> N!Note \cup {nothing}] /\ NHolds(r)
  BY NotesTyped DEF NTyped, N!TypeOK, NHeld
<1>1. CASE NInserts(r)
  <2>1. hand[r].doc # nothing
    BY <1>t, <1>1, OfficeNotes DEF NInserts, NHolds, NCreating
  <2> QED
    BY <1>t, <1>1, <2>1 DEF NInserts
<1>2. CASE NIssues(r) \/ NEdits(r) \/ NCancels(r)
  <2> DEFINE n == hand[r].note
  <2>1. n \in Three /\ v3[n] # nothing /\ v3[n] \in N!Note
    BY <1>t, <1>2 DEF NIssues, NEdits, NCancels, NSets, NHolds, NIssuing, NEditing
  <2>2. /\ hand[r].doc \in N!Note \/ NCancels(r)
    BY <1>t, <1>2 DEF NIssues, NEdits, NSets, NHolds, NIssuing, NEditing
  <2> HIDE DEF n
  <2>3. /\ [v3[n] EXCEPT !.status = "cancelled"] \in N!Note
        /\ hand[r].doc \in N!Note =>
             /\ [v3[n] EXCEPT !.status = "issued", !.number = hand[r].doc.number] \in N!Note
             /\ [v3[n] EXCEPT !.amount = hand[r].doc.amount] \in N!Note
    BY <2>1 DEF N!Note
  <2>4. PICK d \in N!Note : v3' = [v3 EXCEPT ![n] = d]
    BY <1>2, <2>2, <2>3 DEF NIssues, NEdits, NCancels, NSets, n
  <2>5. d # nothing
    BY <2>4, OfficeNotes
  <2> QED
    BY <1>t, <2>1, <2>4, <2>5
<1> QED
  BY <1>1, <1>2, NotesWrite DEF NWrites

LEMMA NotesHold ==
  ASSUME NTyped, NHeld, NEW r \in Three, NStep(r)
  PROVE  NHeld'
<1> USE DEF N!Goto, N!Begin, N!Read, N!Write, N!Mark, N!TakeNumber
<1>t. /\ pc \in [Three -> NSteps] /\ hand \in [Three -> N!Hand] /\ v3 \in [Three -> N!Note \cup {nothing}]
      /\ NTyped' /\ v1 \in N!Company
  BY NotesTyped DEF NTyped, N!TypeOK
<1>h. hand[r] \in N!Hand /\ NHolds(r) /\ N!Blank \in N!Hand
  BY <1>t DEF NHeld, N!Blank, N!Hand
<1>n. \A n \in Three : v3[n] # nothing => v3[n] \in N!Note
  BY <1>t
<1>s. \A n \in Three :
        /\ v3[n] # nothing => v3'[n] # nothing
        /\ v3[n] = nothing => v3'[n] = nothing \/ (n = r /\ pc[r] = "insert")
  BY NotesStay
<1>k. NHolds(r)'
  <2> USE DEF NHolds, NCreating, NIssuing, NEditing
  <2>u. pc[r] # "insert" /\ v3[r] = nothing => v3'[r] = nothing
    BY <1>s
  <2>1. ASSUME NEW kind \in N!Kind, NEW a \in NoteAmount, N!CreateFind(r, kind, a)
        PROVE  NHolds(r)'
    <3> DEFINE doc == [kind |-> kind, amount |-> a, status |-> "issued", number |-> nothing]
    <3>1. doc \in N!Note
      BY <2>1 DEF N!Note
    <3>2. /\ pc'[r] = IF kind = "credit" THEN "guard" ELSE "flag"
          /\ hand'[r].note = nothing /\ hand'[r].doc = doc /\ v3'[r] = nothing
      BY <1>t, <1>h, <2>1 DEF N!CreateFind, N!Blank
    <3> QED
      BY <3>1, <3>2, OfficeNotes
  <2>2. ASSUME NEW n \in Three, NEW series \in N!Kind, N!IssueFind(r, n, series)
        PROVE  NHolds(r)'
    <3>1. v3[n] # nothing /\ v3[n] \in N!Note
      BY <1>n, <2>2 DEF N!IssueFind, N!Answers, N!Exists
    <3>2. /\ pc'[r] = "number" /\ v3'[n] = v3[n]
          /\ hand'[r].note = n /\ hand'[r].doc = v3[n] /\ hand'[r].series = series
      BY <1>t, <1>h, <2>2 DEF N!IssueFind, N!Blank
    <3> QED
      BY <3>1, <3>2, OfficeNotes
  <2>3. ASSUME NEW n \in Three, NEW series \in N!Kind, N!CancelFind(r, n, series)
        PROVE  NHolds(r)'
    <3>1. v3[n] # nothing
      BY <2>3 DEF N!CancelFind, N!Answers, N!Exists
    <3>2. pc'[r] = "cancel" /\ v3'[n] = v3[n] /\ hand'[r].note = n
      BY <1>t, <1>h, <2>3 DEF N!CancelFind, N!Blank
    <3> QED
      BY <3>1, <3>2
  <2>4. ASSUME NEW n \in Three, NEW series \in N!Kind, NEW a \in NoteAmount, N!EditFind(r, n, series, a)
        PROVE  NHolds(r)'
    <3>1. v3[n] # nothing /\ v3[n] \in N!Note
      BY <1>n, <2>4 DEF N!EditFind, N!Answers, N!Exists
    <3>2. [v3[n] EXCEPT !.amount = a] \in N!Note
      BY <3>1 DEF N!Note
    <3>3. /\ pc'[r] = "edit invoice" /\ v3'[n] = v3[n]
          /\ hand'[r].note = n /\ hand'[r].doc = [v3[n] EXCEPT !.amount = a]
      BY <1>t, <1>h, <2>4 DEF N!EditFind, N!Blank
    <3> QED
      BY <3>1, <3>2, <3>3
  <2>5. ASSUME NEW approval \in BOOLEAN, N!SettingsRead(r, approval)
        PROVE  NHolds(r)'
    <3>1. [v1 EXCEPT !.approval = approval] \in N!Company
      BY <1>t DEF N!Company
    <3>2. pc'[r] = "save" /\ hand'[r].settings = [v1 EXCEPT !.approval = approval]
      BY <1>t, <1>h, <2>5 DEF N!SettingsRead, N!Blank
    <3> HIDE DEF N!Begin
    <3>3. N!Company' = N!Company
      BY DEF N!Company, N!Kind, N!Seq
    <3> QED
      BY <3>1, <3>2
  <2>6. CASE N!CreateNumber(r)
    <3> DEFINE number == <<hand[r].doc.kind, v1.next[hand[r].doc.kind]>>
    <3>1. hand[r].doc \in N!Note /\ hand[r].doc.status = "issued"
      BY <1>h, <2>6 DEF N!CreateNumber
    <3>2. number \in N!Number
      BY <1>t, <3>1 DEF N!Number, N!Company, N!Seq, N!Note
    <3>3. /\ [hand[r].doc EXCEPT !.number = number] \in N!Note
          /\ [hand[r].doc EXCEPT !.number = number].status = "issued"
      BY <3>1, <3>2 DEF N!Note
    <3>4. /\ pc'[r] = "insert" /\ v3'[r] = v3[r]
          /\ hand'[r].doc = [hand[r].doc EXCEPT !.number = number]
          /\ hand'[r].note = hand[r].note
      <4> HIDE DEF NHolds, NCreating, NIssuing, NEditing
      <4>1. /\ pc' = [pc EXCEPT ![r] = "insert"] /\ v3' = v3
            /\ hand' = [hand EXCEPT ![r] = [hand[r] EXCEPT !.doc.number = number]]
        BY <2>6 DEF N!CreateNumber
      <4> QED
        BY <1>t, <1>h, <4>1 DEF N!Hand
    <3>5. v3[r] = nothing /\ hand[r].note = nothing
      BY <1>h, <2>6 DEF N!CreateNumber
    <3> HIDE DEF number
    <3> QED
      BY <3>3, <3>4, <3>5
  <2>7. CASE N!IssueNumber(r)
    <3> DEFINE n == hand[r].note
               number == <<hand[r].series, v1.next[hand[r].series]>>
    <3>1. hand[r].doc \in N!Note /\ n \in Three /\ v3[n] # nothing /\ hand[r].series \in N!Kind
      BY <1>h, <2>7 DEF N!IssueNumber
    <3>2. number \in N!Number /\ number # nothing
      BY <1>t, <3>1, OfficeNotes DEF N!Number, N!Company, N!Seq
    <3>3. /\ [hand[r].doc EXCEPT !.number = number] \in N!Note
          /\ [hand[r].doc EXCEPT !.number = number].number = number
      BY <3>1, <3>2 DEF N!Note
    <3>4. /\ pc'[r] = "issue" /\ v3' = v3 /\ hand'[r].note = n /\ hand'[r].series = hand[r].series
          /\ hand'[r].doc = [hand[r].doc EXCEPT !.number = number]
      <4> HIDE DEF NHolds, NCreating, NIssuing, NEditing
      <4>1. /\ pc' = [pc EXCEPT ![r] = "issue"] /\ v3' = v3
            /\ hand' = [hand EXCEPT ![r] = [hand[r] EXCEPT !.doc.number = number]]
        BY <2>7 DEF N!IssueNumber
      <4> QED
        BY <1>t, <1>h, <4>1 DEF N!Hand
    <3> HIDE DEF number, n
    <3> QED
      BY <3>1, <3>2, <3>3, <3>4
  <2>8. CASE N!CreateFlag(r)
    <3>1. /\ hand[r].doc \in N!Note /\ v3[r] = nothing /\ hand[r].note = nothing
          /\ hand[r].doc.number = nothing /\ hand[r].doc.status = "issued"
      BY <1>h, <2>8 DEF N!CreateFlag, N!Hand
    <3>2. CASE v1.approval
      <4> DEFINE draft == [hand[r].doc EXCEPT !.status = "draft"]
      <4>1. draft \in N!Note /\ draft.status = "draft"
        BY <3>1 DEF N!Note
      <4>2. /\ pc'[r] = "insert" /\ v3'[r] = v3[r]
            /\ hand'[r].doc = draft /\ hand'[r].note = hand[r].note
        <5> HIDE DEF NHolds, NCreating, NIssuing, NEditing
        <5>1. /\ pc' = [pc EXCEPT ![r] = "insert"] /\ v3' = v3
              /\ hand' = [hand EXCEPT ![r] = [hand[r] EXCEPT !.doc.status = "draft"]]
          BY <2>8, <3>2 DEF N!CreateFlag
        <5> QED
          BY <1>t, <1>h, <5>1 DEF N!Hand
      <4> HIDE DEF draft
      <4> QED
        BY <3>1, <4>1, <4>2
    <3>3. CASE ~v1.approval
      <4>1. pc'[r] = "number" /\ v3' = v3 /\ hand'[r] = hand[r] /\ pc[r] = "flag"
        BY <1>t, <2>8, <3>3 DEF N!CreateFlag
      <4>2. hand[r].note = nothing
        BY <1>h, <4>1
      <4> QED
        BY <3>1, <4>1, <4>2
    <3> QED
      BY <3>2, <3>3
  <2>9. ASSUME NWrites(r), pc'[r] = "hook",
               hand'[r].note = IF pc[r] = "insert" THEN r ELSE hand[r].note
        PROVE  NHolds(r)'
    <3>1. hand'[r].note \in Three /\ v3'[hand'[r].note] # nothing
      <4>1. CASE pc[r] = "insert"
        <5>1. v3' = [v3 EXCEPT ![r] = hand[r].doc] /\ hand[r].doc # nothing
          BY <1>h, <2>9, <4>1, OfficeNotes DEF NWrites, NInserts, NIssues, NEdits, NCancels, NSets
        <5> QED
          BY <1>t, <2>9, <4>1, <5>1
      <4>2. CASE pc[r] # "insert"
        BY <1>h, <1>s, <2>9, <4>2 DEF NWrites, NInserts, NIssues, NEdits, NCancels, NSets
      <4> QED
        BY <4>1, <4>2
    <3> QED
      BY <2>9, <3>1
  <2>10. CASE N!CreateGuard(r) \/ N!EditInvoice(r)
    <3>1. CASE N!CreateGuard(r)
      <4>1. /\ pc'[r] \in {"flag", "done"} /\ v3' = v3 /\ pc[r] = "guard"
            /\ pc'[r] = "flag" => hand'[r] = hand[r]
        BY <1>t, <3>1 DEF N!CreateGuard
      <4> QED
        BY <1>h, <4>1
    <3>2. CASE N!EditInvoice(r)
      <4>1. /\ pc'[r] \in {"edit", "done"} /\ v3' = v3 /\ pc[r] = "edit invoice"
            /\ pc'[r] = "edit" => hand'[r] = hand[r]
        BY <1>t, <3>2 DEF N!EditInvoice
      <4> QED
        BY <1>h, <4>1
    <3> QED
      BY <2>10, <3>1, <3>2
  <2>11. ASSUME N!IssueWrite(r) \/ N!EditWrite(r) \/ N!CancelWrite(r) \/ N!CreateInsert(r)
         PROVE  NHolds(r)'
    <3>1. CASE NWrites(r) /\ pc'[r] = "hook" /\ hand'[r].note = IF pc[r] = "insert" THEN r ELSE hand[r].note
      BY <2>9, <3>1
    <3>2. CASE UNCHANGED v3
      <4>1. CASE N!IssueWrite(r)
        <5>1. CASE v3[hand[r].note].status = "draft"
          <6>1. /\ pc' = [pc EXCEPT ![r] = "hook"]
                /\ hand' = [hand EXCEPT ![r] = [hand[r] EXCEPT !.note = hand[r].note]]
            BY <4>1, <5>1 DEF N!IssueWrite
          <6>2. pc'[r] = "hook" /\ hand'[r].note = hand[r].note
            <7> HIDE DEF NHolds, NCreating, NIssuing, NEditing
            <7> QED
              BY <1>t, <1>h, <6>1 DEF N!Hand
          <6>3. hand[r].note \in Three /\ v3[hand[r].note] # nothing
            BY <1>h, <4>1 DEF N!IssueWrite
          <6> QED
            BY <3>2, <6>2, <6>3
        <5>2. CASE v3[hand[r].note].status # "draft"
          BY <1>t, <4>1, <5>2 DEF N!IssueWrite
        <5> QED
          BY <5>1, <5>2
      <4>2. CASE N!EditWrite(r) \/ N!CancelWrite(r) \/ N!CreateInsert(r)
        <5>1. /\ pc'[r] = "hook"
              /\ hand'[r].note = IF pc[r] = "insert" THEN r ELSE hand[r].note
          <6>1. /\ pc' = [pc EXCEPT ![r] = "hook"]
                /\ \/ hand' = [hand EXCEPT ![r] = [hand[r] EXCEPT !.note =
                                   IF pc[r] = "insert" THEN r ELSE hand[r].note]]
                   \/ hand' = [hand EXCEPT ![r] = hand[r]] /\ pc[r] # "insert"
            <7> HIDE DEF NHolds, NCreating, NIssuing, NEditing
            <7> QED
              BY <4>2 DEF N!EditWrite, N!CancelWrite, N!CreateInsert
          <6> HIDE DEF NHolds, NCreating, NIssuing, NEditing
          <6> QED
            BY <1>t, <1>h, <6>1 DEF N!Hand
        <5>2. CASE pc[r] = "insert"
          <6>1. v3' = [v3 EXCEPT ![r] = hand[r].doc] /\ hand[r].doc # nothing
            BY <1>h, <4>2, <5>2, OfficeNotes DEF N!EditWrite, N!CancelWrite, N!CreateInsert
          <6>2. v3'[r] # nothing
            <7> HIDE DEF NHolds, NCreating, NIssuing, NEditing
            <7> QED
              BY <1>t, <6>1
          <6> QED
            BY <5>1, <5>2, <6>2
        <5>3. CASE pc[r] # "insert"
          <6>1. hand[r].note \in Three /\ v3[hand[r].note] # nothing
            BY <1>h, <4>2, <5>3 DEF N!EditWrite, N!CancelWrite, N!CreateInsert
          <6> QED
            BY <3>2, <5>1, <5>3, <6>1
        <5> QED
          BY <5>2, <5>3
      <4> QED
        BY <2>11, <4>1, <4>2
    <3> QED
      BY <3>1, <3>2, NotesWrite
  <2>12. CASE N!InvoiceCount(r) \/ N!Die(r) \/ N!InvoiceDelete(r) \/ N!SettingsWrite(r) \/ N!Hook(r)
    <3>1. pc'[r] \in {"delete invoice", "done"}
      <4> HIDE DEF NHolds, NCreating, NIssuing, NEditing
      <4> QED
        BY <1>t, <2>12 DEF N!InvoiceCount, N!Die, N!InvoiceDelete, N!SettingsWrite, N!Hook
    <3> QED
      BY <3>1
  <2> HIDE DEF NHolds, NCreating, NIssuing, NEditing
  <2> QED
    BY <2>1, <2>2, <2>3, <2>4, <2>5, <2>6, <2>7, <2>8, <2>10, <2>11, <2>12
      DEF NStep, N!Start, N!Step
<1>o. ASSUME NEW q \in Three, q # r
      PROVE  NHolds(q)'
  <2>1. pc'[q] = pc[q] /\ hand'[q] = hand[q]
    BY <1>t, <1>o DEF NStep, N!Start, N!Step, N!Die, N!CreateFind, N!IssueFind, N!CancelFind, N!EditFind,
      N!InvoiceCount, N!SettingsRead, N!CreateGuard, N!CreateFlag, N!CreateNumber, N!CreateInsert,
      N!IssueNumber, N!IssueWrite, N!CancelWrite, N!EditInvoice, N!EditWrite, N!InvoiceDelete,
      N!SettingsWrite, N!Hook
  <2>2. NHolds(q)
    BY DEF NHeld
  <2> QED
    BY <1>s, <1>o, <2>1, <2>2 DEF NHolds, NCreating, NIssuing, NEditing, N!Note, N!Company, N!Kind, N!Seq
<1> QED
  BY <1>k, <1>o DEF NHeld

(* What a step does to the numbers: it leaves them, takes the next one, or *)
(* gives a note the one in hand.                                           *)
NKeeps == \A x \in Three : NNumber(x)' = NNumber(x) /\ NInHand(x)' \in {NInHand(x), nothing}
NTakes(r) ==
  \E kind \in N!Kind :
    /\ NInHand(r)' = <<kind, v1.next[kind]>>
    /\ v1' = [v1 EXCEPT !.next[kind] = @ + 1]
    /\ \A x \in Three : NNumber(x)' = NNumber(x) /\ (x # r => NInHand(x)' = NInHand(x))
NGives(r) ==
  \E n \in Three :
    /\ NNumber(n)' = NInHand(r) /\ NInHand(r)' = nothing
    /\ \A x \in Three : (x # n => NNumber(x)' = NNumber(x)) /\ (x # r => NInHand(x)' = NInHand(x))

LEMMA NotesCount ==
  ASSUME NTyped, NHeld, NTyped', NHeld', NEW r \in Three, NStep(r)
  PROVE  /\ "rolled back" \in marred => "rolled back" \in marred'
         /\ \/ NKeeps /\ (v1' = v1 \/ N!SettingsWrite(r))
            \/ NTakes(r)
            \/ NGives(r) /\ v1' = v1
<1> USE DEF N!Goto, N!Begin, N!Read, N!Write, N!Mark, N!TakeNumber
<1>t. /\ pc \in [Three -> NSteps] /\ hand \in [Three -> N!Hand] /\ v3 \in [Three -> N!Note \cup {nothing}]
  BY DEF NTyped, N!TypeOK
<1>h. hand[r] \in N!Hand /\ NHolds(r)
  BY <1>t DEF NHeld
<1>n. \A n \in Three : v3[n] # nothing => v3[n] \in N!Note
  BY <1>t
<1>o. \A x \in Three : x # r => pc'[x] = pc[x] /\ hand'[x] = hand[x]
  BY <1>t DEF NStep, N!Start, N!Step, N!Die, N!CreateFind, N!IssueFind, N!CancelFind, N!EditFind,
    N!InvoiceCount, N!SettingsRead, N!CreateGuard, N!CreateFlag, N!CreateNumber, N!CreateInsert,
    N!IssueNumber, N!IssueWrite, N!CancelWrite, N!EditInvoice, N!EditWrite, N!InvoiceDelete,
    N!SettingsWrite, N!Hook
<1>i. \A x \in Three : x # r => NInHand(x)' = NInHand(x)
  BY <1>o DEF NInHand
<1>m. "rolled back" \in marred => "rolled back" \in marred'
  BY DEF NStep, N!Start, N!Step, N!Die, N!CreateFind, N!IssueFind, N!CancelFind, N!EditFind,
    N!InvoiceCount, N!SettingsRead, N!CreateGuard, N!CreateFlag, N!CreateNumber, N!CreateInsert,
    N!IssueNumber, N!IssueWrite, N!CancelWrite, N!EditInvoice, N!EditWrite, N!InvoiceDelete,
    N!SettingsWrite, N!Hook
<1>1. ASSUME UNCHANGED v3, pc'[r] \notin {"insert", "issue"}
      PROVE  NKeeps
  BY <1>i, <1>1 DEF NKeeps, NNumber, NInHand
<1>2. CASE N!Start(r) \/ N!Die(r) \/ N!CreateGuard(r) \/ N!EditInvoice(r) \/ N!InvoiceDelete(r)
           \/ N!Hook(r) \/ N!SettingsWrite(r)
  <2>1. UNCHANGED v3 /\ pc'[r] \notin {"insert", "issue"} /\ (v1' = v1 \/ N!SettingsWrite(r))
    BY <1>t, <1>2 DEF N!Start, N!Die, N!CreateFind, N!IssueFind, N!CancelFind, N!EditFind,
      N!InvoiceCount, N!SettingsRead, N!CreateGuard, N!EditInvoice, N!InvoiceDelete,
      N!SettingsWrite, N!Hook
  <2> QED
    BY <1>1, <1>m, <2>1
<1>3. CASE N!CreateFlag(r)
  <2>1. hand[r].doc.number = nothing /\ hand[r].doc \in N!Note /\ v3' = v3 /\ v1' = v1
    BY <1>h, <1>3 DEF N!CreateFlag, NHolds, NCreating
  <2>2. CASE v1.approval
    <3> DEFINE draft == [hand[r].doc EXCEPT !.status = "draft"]
    <3>1. draft.number = nothing
      BY <2>1 DEF N!Note
    <3>2. hand' = [hand EXCEPT ![r] = [hand[r] EXCEPT !.doc = draft]]
      BY <1>3, <2>2 DEF N!CreateFlag
    <3>3. hand'[r].doc = draft
      BY <1>t, <1>h, <3>2 DEF N!Hand
    <3>4. NInHand(r)' = nothing
      BY <3>1, <3>3 DEF NInHand
    <3> QED
      BY <1>i, <1>m, <2>1, <3>4 DEF NKeeps, NNumber
  <2>3. CASE ~v1.approval
    <3>1. pc'[r] = "number"
      BY <1>t, <1>3, <2>3 DEF N!CreateFlag
    <3> QED
      BY <1>1, <1>m, <2>1, <3>1
  <2> QED
    BY <2>2, <2>3
<1>4. CASE N!CreateNumber(r) \/ N!IssueNumber(r)
  <2> DEFINE kind == IF hand[r].note = nothing THEN hand[r].doc.kind ELSE hand[r].series
             number == <<kind, v1.next[kind]>>
  <2>1. hand[r].doc \in N!Note /\ kind \in N!Kind
    BY <1>h, <1>4 DEF N!CreateNumber, N!IssueNumber, NHolds, NCreating, NIssuing, N!Note
  <2>2. /\ pc' = [pc EXCEPT ![r] = IF hand[r].note = nothing THEN "insert" ELSE "issue"]
        /\ hand' = [hand EXCEPT ![r] = [hand[r] EXCEPT !.doc.number = number]]
        /\ v1' = [v1 EXCEPT !.next[kind] = @ + 1] /\ v3' = v3
    BY <1>4 DEF N!CreateNumber, N!IssueNumber
  <2> HIDE DEF kind
  <2>3. hand'[r].doc = [hand[r].doc EXCEPT !.number = number]
    <3> HIDE DEF number
    <3> QED
      BY <1>t, <1>h, <2>2 DEF N!Hand
  <2>4. hand'[r].doc.number = number
    <3> HIDE DEF number
    <3> QED
      BY <2>1, <2>3 DEF N!Note
  <2>5. pc'[r] \in {"insert", "issue"}
    BY <1>t, <2>2
  <2>6. NInHand(r)' = number
    BY <2>4, <2>5 DEF NInHand
  <2>7. \A x \in Three : NNumber(x)' = NNumber(x)
    BY <2>2 DEF NNumber
  <2>8. NTakes(r)
    BY <1>i, <2>1, <2>2, <2>6, <2>7 DEF NTakes
  <2> QED
    BY <1>m, <2>8
<1>5. CASE N!CreateInsert(r) \/ N!IssueWrite(r) \/ N!EditWrite(r) \/ N!CancelWrite(r)
  <2>1. v1' = v1 /\ pc'[r] \notin {"insert", "issue"}
    BY <1>t, <1>5 DEF N!CreateInsert, N!IssueWrite, N!EditWrite, N!CancelWrite
  <2>2. NInHand(r)' = nothing
    BY <2>1 DEF NInHand
  <2>3. CASE UNCHANGED v3
    BY <1>1, <1>m, <2>1, <2>3
  <2>4. CASE NInserts(r)
    <3>1. hand[r].doc # nothing /\ v3' = [v3 EXCEPT ![r] = hand[r].doc] /\ pc[r] = "insert"
      BY <1>h, <2>4, OfficeNotes DEF NInserts, NHolds, NCreating
    <3>2. NNumber(r)' = NInHand(r)
      BY <1>t, <3>1 DEF NNumber, NInHand
    <3>3. \A x \in Three : x # r => NNumber(x)' = NNumber(x)
      BY <1>t, <3>1 DEF NNumber
    <3>4. NGives(r)
      BY <1>i, <2>2, <3>2, <3>3 DEF NGives
    <3> QED
      BY <1>m, <2>1, <3>4
  <2>5. CASE NIssues(r) \/ NEdits(r) \/ NCancels(r)
    <3>0. hand[r].note \in Three /\ v3[hand[r].note] # nothing
      BY <1>h, <2>5 DEF NIssues, NEdits, NCancels, NSets, NHolds, NIssuing, NEditing
    <3>n. PICK n \in Three : n = hand[r].note
      BY <3>0
    <3>1. v3[n] # nothing /\ v3[n] \in N!Note
      BY <1>n, <3>0, <3>n
    <3>2. CASE NIssues(r)
      <4> DEFINE d == [v3[n] EXCEPT !.status = "issued", !.number = hand[r].doc.number]
      <4>1. v3' = [v3 EXCEPT ![n] = d] /\ pc[r] = "issue"
        BY <3>2, <3>n DEF NIssues, NSets
      <4>2. d.number = hand[r].doc.number
        BY <3>1 DEF N!Note
      <4> HIDE DEF d
      <4>3. \A x \in Three : x # n => NNumber(x)' = NNumber(x)
        BY <1>t, <3>1, <4>1 DEF NNumber
      <4>4. v3'[n] = d /\ v3'[n] # nothing
        BY <1>t, <3>1, <4>1, NotesStay
      <4>5. NNumber(n)' = hand[r].doc.number
        BY <4>2, <4>4 DEF NNumber
      <4>6. NNumber(n)' = NInHand(r)
        BY <4>1, <4>5 DEF NInHand
      <4>7. NGives(r)
        BY <1>i, <2>2, <3>1, <4>3, <4>6 DEF NGives
      <4> QED
        BY <1>m, <2>1, <4>7
    <3>3. CASE NEdits(r) \/ NCancels(r)
      <4>1. PICK d : v3' = [v3 EXCEPT ![n] = d] /\ d.number = v3[n].number
        <5>1. \A a : [v3[n] EXCEPT !.amount = a].number = v3[n].number
          BY <3>1 DEF N!Note
        <5>2. [v3[n] EXCEPT !.status = "cancelled"].number = v3[n].number
          BY <3>1 DEF N!Note
        <5> QED
          <6>1. CASE NEdits(r)
            BY <3>n, <5>1, <6>1 DEF NEdits, NSets
          <6>2. CASE NCancels(r)
            BY <3>n, <5>2, <6>2 DEF NCancels, NSets
          <6> QED
            BY <3>3, <6>1, <6>2
      <4>2. \A x \in Three : x # n => NNumber(x)' = NNumber(x)
        BY <1>t, <3>1, <4>1 DEF NNumber
      <4>3. v3'[n] = d /\ v3'[n] # nothing
        BY <1>t, <3>1, <4>1, NotesStay
      <4>4. NNumber(n)' = NNumber(n)
        BY <3>1, <4>1, <4>3 DEF NNumber
      <4>5. NKeeps
        BY <1>i, <2>2, <4>2, <4>4 DEF NKeeps
      <4> QED
        BY <1>m, <2>1, <4>5
    <3> QED
      BY <2>5, <3>2, <3>3
  <2> QED
    BY <2>3, <2>4, <2>5, NotesWrite DEF NWrites
<1> QED
  BY <1>2, <1>3, <1>4, <1>5 DEF NStep, N!Step

LEMMA NotesNumbered ==
  ASSUME NTyped, NHeld, NTyped', NHeld', NNumbers, NEW r \in Three, NStep(r)
  PROVE  NNumbers'
<1>a. SUFFICES ASSUME "rolled back" \notin marred'
               PROVE  /\ \A x \in Three : NBelow(NNumber(x)', v1'.next) /\ NBelow(NInHand(x)', v1'.next)
                      /\ \A x, y \in Three :
                           /\ NNumber(x)' # nothing => NNumber(x)' # NInHand(y)'
                           /\ x # y /\ NNumber(x)' # nothing => NNumber(x)' # NNumber(y)'
                           /\ x # y /\ NInHand(x)' # nothing => NInHand(x)' # NInHand(y)'
  BY DEF NNumbers, NApart, NBelow
<1>1. /\ \A x \in Three : NBelow(NNumber(x), v1.next) /\ NBelow(NInHand(x), v1.next)
      /\ \A x, y \in Three :
           /\ NNumber(x) # nothing => NNumber(x) # NInHand(y)
           /\ x # y /\ NNumber(x) # nothing => NNumber(x) # NNumber(y)
           /\ x # y /\ NInHand(x) # nothing => NInHand(x) # NInHand(y)
  <2>1. NApart
    BY <1>a, NotesCount DEF NNumbers
  <2> QED
    BY <2>1 DEF NApart
<1>t. /\ v1 \in N!Company /\ v1' \in N!Company
      /\ pc \in [Three -> NSteps] /\ hand \in [Three -> N!Hand] /\ v3 \in [Three -> N!Note \cup {nothing}]
  BY DEF NTyped, N!TypeOK, N!Company, N!Kind, N!Seq
<1>2. \A x \in Three : /\ NNumber(x) \in N!Number \cup {nothing}
                       /\ NInHand(x) \in N!Number \cup {nothing}
  <2> SUFFICES ASSUME NEW x \in Three
               PROVE  NNumber(x) \in N!Number \cup {nothing} /\ NInHand(x) \in N!Number \cup {nothing}
    OBVIOUS
  <2>1. NNumber(x) \in N!Number \cup {nothing}
    BY <1>t DEF NNumber, N!Note
  <2>2. NHolds(x)
    BY DEF NHeld
  <2>3. pc[x] \in {"insert", "issue"} => hand[x].doc \in N!Note
    BY <2>2 DEF NHolds, NCreating, NIssuing
  <2>4. NInHand(x) \in N!Number \cup {nothing}
    BY <2>3 DEF NInHand, N!Note
  <2> QED
    BY <2>1, <2>4
<1>n. nothing \notin N!Number
  BY OfficeNotes
<1>c. \A kind \in N!Kind : v1.next[kind] \in Nat /\ v1'.next[kind] \in Nat
  BY <1>t DEF N!Company, N!Seq
<1>p. \A number \in N!Number : number[1] \in N!Kind /\ number[2] \in Nat
  BY DEF N!Number, N!Seq
<1>3. CASE NKeeps /\ (v1' = v1 \/ N!SettingsWrite(r))
  <2>1. \A kind \in N!Kind : v1.next[kind] <= v1'.next[kind]
    <3>1. CASE v1' = v1
      BY <1>c, <3>1
    <3>2. CASE N!SettingsWrite(r)
      <4>1. \A kind \in N!Kind : ~(v1'.next[kind] < v1.next[kind])
        <5> DEFINE lost == {k \in N!Kind : hand[r].settings.next[k] < v1.next[k]}
        <5>1. lost = {}
          BY <1>a, <3>2 DEF N!SettingsWrite, N!Mark
        <5>2. v1' = hand[r].settings
          BY <3>2 DEF N!SettingsWrite
        <5> QED
          BY <5>1, <5>2
      <4> QED
        BY <1>c, <4>1
    <3> QED
      BY <1>3, <3>1, <3>2
  <2>2. \A number \in N!Number \cup {nothing} : NBelow(number, v1.next) => NBelow(number, v1'.next)
    BY <1>c, <1>p, <2>1 DEF NBelow
  <2>3. \A x \in Three : NNumber(x)' = NNumber(x) /\ NInHand(x)' \in {NInHand(x), nothing}
    BY <1>3 DEF NKeeps
  <2>4. \A x \in Three : NBelow(NNumber(x)', v1'.next) /\ NBelow(NInHand(x)', v1'.next)
    BY <1>1, <1>2, <2>2, <2>3 DEF NBelow
  <2> QED
    BY <1>1, <2>3, <2>4
<1>4. CASE NTakes(r)
  <2>1. PICK kind \in N!Kind :
          /\ NInHand(r)' = <<kind, v1.next[kind]>>
          /\ v1' = [v1 EXCEPT !.next[kind] = @ + 1]
          /\ \A x \in Three : NNumber(x)' = NNumber(x) /\ (x # r => NInHand(x)' = NInHand(x))
    BY <1>4 DEF NTakes
  <2> DEFINE new == <<kind, v1.next[kind]>>
  <2>2. new \in N!Number /\ new # nothing /\ new[1] = kind /\ new[2] = v1.next[kind]
    BY <1>c, <1>n DEF N!Number, N!Seq
  <2> HIDE DEF new
  <2>3. v1'.next = [v1.next EXCEPT ![kind] = @ + 1]
    BY <1>t, <2>1 DEF N!Company
  <2>4. v1.next \in [N!Kind -> Nat]
    BY <1>t DEF N!Company, N!Seq
  <2>5. \A k \in N!Kind : v1'.next[k] = IF k = kind THEN v1.next[k] + 1 ELSE v1.next[k]
    BY <2>3, <2>4
  <2>6. \A number \in N!Number \cup {nothing} : NBelow(number, v1.next) =>
          NBelow(number, v1'.next) /\ number # new
    BY <1>c, <1>p, <2>2, <2>5 DEF NBelow
  <2>7. NBelow(new, v1'.next)
    BY <1>c, <2>2, <2>5 DEF NBelow
  <2>8. NInHand(r)' = new
    BY <2>1 DEF new
  <2>9. \A x \in Three : NNumber(x)' = NNumber(x) /\ (x # r => NInHand(x)' = NInHand(x))
    BY <2>1
  <2>10. \A x \in Three : /\ NBelow(NNumber(x), v1'.next) /\ NNumber(x) # new
                         /\ NBelow(NInHand(x), v1'.next) /\ NInHand(x) # new
    BY <1>1, <1>2, <2>6
  <2>11. \A x \in Three : NBelow(NNumber(x)', v1'.next) /\ NBelow(NInHand(x)', v1'.next)
    BY <2>7, <2>8, <2>9, <2>10
  <2>12. \A x, y \in Three :
           /\ NNumber(x)' # nothing => NNumber(x)' # NInHand(y)'
           /\ x # y /\ NNumber(x)' # nothing => NNumber(x)' # NNumber(y)'
           /\ x # y /\ NInHand(x)' # nothing => NInHand(x)' # NInHand(y)'
    BY <1>1, <2>8, <2>9, <2>10
  <2> QED
    BY <2>11, <2>12
<1>5. CASE NGives(r) /\ v1' = v1
  <2>1. PICK n \in Three :
          /\ NNumber(n)' = NInHand(r) /\ NInHand(r)' = nothing
          /\ \A x \in Three : (x # n => NNumber(x)' = NNumber(x)) /\ (x # r => NInHand(x)' = NInHand(x))
    BY <1>5 DEF NGives
  <2>2. \A x \in Three : NBelow(NNumber(x)', v1'.next) /\ NBelow(NInHand(x)', v1'.next)
    BY <1>1, <1>5, <2>1 DEF NBelow
  <2>3. \A x, y \in Three :
           /\ NNumber(x)' # nothing => NNumber(x)' # NInHand(y)'
           /\ x # y /\ NNumber(x)' # nothing => NNumber(x)' # NNumber(y)'
           /\ x # y /\ NInHand(x)' # nothing => NInHand(x)' # NInHand(y)'
    BY <1>1, <2>1
  <2> QED
    BY <2>2, <2>3
<1> QED
  BY <1>3, <1>4, <1>5, NotesCount

(* Nobody moves but the request that takes the step, what has happened is  *)
(* not forgotten, and a request that begins beside another is noticed.     *)
LEMMA NotesMove ==
  ASSUME NTyped, NEW r \in Three, NStep(r)
  PROVE  /\ \A q \in Three : q # r => pc'[q] = pc[q] /\ hand'[q] = hand[q]
         /\ marred \subseteq marred'
         /\ \/ /\ N!Start(r) /\ pc[r] = "new" /\ UNCHANGED <<v1, v2, v3, v4>>
               /\ marred' = marred \cup IF N!Busy = {} THEN {} ELSE {"overlap"}
            \/ (N!Step(r) \/ N!Die(r)) /\ r \in N!Busy
<1> USE DEF N!Goto, N!Begin, N!Read, N!Write, N!Mark, N!TakeNumber
<1>t. pc \in [Three -> NSteps] /\ hand \in [Three -> N!Hand]
  BY DEF NTyped, N!TypeOK
<1>1. CASE N!Start(r)
  BY <1>t, <1>1 DEF N!Start, N!CreateFind, N!IssueFind, N!CancelFind, N!EditFind,
    N!InvoiceCount, N!SettingsRead
<1>2. CASE N!Step(r)
  <2>1. \A q \in Three : q # r => pc'[q] = pc[q] /\ hand'[q] = hand[q]
    BY <1>t, <1>2 DEF N!Step, N!CreateGuard, N!CreateFlag, N!CreateNumber, N!CreateInsert,
      N!IssueNumber, N!IssueWrite, N!CancelWrite, N!EditInvoice, N!EditWrite, N!InvoiceDelete,
      N!SettingsWrite, N!Hook
  <2>2. marred \subseteq marred'
    BY <1>2 DEF N!Step, N!CreateGuard, N!CreateFlag, N!CreateNumber, N!CreateInsert,
      N!IssueNumber, N!IssueWrite, N!CancelWrite, N!EditInvoice, N!EditWrite, N!InvoiceDelete,
      N!SettingsWrite, N!Hook
  <2>3. pc[r] \notin {"new", "done"}
    BY <1>2 DEF N!Step, N!CreateGuard, N!CreateFlag, N!CreateNumber, N!CreateInsert,
      N!IssueNumber, N!IssueWrite, N!CancelWrite, N!EditInvoice, N!EditWrite, N!InvoiceDelete,
      N!SettingsWrite, N!Hook
  <2> QED
    BY <1>2, <2>1, <2>2, <2>3 DEF N!Busy
<1>3. CASE N!Die(r)
  BY <1>t, <1>3 DEF N!Die
<1> QED
  BY <1>1, <1>2, <1>3 DEF NStep

(* Where a step leads the request that takes it.                           *)
LEMMA NotesLead ==
  ASSUME NTyped, NHeld, NEW r \in Three, NStep(r)
  PROVE  /\ NCreating(r)' => NCreating(r) \/ (pc[r] = "new" /\ v2 = "live")
         /\ NDeleting(r)' => N!Active = {} /\ UNCHANGED v3
         /\ v2' = v2 \/ (NDeleting(r) /\ UNCHANGED v3)
<1> USE DEF N!Goto, N!Begin, N!Read, N!Write, N!Mark, N!TakeNumber
<1>t. pc \in [Three -> NSteps] /\ hand \in [Three -> N!Hand] /\ NHolds(r)
  BY DEF NTyped, N!TypeOK, NHeld
<1>1. NDeleting(r)' => N!Active = {} /\ UNCHANGED v3
  BY <1>t DEF NDeleting, NStep, N!Start, N!Step, N!Die, N!CreateFind, N!IssueFind, N!CancelFind,
    N!EditFind, N!InvoiceCount, N!SettingsRead, N!CreateGuard, N!CreateFlag, N!CreateNumber,
    N!CreateInsert, N!IssueNumber, N!IssueWrite, N!CancelWrite, N!EditInvoice, N!EditWrite,
    N!InvoiceDelete, N!SettingsWrite, N!Hook
<1>2. v2' = v2 \/ (NDeleting(r) /\ UNCHANGED v3)
  BY DEF NDeleting, NStep, N!Start, N!Step, N!Die, N!CreateFind, N!IssueFind, N!CancelFind,
    N!EditFind, N!InvoiceCount, N!SettingsRead, N!CreateGuard, N!CreateFlag, N!CreateNumber,
    N!CreateInsert, N!IssueNumber, N!IssueWrite, N!CancelWrite, N!EditInvoice, N!EditWrite,
    N!InvoiceDelete, N!SettingsWrite, N!Hook
<1>3. NCreating(r)' => NCreating(r) \/ (pc[r] = "new" /\ v2 = "live")
  <2>1. ASSUME NEW n \in Three, NEW series \in N!Kind, N!IssueFind(r, n, series)
        PROVE  ~NCreating(r)'
    <3>1. pc'[r] = "number" /\ hand'[r].note = n
      BY <1>t, <2>1 DEF N!IssueFind, N!Blank
    <3> QED
      BY <3>1, OfficeNotes DEF NCreating
  <2>2. CASE N!IssueNumber(r) \/ N!IssueWrite(r) \/ N!CancelWrite(r) \/ N!EditInvoice(r)
             \/ N!EditWrite(r) \/ N!CreateInsert(r) \/ N!InvoiceDelete(r) \/ N!SettingsWrite(r)
             \/ N!Hook(r) \/ N!Die(r)
    <3>1. pc'[r] \notin {"guard", "flag", "insert", "number"}
      BY <1>t, <2>2 DEF N!Die, N!CreateInsert,
        N!IssueNumber, N!IssueWrite, N!CancelWrite, N!EditInvoice, N!EditWrite, N!InvoiceDelete,
        N!SettingsWrite, N!Hook
    <3> QED
      BY <3>1 DEF NCreating
  <2>3. CASE N!CreateGuard(r) \/ N!CreateFlag(r) \/ N!CreateNumber(r)
    BY <2>3 DEF N!CreateGuard, N!CreateFlag, N!CreateNumber, NCreating
  <2>4. ASSUME NEW n \in Three, NEW series \in N!Kind,
               N!CancelFind(r, n, series) \/ \E a \in NoteAmount : N!EditFind(r, n, series, a)
        PROVE  ~NCreating(r)'
    BY <1>t, <2>4 DEF N!CancelFind, N!EditFind, NCreating
  <2>5. CASE N!InvoiceCount(r) \/ \E approval \in BOOLEAN : N!SettingsRead(r, approval)
    BY <1>t, <2>5 DEF N!InvoiceCount, N!SettingsRead, NCreating
  <2>6. ASSUME NEW kind \in N!Kind, NEW a \in NoteAmount, N!CreateFind(r, kind, a)
        PROVE  v2 = "live" /\ pc[r] = "new"
    BY <2>6 DEF N!CreateFind
  <2> HIDE DEF NCreating
  <2> QED
    BY <2>1, <2>2, <2>3, <2>4, <2>5, <2>6 DEF NStep, N!Start, N!Step
<1> QED
  BY <1>1, <1>2, <1>3

(* A note becomes active when it is inserted and at no other time.         *)
LEMMA NotesActive ==
  ASSUME NTyped, NHeld, NEW r \in Three, NStep(r)
  PROVE  N!Active' \subseteq N!Active \cup {q \in {r} : pc[r] = "insert"}
<1>t. v3 \in [Three -> N!Note \cup {nothing}] /\ NHolds(r)
  BY DEF NTyped, N!TypeOK, NHeld
<1> USE DEF N!Active, N!Having, N!Exists
<1>1. CASE UNCHANGED v3
  BY <1>1
<1>2. CASE NInserts(r)
  BY <1>t, <1>2 DEF NInserts
<1>3. CASE NIssues(r) \/ NEdits(r) \/ NCancels(r)
  <2>1. PICK n \in Three : n = hand[r].note /\ v3[n] \in N!Note /\ v3[n] # nothing
    BY <1>t, <1>3 DEF NIssues, NEdits, NCancels, NSets, NHolds, NIssuing, NEditing
  <2>2. PICK doc : v3' = [v3 EXCEPT ![n] = doc] /\ (doc.status = "cancelled" \/ n \in N!Active)
    <3>1. CASE NIssues(r)
      BY <2>1, <3>1 DEF NIssues, NSets
    <3>2. CASE NEdits(r)
      BY <2>1, <3>2 DEF NEdits, NSets
    <3>3. CASE NCancels(r)
      <4>1. [v3[n] EXCEPT !.status = "cancelled"].status = "cancelled"
        BY <2>1 DEF N!Note
      <4> QED
        BY <2>1, <3>3, <4>1 DEF NCancels, NSets
    <3> QED
      BY <1>3, <3>1, <3>2, <3>3
  <2> QED
    BY <1>t, <2>1, <2>2
<1> QED
  BY <1>1, <1>2, <1>3, NotesWrite DEF NWrites

LEMMA NotesSerial ==
  ASSUME NTyped, NHeld, NTyped', NSerial, NEW r \in Three, NStep(r)
  PROVE  NSerial'
<1>a. SUFFICES ASSUME "overlap" \notin marred'
               PROVE  /\ \A q \in N!Busy' : q = r
                      /\ NCreating(r)' => v2' = "live"
                      /\ NDeleting(r)' => N!Active' = {}
                      /\ v2' = "deleted" => N!Active' = {}
  <2>1. \A q \in Three : q \notin N!Busy' => ~NCreating(q)' /\ ~NDeleting(q)'
    BY DEF N!Busy, NCreating, NDeleting
  <2>2. N!Busy' \subseteq Three
    BY DEF N!Busy
  <2> QED
    BY <2>1, <2>2 DEF NSerial
<1>1. /\ \A p, s \in N!Busy : p = s
      /\ NCreating(r) => v2 = "live"
      /\ NDeleting(r) => N!Active = {}
      /\ v2 = "deleted" => N!Active = {}
  BY <1>a, NotesMove DEF NSerial
<1>2. \A q \in N!Busy : q = r
  BY <1>a, <1>1, NotesMove
<1>3. \A q \in N!Busy' : q = r
  BY <1>2, NotesMove DEF N!Busy
<1>4. NCreating(r)' => v2' = "live"
  <2>1. NDeleting(r) => ~NCreating(r)'
    <3>1. NDeleting(r) => ~NCreating(r) /\ pc[r] # "new"
      BY DEF NDeleting, NCreating
    <3> QED
      BY <3>1, NotesLead
  <2> QED
    BY <1>1, <2>1, NotesLead
<1>5. NDeleting(r)' => N!Active' = {}
  BY NotesLead DEF N!Active, N!Having, N!Exists
<1>6. v2' = "deleted" => N!Active' = {}
  <2>1. CASE v2' = v2
    <3>1. ASSUME v2' = "deleted"
          PROVE  N!Active' = {}
      <4>1. pc[r] # "insert" /\ N!Active = {}
        BY <1>1, <2>1, <3>1 DEF NCreating
      <4> QED
        BY <4>1, NotesActive
    <3> QED
      BY <3>1
  <2>2. CASE NDeleting(r) /\ UNCHANGED v3
    BY <1>1, <2>2 DEF N!Active, N!Having, N!Exists
  <2> QED
    BY <2>1, <2>2, NotesLead
<1> QED
  BY <1>3, <1>4, <1>5, <1>6

LEMMA NotesDraft ==
  ASSUME NTyped, NHeld, NNoDraft, NEW r \in Three, NStep(r)
  PROVE  NNoDraft'
<1> USE DEF N!Goto, N!Begin, N!Read, N!Write, N!Mark, N!TakeNumber
<1>a. SUFFICES ASSUME "draft" \notin marred'
               PROVE  /\ \A n \in Three : v3'[n] # nothing => v3'[n].status # "draft"
                      /\ ~NIssuing(r)' /\ ~NEditing(r)'
  <2>1. \A q \in Three : q # r => NIssuing(q)' = NIssuing(q) /\ NEditing(q)' = NEditing(q)
    BY NotesMove DEF NIssuing, NEditing
  <2>2. "draft" \in marred => "draft" \in marred'
    BY NotesMove
  <2> QED
    BY <2>1, <2>2 DEF NNoDraft
<1>1. /\ \A n \in Three : v3[n] # nothing => v3[n].status # "draft"
      /\ ~NIssuing(r) /\ ~NEditing(r)
  BY <1>a, NotesMove DEF NNoDraft
<1>t. /\ v3 \in [Three -> N!Note \cup {nothing}] /\ NHolds(r) /\ hand[r] \in N!Hand
      /\ pc \in [Three -> NSteps] /\ hand \in [Three -> N!Hand]
  BY DEF NTyped, N!TypeOK, NHeld
<1>2. \A n \in Three : v3'[n] # nothing => v3'[n].status # "draft"
  <2>1. CASE UNCHANGED v3
    BY <1>1, <2>1
  <2>2. CASE NInserts(r)
    BY <1>a, <1>1, <1>t, <2>2 DEF NInserts
  <2>3. CASE NIssues(r) \/ NEdits(r)
    BY <1>1, <2>3 DEF NIssues, NEdits, NSets, NIssuing, NEditing
  <2>4. CASE NCancels(r)
    <3>1. PICK n \in Three : n = hand[r].note /\ v3[n] \in N!Note
      BY <1>t, <2>4 DEF NCancels, NSets, NHolds
    <3>2. [v3[n] EXCEPT !.status = "cancelled"].status # "draft"
      BY <3>1 DEF N!Note
    <3> QED
      BY <1>1, <1>t, <2>4, <3>1, <3>2 DEF NCancels, NSets
  <2> QED
    BY <2>1, <2>2, <2>3, <2>4, NotesWrite DEF NWrites
<1>3. ~NEditing(r)' /\ (NIssuing(r)' => pc'[r] = "number" /\ hand'[r].note # nothing)
  <2>1. CASE N!Start(r) \/ N!Die(r)
    BY <1>1, <1>t, <2>1 DEF NEditing, NIssuing, N!Start, N!Die, N!CreateFind, N!IssueFind,
      N!CancelFind, N!EditFind, N!InvoiceCount, N!SettingsRead, N!Answers, N!Exists
  <2>2. CASE N!Step(r)
    BY <1>1, <1>t, <2>2 DEF NEditing, NIssuing, N!Step, N!CreateGuard, N!CreateFlag, N!CreateNumber,
      N!CreateInsert, N!IssueNumber, N!IssueWrite, N!CancelWrite, N!EditInvoice, N!EditWrite,
      N!InvoiceDelete, N!SettingsWrite, N!Hook
  <2> QED
    BY <2>1, <2>2 DEF NStep
<1>4. ~(pc'[r] = "number" /\ hand'[r].note # nothing)
  <2>1. ASSUME pc'[r] = "number"
        PROVE  N!CreateFlag(r)
    <3>1. ~ \E n \in Three, series \in N!Kind : N!IssueFind(r, n, series)
      BY <1>1 DEF N!IssueFind, N!Answers, N!Exists
    <3>2. CASE N!Start(r) \/ N!Die(r)
      BY <1>t, <2>1, <3>1, <3>2 DEF N!Start, N!Die, N!CreateFind, N!CancelFind, N!EditFind,
        N!InvoiceCount, N!SettingsRead
    <3>3. CASE N!Step(r)
      BY <1>t, <2>1, <3>3 DEF N!Step, N!CreateGuard, N!CreateFlag, N!CreateNumber,
        N!CreateInsert, N!IssueNumber, N!IssueWrite, N!CancelWrite, N!EditInvoice, N!EditWrite,
        N!InvoiceDelete, N!SettingsWrite, N!Hook
    <3> QED
      BY <3>2, <3>3 DEF NStep
  <2>2. ASSUME N!CreateFlag(r), pc'[r] = "number"
        PROVE  hand'[r].note = nothing
    <3>1. hand'[r] = hand[r] /\ hand[r].note = nothing
      BY <1>t, <2>2 DEF N!CreateFlag, NHolds, NCreating
    <3> QED
      BY <3>1
  <2> QED
    BY <2>1, <2>2
<1> QED
  BY <1>2, <1>3, <1>4

(* The amounts of the notes that are issued, of one kind.                  *)
NWorth(notes) == [n \in Three |-> IF notes[n] = nothing THEN 0 ELSE notes[n].amount]
NOf(notes, kind) ==
  {n \in Three : notes[n] # nothing /\ notes[n].status = "issued" /\ notes[n].kind = kind}
NSum(notes, kind) == SumFunctionOnSet(NWorth(notes), NOf(notes, kind))

LEMMA NotesSumFunction ==
  ASSUME NEW fun
  PROVE  N!SumFunction(fun) = SumFunctionOnSet(fun, DOMAIN fun)
BY DEF N!SumFunction, N!SumFunctionOnSet, N!FoldFunctionOnSet, N!MapThenFoldSet,
  SumFunctionOnSet, FoldFunctionOnSet, MapThenFoldSet

LEMMA NotesSum ==
  ASSUME NEW notes \in [Three -> N!Note \cup {nothing}], NEW kind
  PROVE  /\ NWorth(notes) \in [Three -> Nat] /\ NSum(notes, kind) \in Int
         /\ NOf(notes, kind) \in SUBSET Three /\ IsFiniteSet(NOf(notes, kind))
         /\ SumFunctionOnSet([n \in NOf(notes, kind) |-> notes[n].amount], NOf(notes, kind))
              = NSum(notes, kind)
<1> DEFINE of == NOf(notes, kind)
           fun == [n \in of |-> notes[n].amount]
<1>1. of \in SUBSET Three /\ IsFiniteSet(of)
  BY FS_Subset, OfficeNotes DEF NOf
<1>2. \A n \in Three : notes[n] # nothing => notes[n].amount \in Nat
  BY OfficeNotes DEF N!Note
<1>3. NWorth(notes) \in [Three -> Nat] /\ NWorth(notes) \in [Three -> Int]
  BY <1>2 DEF NWorth
<1>4. \A n \in of : notes[n] # nothing
  BY DEF NOf
<1>5. fun \in [of -> Int] /\ \A n \in of : fun[n] = NWorth(notes)[n]
  BY <1>1, <1>2, <1>4 DEF NWorth
<1> HIDE DEF of, fun
<1>6. SumFunctionOnSet(fun, of) = SumFunctionOnSet(NWorth(notes), of)
  BY <1>1, <1>3, <1>5, SumSame
<1>7. SumFunctionOnSet(NWorth(notes), of) \in Int
  BY <1>1, <1>3, SumRest
<1> QED
  BY <1>1, <1>3, <1>6, <1>7 DEF NSum, of, fun

(* The sum of N, at the beginning and at the end of a step.                *)
LEMMA NotesSums ==
  ASSUME NTyped, NTyped', NEW kind
  PROVE  N!Sum(kind) = NSum(v3, kind) /\ N!Sum(kind)' = NSum(v3', kind)
<1>1. v3 \in [Three -> N!Note \cup {nothing}] /\ v3' \in [Three -> N!Note \cup {nothing}]
  BY DEF NTyped, N!TypeOK
<1>2. /\ N!Sum(kind) = N!SumFunction([n \in NOf(v3, kind) |-> v3[n].amount])
      /\ N!Sum(kind)' = N!SumFunction([n \in NOf(v3', kind) |-> v3'[n].amount])
  <2>1. /\ {n \in N!Having("issued") : v3[n].kind = kind} = NOf(v3, kind)
        /\ {n \in N!Having("issued")' : v3'[n].kind = kind} = NOf(v3', kind)
    BY DEF NOf, N!Having, N!Exists
  <2> QED
    BY <2>1 DEF N!Sum
<1>3. \A fun, of : N!SumFunction([n \in of |-> fun[n].amount])
                     = SumFunctionOnSet([n \in of |-> fun[n].amount], of)
  BY NotesSumFunction
<1> QED
  BY <1>1, <1>2, <1>3, NotesSum

(* What one note adds to the sum of a kind.                                *)
NPart(notes, n, kind) == IF n \in NOf(notes, kind) THEN NWorth(notes)[n] ELSE 0

LEMMA NotesPart ==
  ASSUME NEW notes \in [Three -> N!Note \cup {nothing}], NEW kind, NEW x \in Three
  PROVE  NSum(notes, kind)
           = NPart(notes, x, kind) + SumFunctionOnSet(NWorth(notes), NOf(notes, kind) \ {x})
<1> DEFINE of == NOf(notes, kind)
           fun == NWorth(notes)
<1>1. fun \in [Three -> Nat] /\ of \in SUBSET Three /\ IsFiniteSet(of)
  BY NotesSum
<1> HIDE DEF of, fun
<1>4. fun \in [Three -> Int]
  BY <1>1
<1>5. SumFunctionOnSet(fun, of) \in Int
  BY <1>1, <1>4, SumRest
<1>2. CASE x \in of
  <2>1. SumFunctionOnSet(fun, of) = fun[x] + SumFunctionOnSet(fun, of \ {x})
    BY <1>1, <1>4, <1>2, SumRemove
  <2> QED
    BY <1>2, <2>1 DEF NSum, NPart, of, fun
<1>3. CASE x \notin of
  <2>1. of \ {x} = of
    BY <1>3
  <2> QED
    BY <1>5, <1>3, <2>1 DEF NSum, NPart, of, fun
<1> QED
  BY <1>2, <1>3

(* When one note changes, the sum changes by what it adds.                 *)
LEMMA NotesChange ==
  ASSUME NEW notes \in [Three -> N!Note \cup {nothing}], NEW kind, NEW x \in Three,
         NEW now \in [Three -> N!Note \cup {nothing}], \A n \in Three : n # x => now[n] = notes[n]
  PROVE  NSum(now, kind) = NSum(notes, kind) - NPart(notes, x, kind) + NPart(now, x, kind)
<1> DEFINE others == NOf(notes, kind) \ {x}
           fun == NWorth(notes)
           gun == NWorth(now)
<1>1. /\ fun \in [Three -> Int] /\ gun \in [Three -> Int] /\ others \in SUBSET Three
      /\ IsFiniteSet(others)
  <2>1. /\ fun \in [Three -> Nat] /\ gun \in [Three -> Nat]
        /\ NOf(notes, kind) \in SUBSET Three /\ IsFiniteSet(NOf(notes, kind))
    BY NotesSum
  <2>2. others \in SUBSET Three /\ IsFiniteSet(others)
    BY <2>1, FS_Subset
  <2> HIDE DEF fun, gun, others
  <2> QED
    BY <2>1, <2>2
<1>2. others = NOf(now, kind) \ {x}
  BY DEF NOf
<1>3. \A n \in others : fun[n] = gun[n]
  BY DEF NOf, NWorth
<1>4. NSum(notes, kind) = NPart(notes, x, kind) + SumFunctionOnSet(fun, others)
  BY NotesPart
<1>5. NSum(now, kind) = NPart(now, x, kind) + SumFunctionOnSet(gun, others)
  BY <1>2, NotesPart
<1>n. NPart(notes, x, kind) \in Int /\ NPart(now, x, kind) \in Int
  BY <1>1 DEF NPart
<1> HIDE DEF others, fun, gun
<1>6. SumFunctionOnSet(fun, others) = SumFunctionOnSet(gun, others)
  BY <1>1, <1>3, SumSame
<1>7. SumFunctionOnSet(fun, others) \in Int
  BY <1>1, SumRest
<1> QED
  BY <1>4, <1>5, <1>6, <1>7, <1>n

(* A request that is to create a note goes on with the amount that the     *)
(* guard has let pass.                                                     *)
LEMMA NotesCarry ==
  ASSUME NTyped, NHeld, NEW r \in Three, NStep(r), NCreating(r)', pc'[r] # "guard",
         hand'[r].doc.kind = "credit"
  PROVE  /\ NCreating(r) /\ hand[r].doc.kind = "credit"
         /\ hand'[r].doc.amount = hand[r].doc.amount
         /\ pc[r] = "guard" => ~N!OverCredit(hand[r].doc.amount)
<1> USE DEF N!Goto, N!Begin, N!Read, N!Write, N!Mark, N!TakeNumber
<1>t. /\ NHolds(r) /\ hand[r] \in N!Hand
      /\ pc \in [Three -> NSteps] /\ hand \in [Three -> N!Hand]
  BY DEF NTyped, N!TypeOK, NHeld
<1>1. CASE NCreating(r)
  <2>1. hand[r].doc \in N!Note
    BY <1>t, <1>1 DEF NHolds
  <2>2. ASSUME NEW x \in N!Note, NEW a, NEW b
        PROVE  /\ [x EXCEPT !.status = a].amount = x.amount /\ [x EXCEPT !.status = a].kind = x.kind
               /\ [x EXCEPT !.number = a].amount = x.amount /\ [x EXCEPT !.number = a].kind = x.kind
    BY DEF N!Note
  <2>3. N!CreateGuard(r) \/ N!CreateFlag(r) \/ N!CreateNumber(r)
    <3>1. pc'[r] \in {"flag", "insert", "number"}
      BY DEF NCreating
    <3>2. pc[r] # "new"
      BY <1>1 DEF NCreating
    <3>3. hand[r].note # nothing => pc[r] # "number"
      BY <1>1 DEF NCreating
    <3>4. CASE N!Start(r) \/ N!Die(r)
      BY <1>t, <3>1, <3>2, <3>4 DEF N!Start, N!Die, N!CreateFind, N!IssueFind, N!CancelFind,
        N!EditFind, N!InvoiceCount, N!SettingsRead
    <3>5. CASE N!Step(r)
      BY <1>t, <3>1, <3>3, <3>5 DEF N!Step, N!CreateInsert, N!IssueNumber, N!IssueWrite, N!CancelWrite,
        N!EditInvoice, N!EditWrite, N!InvoiceDelete, N!SettingsWrite, N!Hook
    <3> QED
      BY <3>4, <3>5 DEF NStep
  <2>4. CASE N!CreateGuard(r)
    <3>1. hand'[r] = hand[r] /\ ~N!OverCredit(hand[r].doc.amount)
      <4> HIDE DEF N!OverCredit
      <4>1. ~N!OverCredit(hand[r].doc.amount)
        <5>1. pc'[r] # "done"
          BY DEF NCreating
        <5> QED
          BY <1>t, <2>4, <5>1 DEF N!CreateGuard
      <4> QED
        BY <1>t, <2>4, <4>1 DEF N!CreateGuard
    <3> QED
      BY <1>1, <3>1
  <2>5. CASE N!CreateFlag(r)
    <3>1. pc[r] = "flag"
      BY <2>5 DEF N!CreateFlag
    <3>2. CASE v1.approval
      <4> DEFINE draft == [hand[r].doc EXCEPT !.status = "draft"]
      <4>1. hand' = [hand EXCEPT ![r] = [hand[r] EXCEPT !.doc = draft]]
        BY <2>5, <3>2 DEF N!CreateFlag
      <4>2. draft.amount = hand[r].doc.amount /\ draft.kind = hand[r].doc.kind
        BY <2>1, <2>2
      <4> HIDE DEF draft
      <4>3. hand'[r].doc = draft
        BY <1>t, <4>1 DEF N!Hand
      <4> QED
        BY <1>1, <3>1, <4>2, <4>3
    <3>3. CASE ~v1.approval
      BY <1>1, <1>t, <2>5, <3>1, <3>3 DEF N!CreateFlag
    <3> QED
      BY <3>2, <3>3
  <2>6. CASE N!CreateNumber(r)
    <3>1. pc[r] = "number"
      BY <2>6 DEF N!CreateNumber
    <3>2. PICK k : hand' = [hand EXCEPT ![r] = [hand[r] EXCEPT !.doc = [hand[r].doc EXCEPT !.number = k]]]
      BY <2>6 DEF N!CreateNumber
    <3>3. hand'[r].doc = [hand[r].doc EXCEPT !.number = k]
      BY <1>t, <3>2 DEF N!Hand
    <3> QED
      BY <1>1, <2>1, <2>2, <3>1, <3>3
  <2> QED
    BY <2>3, <2>4, <2>5, <2>6
<1>2. CASE ~NCreating(r)
  <2>1. pc[r] = "new"
    BY <1>2, NotesLead
  <2>2. N!Start(r)
    <3>1. ~N!Die(r)
      BY <2>1 DEF N!Die, N!Busy
    <3>2. ~N!Step(r)
      BY <2>1 DEF N!Step, N!CreateGuard, N!CreateFlag, N!CreateNumber, N!CreateInsert,
        N!IssueNumber, N!IssueWrite, N!CancelWrite, N!EditInvoice, N!EditWrite,
        N!InvoiceDelete, N!SettingsWrite, N!Hook
    <3> QED
      BY <3>1, <3>2 DEF NStep
  <2>3. pc'[r] = "guard" \/ pc'[r] = "flag" \/ (pc'[r] = "number" /\ hand'[r].note = nothing)
        \/ pc'[r] = "insert"
    BY DEF NCreating
  <2>4. ASSUME NEW kind \in N!Kind, NEW a \in NoteAmount, N!CreateFind(r, kind, a)
        PROVE  FALSE
    <3> DEFINE doc == [kind |-> kind, amount |-> a, status |-> "issued", number |-> nothing]
    <3>1. kind # "credit"
      BY <1>t, <2>4 DEF N!CreateFind
    <3>2. hand'[r].doc = doc
      BY <1>t, <2>4 DEF N!CreateFind, N!Blank
    <3> QED
      BY <3>1, <3>2
  <2>5. ASSUME NEW n \in Three, NEW series \in N!Kind, N!IssueFind(r, n, series)
        PROVE  FALSE
    <3>1. pc'[r] = "number" /\ hand'[r].note = n
      BY <1>t, <2>5 DEF N!IssueFind, N!Blank
    <3> QED
      BY <2>3, <3>1, OfficeNotes
  <2>6. ASSUME NEW n \in Three, NEW series \in N!Kind,
               N!CancelFind(r, n, series) \/ \E a \in NoteAmount : N!EditFind(r, n, series, a)
        PROVE  FALSE
    BY <1>t, <2>3, <2>6 DEF N!CancelFind, N!EditFind
  <2>7. CASE N!InvoiceCount(r) \/ \E approval \in BOOLEAN : N!SettingsRead(r, approval)
    BY <1>t, <2>3, <2>7 DEF N!InvoiceCount, N!SettingsRead
  <2> HIDE DEF NCreating
  <2> QED
    BY <2>2, <2>4, <2>5, <2>6, <2>7 DEF N!Start
<1> QED
  BY <1>1, <1>2

LEMMA NotesFit ==
  ASSUME NTyped, NHeld, NTyped', NSerial, NNoDraft, NFits, NEW r \in Three, NStep(r)
  PROVE  NFits'
<1> DEFINE credit == NSum(v3, "credit")
           debit == NSum(v3, "debit")
           fits(a) == credit + a <= NoteTotal + debit
<1>a. SUFFICES ASSUME marred' \cap {"overlap", "draft", "debit cancelled"} = {}
               PROVE  /\ N!Sum("credit")' <= NoteTotal + N!Sum("debit")'
                      /\ \A q \in Three : NCreating(q)' /\ pc'[q] # "guard" /\ hand'[q].doc.kind = "credit" =>
                           N!Sum("credit")' + hand'[q].doc.amount <= NoteTotal + N!Sum("debit")'
  BY DEF NFits, NWithin
<1>t. /\ v3 \in [Three -> N!Note \cup {nothing}] /\ v3' \in [Three -> N!Note \cup {nothing}]
      /\ NHolds(r) /\ NoteTotal \in Nat
  BY OfficeNotes DEF NTyped, N!TypeOK, NHeld
<1>n. credit \in Int /\ debit \in Int
  BY <1>t, NotesSum
<1>m. marred \subseteq marred' /\ marred \cap {"overlap", "draft", "debit cancelled"} = {}
  BY <1>a, NotesMove
<1>1. /\ credit <= NoteTotal + debit
      /\ NCreating(r) /\ pc[r] # "guard" /\ hand[r].doc.kind = "credit" => fits(hand[r].doc.amount)
  BY <1>m, NotesSums DEF NFits, NWithin
<1>2. \A q \in Three : NCreating(q)' => q = r
  <2>1. \A q \in N!Busy : q = r
    <3>1. "overlap" \notin marred' /\ "overlap" \notin marred
      BY <1>a, <1>m
    <3>2. \A p, s \in N!Busy : p = s
      BY <3>1 DEF NSerial
    <3> QED
      BY <3>1, <3>2, NotesMove
  <2>2. ASSUME NEW q \in Three, NCreating(q)', q # r
        PROVE  FALSE
    <3>1. pc'[q] = pc[q]
      BY <2>2, NotesMove
    <3> QED
      BY <2>1, <2>2, <3>1 DEF NCreating, N!Busy
  <2> QED
    BY <2>2
<1>3. \A n \in Three : (v3[n] # nothing => v3[n].status # "draft") /\ ~NIssuing(n) /\ ~NEditing(n)
  <2>1. "draft" \notin marred
    BY <1>m
  <2> QED
    BY <2>1 DEF NNoDraft
<1>4. SUFFICES /\ NSum(v3', "credit") <= NoteTotal + NSum(v3', "debit")
               /\ NCreating(r)' /\ pc'[r] # "guard" /\ hand'[r].doc.kind = "credit" =>
                    NSum(v3', "credit") + hand'[r].doc.amount <= NoteTotal + NSum(v3', "debit")
  BY <1>2, NotesSums
<1>5. CASE UNCHANGED v3
  <2>1. ASSUME NCreating(r)', pc'[r] # "guard", hand'[r].doc.kind = "credit"
        PROVE  fits(hand'[r].doc.amount)
    <3>1. /\ NCreating(r) /\ hand[r].doc.kind = "credit"
          /\ hand'[r].doc.amount = hand[r].doc.amount
          /\ pc[r] = "guard" => ~N!OverCredit(hand[r].doc.amount)
      BY <2>1, NotesCarry
    <3>2. CASE pc[r] = "guard"
      <4>1. hand[r].doc.amount \in Nat
        BY <1>t, <3>1, OfficeNotes DEF NHolds, N!Note
      <4>2. ~(credit + hand[r].doc.amount > NoteTotal + debit)
        BY <3>1, <3>2, NotesSums DEF N!OverCredit
      <4> QED
        BY <1>n, <1>t, <3>1, <4>1, <4>2
    <3>3. CASE pc[r] # "guard"
      BY <1>1, <3>1, <3>3
    <3> QED
      BY <3>2, <3>3
  <2> QED
    BY <1>1, <1>5, <2>1
<1>6. ASSUME NWrites(r), pc'[r] = "hook"
      PROVE  NSum(v3', "credit") <= NoteTotal + NSum(v3', "debit")
  <2>1. CASE NInserts(r)
    <3>1. /\ NCreating(r) /\ pc[r] = "insert" /\ hand[r].doc \in N!Note
          /\ v3[r] = nothing /\ hand[r].doc.status \in {"issued", "draft"}
      BY <1>t, <2>1 DEF NInserts, NHolds, NCreating
    <3>2. hand[r].doc.status = "issued"
      BY <1>a, <2>1, <3>1 DEF NInserts
    <3>3. PICK doc \in N!Note : doc = hand[r].doc /\ v3' = [v3 EXCEPT ![r] = doc]
      BY <2>1, <3>1 DEF NInserts
    <3>4. doc.amount \in Nat /\ doc # nothing /\ doc.kind \in {"credit", "debit"}
      BY OfficeNotes DEF N!Note, N!Kind
    <3>5. \A n \in Three : n # r => v3'[n] = v3[n]
      BY <1>t, <3>3
    <3>6. \A kind : NSum(v3', kind) = NSum(v3, kind) - NPart(v3, r, kind) + NPart(v3', r, kind)
      BY <1>t, <3>5, NotesChange
    <3>7. \A kind : NPart(v3, r, kind) = 0
      BY <3>1 DEF NPart, NOf
    <3>8. v3'[r] = doc
      BY <1>t, <3>3
    <3>9. \A kind : NPart(v3', r, kind) = IF doc.kind = kind THEN doc.amount ELSE 0
      BY <3>2, <3>3, <3>4, <3>8 DEF NPart, NOf, NWorth
    <3>10. /\ NSum(v3', "credit") = credit - 0 + IF doc.kind = "credit" THEN doc.amount ELSE 0
           /\ NSum(v3', "debit") = debit - 0 + IF doc.kind = "debit" THEN doc.amount ELSE 0
      BY <3>6, <3>7, <3>9
    <3>11. doc.kind = "credit" => fits(doc.amount)
      BY <1>1, <3>1, <3>3
    <3> HIDE DEF credit, debit
    <3> QED
      BY <1>1, <1>n, <1>t, <3>4, <3>10, <3>11
  <2>2. CASE NIssues(r) \/ NEdits(r)
    BY <1>3, <2>2 DEF NIssues, NEdits, NSets, NIssuing, NEditing
  <2>3. CASE NCancels(r)
    <3>1. PICK n \in Three : n = hand[r].note /\ v3[n] \in N!Note /\ v3[n] # nothing
      BY <1>t, <2>3 DEF NCancels, NSets, NHolds
    <3>2. v3[n].kind = "credit"
      <4>1. v3[n].kind # "debit"
        BY <1>a, <2>3, <3>1 DEF NCancels
      <4> QED
        BY <3>1, <4>1 DEF N!Note, N!Kind
    <3>3. PICK doc \in N!Note : doc.status = "cancelled" /\ v3' = [v3 EXCEPT ![n] = doc]
      <4>1. [v3[n] EXCEPT !.status = "cancelled"] \in N!Note
        BY <3>1 DEF N!Note
      <4>2. [v3[n] EXCEPT !.status = "cancelled"].status = "cancelled"
        BY <3>1 DEF N!Note
      <4> QED
        BY <2>3, <3>1, <4>1, <4>2 DEF NCancels, NSets
    <3>4. \A x \in Three : x # n => v3'[x] = v3[x]
      BY <1>t, <3>3
    <3>5. \A kind : NSum(v3', kind) = NSum(v3, kind) - NPart(v3, n, kind) + NPart(v3', n, kind)
      BY <1>t, <3>4, NotesChange
    <3>6. v3'[n] = doc
      BY <1>t, <3>3
    <3>7. \A kind : NPart(v3', n, kind) = 0
      BY <3>3, <3>6 DEF NPart, NOf
    <3>8. NPart(v3, n, "debit") = 0
      BY <3>2 DEF NPart, NOf
    <3>9. NPart(v3, n, "credit") \in Nat
      BY <1>t, NotesSum DEF NPart
    <3>10. PICK part \in Nat : NSum(v3', "credit") = credit - part + 0 /\ NSum(v3', "debit") = debit - 0 + 0
      BY <3>5, <3>7, <3>8, <3>9
    <3> HIDE DEF credit, debit
    <3> QED
      BY <1>1, <1>n, <1>t, <3>10
  <2> QED
    BY <1>6, <2>1, <2>2, <2>3 DEF NWrites
<1>7. CASE ~UNCHANGED v3
  <2>1. NWrites(r) /\ pc'[r] = "hook"
    BY <1>7, NotesWrite
  <2>2. ~NCreating(r)'
    BY <2>1 DEF NCreating
  <2> QED
    BY <1>6, <2>1, <2>2
<1> QED
  BY <1>5, <1>7

LEMMA NotesShown ==
  ASSUME NTyped, NHeld, NTyped', NShown, NEW r \in Three, NStep(r)
  PROVE  NShown'
<1> USE DEF N!Goto, N!Begin, N!Read, N!Write, N!Mark, N!TakeNumber
<1>a. SUFFICES ASSUME "death" \notin marred', NEW n \in Three,
                      \A q \in Three : pc'[q] = "hook" => hand'[q].note # n
               PROVE  v4'[n] = N!View(n)'
  BY DEF NShown
<1>t. /\ v3 \in [Three -> N!Note \cup {nothing}] /\ NHolds(r)
      /\ v4 \in [Three -> (N!Kind \X NoteAmount) \cup {nothing}]
      /\ pc \in [Three -> NSteps] /\ hand \in [Three -> N!Hand]
  BY DEF NTyped, N!TypeOK, NHeld
<1>d. "death" \notin marred /\ ~N!Die(r)
  <2>1. marred \subseteq marred'
    BY NotesMove
  <2> QED
    BY <1>a, <2>1 DEF N!Die
<1>v. v3'[n] = v3[n] => N!View(n)' = N!View(n)
  BY DEF N!View, N!Having, N!Exists
<1>1. v3'[n] = v3[n]
  <2>1. CASE NWrites(r) /\ pc'[r] = "hook" /\ hand'[r].note = IF pc[r] = "insert" THEN r ELSE hand[r].note
    <3>1. hand'[r].note # n
      BY <1>a, <2>1
    <3>2. PICK x, doc : x = hand'[r].note /\ v3' = [v3 EXCEPT ![x] = doc]
      BY <2>1 DEF NWrites, NInserts, NIssues, NEdits, NCancels, NSets
    <3> QED
      BY <1>t, <3>1, <3>2
  <2> QED
    BY <2>1, NotesWrite
<1>2. CASE pc[r] = "hook" /\ hand[r].note = n
  <2>1. N!Hook(r)
    <3>1. ~N!Start(r)
      BY <1>2 DEF N!Start, N!CreateFind, N!IssueFind, N!CancelFind, N!EditFind, N!InvoiceCount,
        N!SettingsRead
    <3>2. CASE N!Step(r)
      BY <1>2, <3>2 DEF N!Step, N!CreateGuard, N!CreateFlag, N!CreateNumber, N!CreateInsert,
        N!IssueNumber, N!IssueWrite, N!CancelWrite, N!EditInvoice, N!EditWrite,
        N!InvoiceDelete, N!SettingsWrite
    <3> QED
      BY <1>d, <3>1, <3>2 DEF NStep
  <2>2. v4' = [v4 EXCEPT ![n] = N!View(n)]
    BY <1>2, <2>1 DEF N!Hook
  <2> QED
    BY <1>t, <1>v, <1>1, <2>2
<1>3. CASE ~(pc[r] = "hook" /\ hand[r].note = n)
  <2>1. v4'[n] = v4[n]
    <3>1. CASE N!Hook(r)
      BY <1>t, <1>3, <3>1 DEF N!Hook
    <3>2. CASE ~N!Hook(r)
      <4>1. v4' = v4
        BY <3>2 DEF NStep, N!Start, N!Step, N!Die, N!CreateFind, N!IssueFind, N!CancelFind,
          N!EditFind, N!InvoiceCount, N!SettingsRead, N!CreateGuard, N!CreateFlag, N!CreateNumber,
          N!CreateInsert, N!IssueNumber, N!IssueWrite, N!CancelWrite, N!EditInvoice, N!EditWrite,
          N!InvoiceDelete, N!SettingsWrite
      <4> QED
        BY <4>1
    <3> QED
      BY <3>1, <3>2
  <2>2. \A q \in Three : pc[q] = "hook" => hand[q].note # n
    <3>1. \A q \in Three : q # r => pc'[q] = pc[q] /\ hand'[q] = hand[q]
      BY NotesMove
    <3> QED
      BY <1>a, <1>3, <3>1
  <2> QED
    BY <1>d, <1>v, <1>1, <2>1, <2>2 DEF NShown
<1> QED
  BY <1>2, <1>3

LEMMA NotesKept ==
  ASSUME NInv, NEW r \in Three, NStep(r)
  PROVE  NInv'
<1>1. NTyped' /\ NHeld'
  BY NotesTyped, NotesHold DEF NInv
<1>2. NNumbers' /\ NSerial' /\ NNoDraft'
  BY <1>1, NotesNumbered, NotesSerial, NotesDraft DEF NInv
<1>3. NFits' /\ NShown'
  BY <1>1, NotesFit, NotesShown DEF NInv
<1> QED
  BY <1>1, <1>2, <1>3 DEF NInv

LEMMA NotesBegin ==
  ASSUME N!Init
  PROVE  NInv
<1>1. NTyped
  <2>1. v1 \in N!Company
    BY DEF N!Init, N!Company, N!Seq
  <2>2. N!Blank \in N!Hand
    BY DEF N!Blank, N!Hand
  <2> QED
    BY <2>1, <2>2 DEF N!Init, NTyped, N!TypeOK, NSteps
<1>2. \A r \in Three : pc[r] = "new" /\ v3[r] = nothing /\ v4[r] = nothing /\ v2 = "live"
  BY DEF N!Init
<1>3. \A r \in Three : ~NCreating(r) /\ ~NIssuing(r) /\ ~NEditing(r) /\ ~NDeleting(r)
  BY <1>2 DEF NCreating, NIssuing, NEditing, NDeleting
<1>4. NHeld
  BY <1>2, <1>3 DEF NHeld, NHolds
<1>5. NNumbers
  <2>1. \A r \in Three : NNumber(r) = nothing /\ NInHand(r) = nothing
    BY <1>2 DEF NNumber, NInHand
  <2> QED
    BY <2>1 DEF NNumbers, NApart, NBelow
<1>6. NSerial
  BY <1>2, <1>3 DEF NSerial, N!Busy, N!Init
<1>7. NNoDraft
  BY <1>2, <1>3 DEF NNoDraft
<1>8. NFits
  <2>1. \A kind : N!Sum(kind) = 0
    <3>1. \A kind : NOf(v3, kind) = {} /\ {n \in N!Having("issued") : v3[n].kind = kind} = {}
      BY <1>2 DEF NOf, N!Having, N!Exists
    <3>2. ASSUME NEW fun \in [{} -> Int]
          PROVE  SumFunctionOnSet(fun, {}) = 0
      BY SumRest, FS_EmptySet
    <3>3. [n \in {} |-> v3[n].amount] \in [{} -> Int]
      OBVIOUS
    <3>4. N!SumFunction([n \in {} |-> v3[n].amount]) = 0
      BY <3>2, <3>3, NotesSumFunction
    <3> QED
      BY <3>1, <3>4 DEF N!Sum
  <2>2. NWithin
    BY <1>3, <2>1, OfficeNotes DEF NWithin
  <2> QED
    BY <2>2 DEF NFits
<1>9. NShown
  BY <1>2 DEF NShown, N!View, N!Having, N!Exists
<1> QED
  BY <1>1, <1>4, <1>5, <1>6, <1>7, <1>8, <1>9 DEF NInv

(* What the invariant says of the notes.                                   *)
LEMMA NotesMean ==
  ASSUME NInv
  PROVE  N!NotesAgree
<1>1. N!NumbersUnique
  BY DEF NInv, NNumbers, NApart, NNumber, N!NumbersUnique, N!Exists
<1>2. N!NeverOverCredited
  BY DEF NInv, NFits, NWithin, N!NeverOverCredited
<1>3. N!NotesHaveInvoice
  BY DEF NInv, NSerial, N!NotesHaveInvoice
<1>4. N!LedgerShowsIssued
  <2>1. ASSUME N!Busy = {}, "death" \notin marred, NEW n \in Three
        PROVE  v4[n] = N!View(n)
    BY <2>1 DEF NInv, NShown, N!Busy
  <2> QED
    BY <2>1 DEF N!LedgerShowsIssued, N!View, N!Having, N!Exists
<1> QED
  BY <1>1, <1>2, <1>3, <1>4 DEF N!NotesAgree

(* An issued note stays as it is or is cancelled, a cancelled one stays.   *)
LEMMA NotesSettled ==
  ASSUME NInv, NEW r \in Three, NStep(r)
  PROVE  N!Settled
<1>t. v3 \in [Three -> N!Note \cup {nothing}] /\ NHolds(r)
  BY DEF NInv, NTyped, N!TypeOK, NHeld
<1>1. CASE UNCHANGED v3
  BY <1>1 DEF N!Settled
<1>2. CASE NInserts(r)
  <2>1. v3[r] = nothing
    BY <1>t, <1>2 DEF NInserts, NHolds, NCreating
  <2> QED
    BY <1>t, <1>2, <2>1 DEF NInserts, N!Settled, N!Exists
<1>3. CASE NIssues(r) \/ NEdits(r)
  <2>1. PICK x, doc : v3[x].status = "draft" /\ v3' = [v3 EXCEPT ![x] = doc]
    BY <1>3 DEF NIssues, NEdits, NSets
  <2> QED
    BY <1>t, <2>1 DEF N!Settled
<1>4. CASE NCancels(r)
  <2>1. PICK n \in Three : n = hand[r].note /\ v3[n] \in N!Note
    BY <1>t, <1>4 DEF NCancels, NSets, NHolds
  <2>2. v3' = [v3 EXCEPT ![n] = [v3[n] EXCEPT !.status = "cancelled"]]
    BY <1>4, <2>1 DEF NCancels, NSets
  <2>3. v3[n].status = "cancelled" => [v3[n] EXCEPT !.status = "cancelled"] = v3[n]
    BY <2>1 DEF N!Note
  <2> QED
    BY <1>t, <2>1, <2>2, <2>3 DEF N!Settled
<1> QED
  BY <1>1, <1>2, <1>3, <1>4, NotesWrite DEF NInv, NWrites

-----------------------------------------------------------------------------
(* The trips.                                                              *)

TSaving ==
  {"read_rows", "upsert", "remove", "mirror", "mirror_update", "mirror_drop", "mirror_insert",
   "old_driver"}
TDeleting == {"delete_trip", "delete_rows", "unlink", "delete_mirror", "bulk"}
TSteps == {"new", "write", "copy", "delete_expense", "link", "done"} \cup TSaving \cup TDeleting

TTyped == T!TypeOK /\ pc \in [Two -> TSteps] /\ hand \in [Two -> T!Hand]

(* What a request holds: a trip, a document, rows that are there; and the  *)
(* entry that it may insert is not there before.                           *)
TRows == {k \in T!Key : v2[k] # nothing}
THolds(r) ==
  /\ pc[r] \in TSaving \cup {"write", "copy"} => hand[r].trip \in Couple /\ hand[r].doc \in T!TripDoc
  /\ pc[r] \in TDeleting => hand[r].trip \in Couple
  /\ \A t \in Couple, d \in T!TripDoc : hand[r].trip = t /\ hand[r].doc = d =>
       /\ pc[r] = "upsert" => /\ hand[r].seen \subseteq T!KeysOf(t) \cap TRows
                             /\ hand[r].todo \subseteq T!Desired(t, d)
                             /\ T!Desired(t, d) \subseteq hand[r].gone
       /\ pc[r] = "remove" => hand[r].todo \subseteq T!KeysOf(t) \cap TRows
  /\ pc[r] = "delete_expense" => hand[r].seen \subseteq TRows
  /\ pc[r] \in {"mirror_update", "mirror_drop"} => hand[r].seen \subseteq T!Entry
  /\ pc[r] \in {"mirror_update", "mirror_drop", "mirror_insert"} => hand[r].doc.recovery > 0
  /\ pc[r] = "old_driver" =>
       hand[r].old \in T!TripDoc /\ hand[r].old.driver # hand[r].doc.driver
  /\ pc[r] \notin {"old_driver", "done"} => v4[r] = nothing
THeld == \A r \in Two : THolds(r)

(* Whoever overlaps has met somebody, and only then has somebody met.      *)
TApart ==
  /\ \A r, s \in T!Busy : r # s => r \in v5
  /\ v5 # {} => "overlap" \in marred

(* A request that has met nobody finds the trip as it has written it, and  *)
(* the rows as it has read them, but for those it has written since.       *)
TRight(k, doc) == v2[k] = [amount |-> doc.lines[k[2]], is_deleted |-> FALSE]
TWritten(t, doc) ==
  /\ T!Live(t) /\ v1[t].lines = doc.lines
  /\ v1[t].driver = doc.driver /\ v1[t].recovery = doc.recovery
TUpserted(r, t, doc) ==
  \A k \in T!KeysOf(t) :
    IF k \in T!Desired(t, doc)
    THEN IF k \in hand[r].todo THEN k \in hand[r].seen \/ v2[k] = nothing ELSE TRight(k, doc)
    ELSE T!Active(k) => k \in hand[r].seen \ hand[r].gone
TRemoved(r, t, doc) ==
  \A k \in T!KeysOf(t) :
    IF k \in T!Desired(t, doc) THEN TRight(k, doc) /\ k \notin hand[r].todo
    ELSE T!Active(k) => k \in hand[r].todo
TSees(r) ==
  \A t \in Couple : hand[r].trip = t =>
    /\ pc[r] = "link" \/ (pc[r] = "write" /\ hand[r].old # nothing) => T!Live(t)
    /\ pc[r] \in {"delete_rows", "unlink", "delete_mirror"} => ~T!Live(t)
    /\ \A d \in T!TripDoc : hand[r].doc = d =>
         /\ pc[r] \in TSaving => TWritten(t, d)
         /\ pc[r] = "upsert" => TUpserted(r, t, d)
         /\ pc[r] = "remove" => TRemoved(r, t, d)
TSynced == \A r \in T!Busy \ v5 : TSees(r)

(* The costs of a trip are its expenses or its lines, and a request that   *)
(* is writing them leaves it so.                                           *)
TActives(t) == {k \in T!KeysOf(t) : T!Active(k)}
TCosted(t) ==
  \/ /\ TActives(t) = {}
     /\ T!Live(t) => ~v1[t].has_canonical \/ T!Desired(t, v1[t]) = {}
  \/ /\ T!Live(t) /\ v1[t].has_canonical /\ TActives(t) = T!Desired(t, v1[t])
     /\ \A k \in TActives(t) : v2[k].amount = v1[t].lines[k[2]]
TCosting(r) == pc[r] \in {"read_rows", "upsert", "remove", "delete_rows"}
TCosts ==
  marred = {} =>
    \A t \in Couple : TCosted(t) \/ \E r \in Two : TCosting(r) /\ hand[r].trip = t

(* The recovery of a trip is one entry, and a request that is writing it   *)
(* knows which one there is.                                               *)
TMirrored(t) ==
  IF T!Live(t) /\ v1[t].recovery > 0
  THEN \E e \in T!Entry : /\ T!Mirrors(t) = {e} /\ v4[e].driver = v1[t].driver
                          /\ v4[e].amount = v1[t].recovery
  ELSE T!Mirrors(t) = {}
TMirroring(r, t) ==
  \/ pc[r] \in {"read_rows", "upsert", "remove", "mirror"} /\ \E e \in T!Entry : T!Mirrors(t) \subseteq {e}
  \/ pc[r] \in {"mirror_update", "mirror_drop"} /\ \E e \in T!Entry : T!Mirrors(t) = {e} /\ hand[r].seen = {e}
  \/ pc[r] = "mirror_insert" /\ T!Mirrors(t) = {}
  \/ pc[r] \in {"delete_rows", "unlink", "delete_mirror"}
TFixing(r) == pc[r] \in {"mirror_update", "mirror_drop", "mirror_insert"}
TMirrors ==
  marred \subseteq {"expense_deleted"} =>
    \A t \in Couple :
      /\ TMirrored(t) \/ \E r \in Two : TMirroring(r, t) /\ hand[r].trip = t
      /\ \A r \in Two : TFixing(r) /\ hand[r].trip = t => TMirroring(r, t)

TTolls ==
  marred \cap {"overlap", "death", "bulk_delete"} = {} /\ v3 # nothing =>
    T!Live(v3) \/ \E r \in Two : pc[r] \in {"delete_rows", "unlink"} /\ hand[r].trip = v3

TInv == TTyped /\ THeld /\ TApart /\ TSynced /\ TCosts /\ TMirrors /\ TTolls

TStep(r) == T!Start(r) \/ T!Step(r) \/ T!Die(r)

LEMMA TripsNothing ==
  /\ nothing \notin Couple /\ nothing \notin T!TripDoc /\ nothing \notin T!ExpenseDoc
  /\ nothing \notin T!EntryDoc
  /\ T!Blank \in T!Hand /\ T!Blank.trip = nothing /\ T!Blank.old = nothing
BY OfficeTrips DEF T!Blank, T!Hand

LEMMA TripsBlank ==
  ASSUME NEW t, NEW doc
  PROVE  [T!Blank EXCEPT !.trip = t, !.doc = doc]
           = [trip |-> t, doc |-> doc, old |-> nothing, seen |-> {}, gone |-> {}, todo |-> {}]
<1>1. PICK b : b = [T!Blank EXCEPT !.trip = t]
  OBVIOUS
<1>2. b = [trip |-> t, doc |-> nothing, old |-> nothing, seen |-> {}, gone |-> {}, todo |-> {}]
  BY <1>1 DEF T!Blank
<1>3. [T!Blank EXCEPT !.trip = t, !.doc = doc] = [b EXCEPT !.doc = doc]
  BY <1>1, Zenon
<1>4. [b EXCEPT !.doc = doc]
        = [trip |-> t, doc |-> doc, old |-> nothing, seen |-> {}, gone |-> {}, todo |-> {}]
  BY <1>2
<1> QED
  BY <1>3, <1>4

LEMMA TripsUpdated ==
  ASSUME NEW t, NEW doc, NEW old
  PROVE  [T!Blank EXCEPT !.trip = t, !.old = old, !.doc = doc]
           = [trip |-> t, doc |-> doc, old |-> old, seen |-> {}, gone |-> {}, todo |-> {}]
<1>1. PICK b : b = [T!Blank EXCEPT !.trip = t]
  OBVIOUS
<1>2. b = [trip |-> t, doc |-> nothing, old |-> nothing, seen |-> {}, gone |-> {}, todo |-> {}]
  BY <1>1 DEF T!Blank
<1>3. PICK c : c = [b EXCEPT !.old = old]
  OBVIOUS
<1>4. c = [trip |-> t, doc |-> nothing, old |-> old, seen |-> {}, gone |-> {}, todo |-> {}]
  BY <1>2, <1>3
<1>5. [T!Blank EXCEPT !.trip = t, !.old = old, !.doc = doc] = [c EXCEPT !.doc = doc]
  BY <1>1, <1>3, Zenon
<1>6. [c EXCEPT !.doc = doc]
        = [trip |-> t, doc |-> doc, old |-> old, seen |-> {}, gone |-> {}, todo |-> {}]
  BY <1>4
<1> QED
  BY <1>5, <1>6

LEMMA TripsSheet ==
  ASSUME NEW s \in TripSheet
  PROVE  /\ T!Fresh(s) \in T!TripDoc
         /\ \A b \in BOOLEAN : [T!Fresh(s) EXCEPT !.has_canonical = b] \in T!TripDoc
         /\ [T!Fresh(s) EXCEPT !.recovery = 0] \in T!TripDoc
<1>1. PICK a \in [T!Line -> TripAmount], d \in TripDriver, n \in TripAmount :
        s.lines = a /\ s.driver = d /\ s.recovery = n
  BY OfficeTrips
<1>2. T!Fresh(s) = [lines |-> a, has_canonical |-> FALSE, driver |-> d, recovery |-> n]
  BY <1>1 DEF T!Fresh
<1>3. 0 \in TripAmount
  BY OfficeTrips
<1>4. PICK doc : doc = T!Fresh(s)
  OBVIOUS
<1>f. PICK f : f = FALSE
  OBVIOUS
<1>5. doc = [lines |-> a, has_canonical |-> f, driver |-> d, recovery |-> n]
  BY <1>2, <1>4, <1>f
<1>6. \A b \in BOOLEAN, m \in TripAmount :
        [lines |-> a, has_canonical |-> b, driver |-> d, recovery |-> m] \in T!TripDoc
  BY DEF T!TripDoc
<1>7. ASSUME NEW b
      PROVE  [doc EXCEPT !.has_canonical = b] = [lines |-> a, has_canonical |-> b, driver |-> d, recovery |-> n]
  BY <1>5
<1>a. ASSUME NEW m
      PROVE  [doc EXCEPT !.recovery = m]
               = [lines |-> a, has_canonical |-> f, driver |-> d, recovery |-> m]
  BY <1>5
<1>8. [doc EXCEPT !.recovery = 0] \in T!TripDoc
  BY <1>3, <1>6, <1>a, <1>f, Zenon
<1>9. ASSUME NEW b \in BOOLEAN
      PROVE  [T!Fresh(s) EXCEPT !.has_canonical = b] \in T!TripDoc
  <2>1. TripAmount # {} /\ n \in TripAmount
    OBVIOUS
  <2>2. [doc EXCEPT !.has_canonical = b] \in T!TripDoc
    BY <1>6, <1>7, <2>1, Zenon
  <2> QED
    BY <1>4, <2>2, Zenon
<1> QED
  BY <1>4, <1>5, <1>6, <1>8, <1>9, <1>f, Zenon

LEMMA TripsCopied ==
  ASSUME NEW doc \in T!TripDoc, NEW resets \in BOOLEAN
  PROVE  [doc EXCEPT !.lines["toll"] = IF resets THEN 0 ELSE @] \in T!TripDoc
<1>1. PICK a \in [T!Line -> TripAmount], b \in BOOLEAN, d \in TripDriver, n \in TripAmount :
        doc = [lines |-> a, has_canonical |-> b, driver |-> d, recovery |-> n]
  BY DEF T!TripDoc
<1>2. [a EXCEPT !["toll"] = IF resets THEN 0 ELSE @] \in [T!Line -> TripAmount]
  BY OfficeTrips DEF T!Line
<1>3. [doc EXCEPT !.lines["toll"] = IF resets THEN 0 ELSE @]
        = [lines |-> [a EXCEPT !["toll"] = IF resets THEN 0 ELSE @], has_canonical |-> b,
           driver |-> d, recovery |-> n]
  BY <1>1
<1>4. PICK c \in [T!Line -> TripAmount] : c = [a EXCEPT !["toll"] = IF resets THEN 0 ELSE @]
  BY <1>2
<1>5. [lines |-> c, has_canonical |-> b, driver |-> d, recovery |-> n] \in T!TripDoc
  BY DEF T!TripDoc
<1> QED
  BY <1>3, <1>4, <1>5

(* What a request can begin.                                               *)
TStarts(r, at, y) ==
  /\ y \in T!Hand /\ T!Begin(r, at, y)
  /\ \/ /\ at = "write" /\ y.trip \in Couple /\ y.doc \in T!TripDoc
        /\ y.old # nothing => T!Live(y.trip)
     \/ at \in {"delete_trip", "bulk"} /\ y.trip \in Couple
     \/ at = "copy" /\ y.trip \in Couple /\ y.doc \in T!TripDoc
     \/ at = "delete_expense" /\ y.seen \subseteq TRows
     \/ at = "link" /\ (y.trip = nothing \/ (y.trip \in Couple /\ T!Live(y.trip)))

LEMMA TripsStart ==
  ASSUME TTyped, NEW r \in Two, T!Start(r)
  PROVE  \E at \in TSteps, y \in T!Hand : TStarts(r, at, y)
<1> DEFINE H(t, doc, old, seen) ==
      [trip |-> t, doc |-> doc, old |-> old, seen |-> seen, gone |-> {}, todo |-> {}]
<1>0. \A t \in Couple \cup {nothing}, doc, old \in T!TripDoc \cup {nothing},
        seen \in SUBSET T!Key :
        /\ H(t, doc, old, seen) \in T!Hand /\ H(t, doc, old, seen).trip = t
        /\ H(t, doc, old, seen).doc = doc /\ H(t, doc, old, seen).old = old
        /\ H(t, doc, old, seen).seen = seen
  BY DEF T!Hand
<1>v. v1 \in [Couple -> T!TripDoc \cup {nothing}]
  BY DEF TTyped, T!TypeOK
<1>1. ASSUME NEW t \in Couple, NEW s \in TripSheet, T!CreateTrip(r, t, s)
      PROVE  \E y \in T!Hand : TStarts(r, "write", y)
  <2>1. T!Begin(r, "write", H(t, T!Fresh(s), nothing, {}))
    <3>1. PICK doc : doc = T!Fresh(s)
      OBVIOUS
    <3>2. [T!Blank EXCEPT !.trip = t, !.doc = doc] = H(t, doc, nothing, {})
      BY TripsBlank
    <3> HIDE DEF H
    <3> QED
      BY <1>1, <3>1, <3>2 DEF T!CreateTrip
  <2>2. T!Fresh(s) \in T!TripDoc
    BY TripsSheet
  <2> HIDE DEF H
  <2> QED
    BY <2>1, <2>2, <1>0 DEF TStarts
<1>2. ASSUME NEW t \in Couple, NEW s \in TripSheet, T!UpdateFind(r, t, s)
      PROVE  \E y \in T!Hand : TStarts(r, "write", y)
  <2>0. v1[t] \in T!TripDoc /\ T!Live(t)
    BY <1>2, <1>v DEF T!UpdateFind, T!Live
  <2>1. PICK doc : doc = [T!Fresh(s) EXCEPT !.has_canonical = v1[t].has_canonical]
    OBVIOUS
  <2>2. T!Begin(r, "write", H(t, doc, v1[t], {}))
    <3>0. PICK old : old = v1[t]
      OBVIOUS
    <3>a. [T!Blank EXCEPT !.trip = t, !.old = old, !.doc = doc]
            = [trip |-> t, doc |-> doc, old |-> old, seen |-> {}, gone |-> {}, todo |-> {}]
      BY TripsUpdated, Zenon
    <3>1. [T!Blank EXCEPT !.trip = t, !.old = old, !.doc = doc] = H(t, doc, old, {})
      BY <3>a, Zenon
    <3> HIDE DEF H
    <3> QED
      BY <1>2, <2>1, <3>0, <3>1 DEF T!UpdateFind
  <2>3. doc \in T!TripDoc
    <3>1. v1[t].has_canonical \in BOOLEAN
      BY <2>0 DEF T!TripDoc
    <3> QED
      BY <2>1, <3>1, TripsSheet
  <2> HIDE DEF H
  <2> QED
    BY <2>0, <2>2, <2>3, <1>0 DEF TStarts
<1>3. ASSUME NEW t \in Couple, T!DeleteFind(r, t)
      PROVE  \E y \in T!Hand : TStarts(r, "delete_trip", y)
  <2>1. T!Begin(r, "delete_trip", H(t, nothing, nothing, {}))
    BY <1>3 DEF T!DeleteFind, T!Blank
  <2> HIDE DEF H
  <2> QED
    BY <2>1, <1>0 DEF TStarts
<1>4. ASSUME NEW t \in Couple, T!BulkFind(r, t)
      PROVE  \E y \in T!Hand : TStarts(r, "bulk", y)
  <2>1. T!Begin(r, "bulk", H(t, nothing, nothing, {}))
    BY <1>4 DEF T!BulkFind, T!Blank
  <2> HIDE DEF H
  <2> QED
    BY <2>1, <1>0 DEF TStarts
<1>5. ASSUME NEW t \in Couple, T!LinkFind(r, t)
      PROVE  \E y \in T!Hand : TStarts(r, "link", y)
  <2>1. T!Begin(r, "link", H(t, nothing, nothing, {})) /\ T!Live(t)
    BY <1>5 DEF T!LinkFind, T!Blank
  <2> HIDE DEF H
  <2> QED
    BY <2>1, <1>0 DEF TStarts
<1>6. ASSUME NEW t \in Couple, NEW u \in Couple, NEW resets \in BOOLEAN, T!CopyFind(r, t, u, resets)
      PROVE  \E y \in T!Hand : TStarts(r, "copy", y)
  <2>0. v1[t] \in T!TripDoc
    BY <1>6, <1>v DEF T!CopyFind, T!Live
  <2>1. PICK doc : doc = [v1[t] EXCEPT !.lines["toll"] = IF resets THEN 0 ELSE @]
    OBVIOUS
  <2>2. T!Begin(r, "copy", H(u, doc, nothing, {}))
    <3>1. [T!Blank EXCEPT !.trip = u, !.doc = doc] = H(u, doc, nothing, {})
      BY TripsBlank, Zenon
    <3> HIDE DEF H
    <3> QED
      BY <1>6, <2>1, <3>1 DEF T!CopyFind
  <2>3. doc \in T!TripDoc
    BY <2>0, <2>1, TripsCopied
  <2> HIDE DEF H
  <2> QED
    BY <2>2, <2>3, <1>0 DEF TStarts
<1>7. ASSUME NEW k \in T!Key, T!ExpenseFind(r, k)
      PROVE  \E y \in T!Hand : TStarts(r, "delete_expense", y)
  <2>1. T!Begin(r, "delete_expense", H(nothing, nothing, nothing, {k})) /\ v2[k] # nothing
    BY <1>7 DEF T!ExpenseFind, T!Blank, T!Active
  <2>2. {k} \subseteq TRows
    BY <2>1 DEF TRows
  <2> HIDE DEF H
  <2> QED
    BY <2>1, <2>2, <1>0 DEF TStarts
<1>8. ASSUME T!UnlinkFind(r)
      PROVE  \E y \in T!Hand : TStarts(r, "link", y)
  BY <1>8, TripsNothing DEF T!UnlinkFind, TStarts
<1>9. {"write", "delete_trip", "bulk", "link", "copy", "delete_expense"} \subseteq TSteps
  BY DEF TSteps, TDeleting
<1> HIDE DEF H
<1> QED
  BY <1>1, <1>2, <1>3, <1>4, <1>5, <1>6, <1>7, <1>8, <1>9 DEF T!Start

(* The steps of a request that it has begun.                               *)
TWorks(r) == T!Step(r) \/ T!Die(r)
TGoes(r, at, y) == pc' = [pc EXCEPT ![r] = at] /\ hand' = [hand EXCEPT ![r] = y]

LEMMA TripsGoto ==
  ASSUME TTyped, NEW r \in Two, NEW from, NEW to \in TSteps \ {"done"}, NEW what \in T!Hand,
         T!Goto(r, from, to, what)
  PROVE  /\ pc[r] = from /\ v5' = v5 /\ pc' \in [Two -> TSteps] /\ hand' \in [Two -> T!Hand]
         /\ pc'[r] = to /\ hand'[r] = what
<1>1. hand \in [Two -> T!Hand] /\ pc \in [Two -> TSteps]
  BY DEF TTyped
<1>2. /\ pc[r] = from /\ pc' = [pc EXCEPT ![r] = to] /\ v5' = v5
      /\ hand' = [hand EXCEPT ![r] = what]
  BY DEF T!Goto
<1> QED
  BY <1>1, <1>2

LEMMA TripsEnd ==
  ASSUME TTyped, NEW r \in Two, NEW from, NEW what, T!Goto(r, from, "done", what)
  PROVE  /\ pc[r] = from /\ v5' = v5 /\ pc' \in [Two -> TSteps] /\ hand' \in [Two -> T!Hand]
         /\ pc'[r] = "done"
<1>1. /\ hand \in [Two -> T!Hand] /\ pc \in [Two -> TSteps] /\ T!Blank \in T!Hand
      /\ "done" \in TSteps
  BY TripsNothing DEF TTyped, TSteps
<1>2. /\ pc[r] = from /\ pc' = [pc EXCEPT ![r] = "done"] /\ v5' = v5
      /\ hand' = [hand EXCEPT ![r] = T!Blank]
  BY DEF T!Goto
<1> QED
  BY <1>1, <1>2

LEMMA TripsMove ==
  ASSUME TTyped, NEW r \in Two, TWorks(r)
  PROVE  /\ v5' = v5 /\ r \in T!Busy
         /\ \A s \in Two : s # r => pc'[s] = pc[s] /\ hand'[s] = hand[s]
<1>0. /\ pc \in [Two -> TSteps] /\ hand \in [Two -> T!Hand]
      /\ \A at \in TSteps : (at = "new" \/ at = "done") \/ (at # "new" /\ at # "done")
  BY DEF TTyped
<1>1. ASSUME NEW from, NEW to, NEW what, T!Goto(r, from, to, what),
             from # "new", from # "done"
      PROVE  /\ v5' = v5 /\ r \in T!Busy
             /\ \A s \in Two : s # r => pc'[s] = pc[s] /\ hand'[s] = hand[s]
  <2>1. pc[r] = from /\ v5' = v5 /\ \E y, z : pc' = [pc EXCEPT ![r] = z] /\ hand' = [hand EXCEPT ![r] = y]
    BY <1>1 DEF T!Goto
  <2> QED
    BY <2>1, <1>0, <1>1 DEF T!Busy
<1>2. ASSUME T!Die(r)
      PROVE  /\ v5' = v5 /\ r \in T!Busy
             /\ \A s \in Two : s # r => pc'[s] = pc[s] /\ hand'[s] = hand[s]
  BY <1>0, <1>2 DEF T!Die
<1>3. CASE T!WriteTrip(r) \/ T!ReadRows(r) \/ T!UpsertRow(r) \/ T!RowsDone(r) \/ T!RemoveRow(r)
           \/ T!SetFlag(r) \/ T!MirrorNothing(r)
  BY <1>1, <1>3
     DEF T!WriteTrip, T!ReadRows, T!UpsertRow, T!RowsDone, T!RemoveRow, T!SetFlag,
         T!MirrorNothing, T!Read
<1>4. CASE T!MirrorFind(r) \/ T!MirrorUpdate(r) \/ T!MirrorDrop(r) \/ T!MirrorInsert(r) \/ T!DropOldDriver(r)
           \/ T!DeleteTrip(r) \/ T!DeleteRows(r)
  BY <1>1, <1>4
     DEF T!MirrorFind, T!MirrorUpdate, T!MirrorDrop, T!MirrorInsert, T!DropOldDriver,
         T!DeleteTrip, T!DeleteRows, T!Read
<1>5. CASE T!Unlink(r) \/ T!DeleteMirror(r) \/ T!BulkDelete(r) \/ T!CopyInsert(r) \/ T!ExpenseDelete(r)
           \/ T!LinkWrite(r)
  BY <1>1, <1>5
     DEF T!Unlink, T!DeleteMirror, T!BulkDelete, T!CopyInsert, T!ExpenseDelete, T!LinkWrite
<1> QED
  BY <1>2, <1>3, <1>4, <1>5 DEF TWorks, T!Step

LEMMA TripsMarred ==
  ASSUME NEW r \in Two, TWorks(r)
  PROVE  marred \subseteq marred'
<1>1. CASE T!Die(r) \/ T!BulkDelete(r) \/ T!CopyInsert(r) \/ T!ExpenseDelete(r)
  BY <1>1 DEF T!Die, T!BulkDelete, T!CopyInsert, T!ExpenseDelete
<1>2. CASE T!WriteTrip(r) \/ T!ReadRows(r) \/ T!UpsertRow(r) \/ T!RowsDone(r) \/ T!RemoveRow(r)
           \/ T!SetFlag(r) \/ T!MirrorNothing(r)
  BY <1>2
     DEF T!WriteTrip, T!ReadRows, T!UpsertRow, T!RowsDone, T!RemoveRow, T!SetFlag,
         T!MirrorNothing, T!Read
<1>3. CASE T!MirrorFind(r) \/ T!MirrorUpdate(r) \/ T!MirrorDrop(r) \/ T!MirrorInsert(r) \/ T!DropOldDriver(r)
           \/ T!DeleteTrip(r) \/ T!DeleteRows(r) \/ T!Unlink(r) \/ T!DeleteMirror(r) \/ T!LinkWrite(r)
  BY <1>3
     DEF T!MirrorFind, T!MirrorUpdate, T!MirrorDrop, T!MirrorInsert, T!DropOldDriver,
         T!DeleteTrip, T!DeleteRows, T!Read, T!Unlink, T!DeleteMirror, T!LinkWrite
<1> QED
  BY <1>1, <1>2, <1>3 DEF TWorks, T!Step

LEMMA TripsBegun ==
  ASSUME TTyped, NEW r \in Two, NEW at, NEW y, TStarts(r, at, y)
  PROVE  /\ pc[r] = "new" /\ marred \subseteq marred' /\ UNCHANGED <<v1, v2, v3, v4>>
         /\ pc' = [pc EXCEPT ![r] = at] /\ hand' = [hand EXCEPT ![r] = y]
         /\ pc'[r] = at /\ hand'[r] = y
         /\ \A s \in Two : s # r => pc'[s] = pc[s] /\ hand'[s] = hand[s]
BY DEF TTyped, TStarts, T!Begin

(* Nobody but the request that steps is alone after the step, and it was   *)
(* alone before, or it has just begun.                                     *)
LEMMA TripsApart ==
  ASSUME TTyped, TApart, NEW r \in Two, TStep(r)
  PROVE  /\ TApart' /\ marred \subseteq marred'
         /\ \A s \in Two : s # r => pc'[s] = pc[s] /\ hand'[s] = hand[s]
         /\ \A s \in T!Busy' \ v5' : s = r
         /\ r \in v5 => r \in v5'
<1>1. CASE TWorks(r)
  <2>1. /\ v5' = v5 /\ r \in T!Busy /\ marred \subseteq marred'
        /\ \A s \in Two : s # r => pc'[s] = pc[s] /\ hand'[s] = hand[s]
    BY <1>1, TripsMove, TripsMarred
  <2>2. T!Busy' \subseteq T!Busy
    BY <2>1 DEF T!Busy
  <2> QED
    BY <2>1, <2>2 DEF TApart
<1>2. CASE T!Start(r)
  <2>1. PICK at \in TSteps, y \in T!Hand : TStarts(r, at, y)
    BY <1>2, TripsStart
  <2>2. /\ pc[r] = "new" /\ marred \subseteq marred'
        /\ \A s \in Two : s # r => pc'[s] = pc[s] /\ hand'[s] = hand[s]
    BY <2>1, TripsBegun
  <2>3. T!Busy' \subseteq T!Busy \cup {r}
    BY <2>2 DEF T!Busy
  <2>4. /\ T!Busy = {} => v5' = v5
        /\ T!Busy # {} => v5' = v5 \cup T!Busy \cup {r} /\ "overlap" \in marred'
    BY <2>1 DEF TStarts, T!Begin
  <2> QED
    BY <2>2, <2>3, <2>4 DEF TApart
<1> QED
  BY <1>1, <1>2 DEF TStep, TWorks

(* While nobody overlaps, the request that steps is the only one at work.  *)
TLone(r) ==
  "overlap" \notin marred' =>
    v5' = {} /\ v5 = {} /\ \A s \in Two : s # r => pc[s] \in {"new", "done"}
TOthers(r) == \A s \in Two : s # r => pc'[s] = pc[s] /\ hand'[s] = hand[s]

LEMMA TripsLone ==
  ASSUME TTyped, TApart, NEW r \in Two, TStep(r)
  PROVE  /\ TLone(r) /\ TOthers(r) /\ TApart' /\ marred \subseteq marred'
         /\ \A s \in T!Busy' \ v5' : s = r
<1>1. /\ TApart' /\ marred \subseteq marred' /\ TOthers(r)
      /\ \A s \in T!Busy' \ v5' : s = r
  BY TripsApart DEF TOthers
<1>2. ASSUME "overlap" \notin marred'
      PROVE  v5' = {} /\ v5 = {} /\ \A s \in Two : s # r => pc[s] \in {"new", "done"}
  <2>1. v5' = {} /\ v5 = {}
    BY <1>1, <1>2 DEF TApart
  <2> QED
    BY <1>1, <2>1 DEF TOthers, T!Busy
<1> QED
  BY <1>1, <1>2 DEF TLone

LEMMA TripsKeepHeld ==
  ASSUME THeld, NEW r \in Two, TOthers(r), TRows \subseteq TRows', THolds(r)',
         \A s \in Two : s # r /\ v4[s] = nothing => v4'[s] = nothing
  PROVE  THeld'
<1> SUFFICES ASSUME NEW s \in Two, s # r
             PROVE  THolds(s)'
  BY DEF THeld
<1>1. THolds(s) /\ pc'[s] = pc[s] /\ hand'[s] = hand[s]
  BY DEF THeld, TOthers
<1>2. \A t, d : T!KeysOf(t)' = T!KeysOf(t) /\ T!Desired(t, d)' = T!Desired(t, d)
  BY DEF T!KeysOf, T!Desired
<1> QED
  BY <1>1, <1>2 DEF THolds

LEMMA TripsKeepCosts ==
  ASSUME TCosts, NEW r \in Two, TOthers(r), marred \subseteq marred', UNCHANGED <<v1, v2>>,
         TCosting(r) => TCosting(r)' /\ hand'[r].trip = hand[r].trip
  PROVE  TCosts'
<1> SUFFICES ASSUME marred = {}, NEW t \in Couple
             PROVE  TCosted(t)' \/ \E s \in Two : TCosting(s)' /\ hand'[s].trip = t
  BY DEF TCosts
<1>1. TCosted(t)' = TCosted(t)
  BY DEF TCosted, TActives, T!Active, T!KeysOf, T!Live, T!Desired
<1>2. \A s \in Two : TCosting(s) => TCosting(s)' /\ hand'[s].trip = hand[s].trip
  BY DEF TCosting, TOthers
<1> QED
  BY <1>1, <1>2 DEF TCosts

LEMMA TripsKeepMirrors ==
  ASSUME TMirrors, NEW r \in Two, TOthers(r), marred \subseteq marred', v4' = v4,
         \A t \in Couple : TMirrored(t) => TMirrored(t)',
         \A t \in Couple : TMirroring(r, t) => TMirroring(r, t)' /\ hand'[r].trip = hand[r].trip,
         ~TFixing(r)'
  PROVE  TMirrors'
<1> SUFFICES ASSUME marred \subseteq {"expense_deleted"}, NEW t \in Couple
             PROVE  /\ TMirrored(t)' \/ \E s \in Two : TMirroring(s, t)' /\ hand'[s].trip = t
                    /\ \A s \in Two : TFixing(s)' /\ hand'[s].trip = t => TMirroring(s, t)'
  BY DEF TMirrors
<1>1. ASSUME NEW s \in Two, TMirroring(s, t)
      PROVE  TMirroring(s, t)' /\ hand'[s].trip = hand[s].trip
  <2>1. CASE s = r
    BY <1>1, <2>1
  <2>2. CASE s # r
    <3>1. T!Mirrors(t)' = T!Mirrors(t) /\ T!Entry' = T!Entry
      BY DEF T!Mirrors, T!Entry
    <3> QED
      BY <1>1, <2>2, <3>1 DEF TMirroring, TOthers
  <2> QED
    BY <2>1, <2>2
<1>2. ASSUME NEW s \in Two, TFixing(s)', hand'[s].trip = t
      PROVE  TMirroring(s, t)'
  <2>1. s # r
    BY <1>2
  <2>2. TFixing(s) /\ hand[s].trip = t
    BY <1>2, <2>1 DEF TFixing, TOthers
  <2> QED
    BY <1>1, <2>2 DEF TMirrors
<1> QED
  BY <1>1, <1>2 DEF TMirrors

LEMMA TripsSameMirrored ==
  ASSUME UNCHANGED <<v1, v4>>
  PROVE  \A t \in Couple : TMirrored(t) => TMirrored(t)'
BY DEF TMirrored, T!Mirrors, T!Entry, T!Live

LEMMA TripsKeepTolls ==
  ASSUME TTyped, TTolls, NEW r \in Two, TOthers(r), marred \subseteq marred', v3' = v3,
         \A t \in Couple : T!Live(t) => T!Live(t)' \/ (pc'[r] = "delete_rows" /\ hand'[r].trip = t),
         pc[r] \in {"delete_rows", "unlink"} =>
           pc'[r] \in {"delete_rows", "unlink"} /\ hand'[r].trip = hand[r].trip
  PROVE  TTolls'
<1> SUFFICES ASSUME marred \cap {"overlap", "death", "bulk_delete"} = {}, v3 # nothing,
                    NEW u \in Couple, u = v3
             PROVE  T!Live(u)' \/ \E s \in Two : pc'[s] \in {"delete_rows", "unlink"} /\ hand'[s].trip = u
  <2>1. v3 \in Couple \cup {nothing}
    BY DEF TTyped, T!TypeOK
  <2> QED
    BY <2>1 DEF TTolls, T!Live
<1> QED
  BY DEF TTolls, T!Live, TOthers

(* What is to be shown of each step.                                       *)
TKept(r) ==
  /\ TTyped' /\ THolds(r)' /\ TRows \subseteq TRows'
  /\ \A s \in Two : s # r /\ v4[s] = nothing => v4'[s] = nothing
  /\ r \in T!Busy' \ v5' => TSees(r)'
  /\ TCosts' /\ TMirrors' /\ TTolls'

LEMMA TripsKeptAll ==
  ASSUME TInv, NEW r \in Two, TStep(r), TKept(r)
  PROVE  TInv'
<1>1. /\ TOthers(r) /\ TApart' /\ \A s \in T!Busy' \ v5' : s = r
  BY TripsLone DEF TInv
<1>2. THeld'
  BY <1>1, TripsKeepHeld DEF TInv, TKept
<1>3. TSynced'
  BY <1>1 DEF TKept, TSynced
<1> QED
  BY <1>1, <1>2, <1>3 DEF TInv, TKept

LEMMA TripsBeginKept ==
  ASSUME TInv, NEW r \in Two, T!Start(r)
  PROVE  TKept(r)
<1>0. TTyped /\ THeld /\ TCosts /\ TMirrors /\ TTolls /\ TStep(r)
  BY DEF TInv, TStep
<1>1. PICK at \in TSteps, y \in T!Hand : TStarts(r, at, y)
  BY <1>0, TripsStart
<1>2. /\ pc[r] = "new" /\ marred \subseteq marred' /\ UNCHANGED <<v1, v2, v3, v4>>
      /\ pc' = [pc EXCEPT ![r] = at] /\ hand' = [hand EXCEPT ![r] = y]
      /\ pc'[r] = at /\ hand'[r] = y
  BY <1>0, <1>1, TripsBegun
<1>3. TOthers(r) /\ at \in {"write", "delete_trip", "bulk", "copy", "delete_expense", "link"}
  BY <1>0, <1>1, TripsLone DEF TInv, TStarts
<1>4. TTyped'
  <2>1. pc' \in [Two -> TSteps] /\ hand' \in [Two -> T!Hand]
    BY <1>0, <1>2 DEF TTyped
  <2>2. v5' \subseteq Two /\ marred' \subseteq {"overlap", "death", "bulk_delete", "copy", "expense_deleted"}
    BY <1>0, <1>1 DEF TStarts, T!Begin, TTyped, T!TypeOK, T!Busy
  <2> QED
    BY <1>0, <1>2, <2>1, <2>2
       DEF TTyped, T!TypeOK
<1>5. THolds(r)'
  <2>1. v4'[r] = nothing
    BY <1>0, <1>2 DEF THeld, THolds
  <2>2. TRows' = TRows /\ T!TripDoc' = T!TripDoc
    BY <1>2 DEF TRows, T!TripDoc
  <2>3. /\ at \in {"write", "copy"} => y.trip \in Couple /\ y.doc \in T!TripDoc
        /\ at \in {"delete_trip", "bulk"} => y.trip \in Couple
        /\ at = "delete_expense" => y.seen \subseteq TRows
    BY <1>1 DEF TStarts
  <2> QED
    BY <1>2, <1>3, <2>1, <2>2, <2>3 DEF THolds, TSaving, TDeleting
<1>6. TSees(r)'
  <2> SUFFICES ASSUME NEW t \in Couple, y.trip = t
               PROVE  at = "link" \/ (at = "write" /\ y.old # nothing) => T!Live(t)
    BY <1>2, <1>3 DEF TSees, T!Live, TSaving
  <2> QED
    BY <1>1, TripsNothing DEF TStarts
<1>7. TCosts'
  BY <1>0, <1>2, <1>3, TripsKeepCosts DEF TCosting
<1>8. TMirrors'
  BY <1>0, <1>2, <1>3, TripsKeepMirrors, TripsSameMirrored DEF TMirroring, TFixing
<1>9. TTolls'
  BY <1>0, <1>2, <1>3, TripsKeepTolls DEF T!Live
<1> QED
  BY <1>2, <1>4, <1>5, <1>6, <1>7, <1>8, <1>9 DEF TKept, TRows

LEMMA TripsDieKept ==
  ASSUME TInv, NEW r \in Two, T!Die(r)
  PROVE  TKept(r)
<1>1. /\ pc' = [pc EXCEPT ![r] = "done"] /\ hand' = [hand EXCEPT ![r] = T!Blank]
      /\ "death" \in marred' /\ UNCHANGED <<v1, v2, v3, v4, v5>>
      /\ marred' = marred \cup {"death"}
  BY DEF T!Die
<1>2. /\ pc'[r] = "done" /\ TTyped'
  <2>1. /\ pc \in [Two -> TSteps] /\ hand \in [Two -> T!Hand] /\ T!Blank \in T!Hand
        /\ "done" \in TSteps
    BY TripsNothing DEF TInv, TTyped, TSteps
  <2>2. pc'[r] = "done" /\ pc' \in [Two -> TSteps] /\ hand' \in [Two -> T!Hand]
    BY <1>1, <2>1
  <2> QED
    BY <1>1, <2>2 DEF TInv, TTyped, T!TypeOK
<1>3. THolds(r)'
  BY <1>2 DEF THolds, TSaving, TDeleting
<1>4. r \notin T!Busy'
  BY <1>2 DEF T!Busy
<1>5. TCosts' /\ TMirrors' /\ TTolls'
  BY <1>1 DEF TCosts, TMirrors, TTolls
<1> QED
  BY <1>1, <1>2, <1>3, <1>4, <1>5 DEF TKept, TRows

(* What a request at work has in its hand, and what it knows if it is      *)
(* alone.                                                                  *)
LEMMA TripsHand ==
  ASSUME NEW h \in T!Hand, NEW c \in SUBSET T!Key
  PROVE  /\ [h EXCEPT !.todo = c] \in T!Hand /\ [h EXCEPT !.todo = c].todo = c
         /\ [h EXCEPT !.todo = c].trip = h.trip
         /\ [h EXCEPT !.todo = c].doc = h.doc
         /\ [h EXCEPT !.todo = c].seen = h.seen
         /\ [h EXCEPT !.todo = c].gone = h.gone
<1>1. PICK t \in Couple \cup {nothing}, d \in T!TripDoc \cup {nothing},
           o \in T!TripDoc \cup {nothing}, e \in SUBSET (T!Key \cup T!Entry),
           f \in SUBSET T!Key, g \in SUBSET T!Key :
        h = [trip |-> t, doc |-> d, old |-> o, seen |-> e, gone |-> f, todo |-> g]
  BY DEF T!Hand
<1>2. [h EXCEPT !.todo = c]
        = [trip |-> t, doc |-> d, old |-> o, seen |-> e, gone |-> f, todo |-> c]
  BY <1>1
<1>3. [trip |-> t, doc |-> d, old |-> o, seen |-> e, gone |-> f, todo |-> c] \in T!Hand
  BY DEF T!Hand
<1> QED
  BY <1>1, <1>2, <1>3

LEMMA TripsFound ==
  ASSUME NEW h \in T!Hand, NEW a \in SUBSET (T!Key \cup T!Entry)
  PROVE  /\ [h EXCEPT !.seen = a] \in T!Hand /\ [h EXCEPT !.seen = a].seen = a
         /\ [h EXCEPT !.seen = a].trip = h.trip
         /\ [h EXCEPT !.seen = a].doc = h.doc
         /\ [h EXCEPT !.seen = a].old = h.old
<1>1. PICK t \in Couple \cup {nothing}, d \in T!TripDoc \cup {nothing},
           o \in T!TripDoc \cup {nothing}, e \in SUBSET (T!Key \cup T!Entry),
           f \in SUBSET T!Key, g \in SUBSET T!Key :
        h = [trip |-> t, doc |-> d, old |-> o, seen |-> e, gone |-> f, todo |-> g]
  BY DEF T!Hand
<1>2. [h EXCEPT !.seen = a]
        = [trip |-> t, doc |-> d, old |-> o, seen |-> a, gone |-> f, todo |-> g]
  BY <1>1
<1>3. [trip |-> t, doc |-> d, old |-> o, seen |-> a, gone |-> f, todo |-> g] \in T!Hand
  BY DEF T!Hand
<1> QED
  BY <1>1, <1>2, <1>3

TReading(h, a, b, c) == [h EXCEPT !.seen = a, !.gone = b, !.todo = c]

LEMMA TripsRead ==
  ASSUME NEW h \in T!Hand, NEW a \in SUBSET T!Key, NEW b \in SUBSET T!Key, NEW c \in SUBSET T!Key,
         NEW i, i = TReading(h, a, b, c)
  PROVE  /\ i \in T!Hand /\ i.trip = h.trip /\ i.doc = h.doc
         /\ i.seen = a /\ i.gone = b /\ i.todo = c
<1>1. PICK t \in Couple \cup {nothing}, d \in T!TripDoc \cup {nothing},
           o \in T!TripDoc \cup {nothing}, e \in SUBSET (T!Key \cup T!Entry),
           f \in SUBSET T!Key, g \in SUBSET T!Key :
        h = [trip |-> t, doc |-> d, old |-> o, seen |-> e, gone |-> f, todo |-> g]
  BY DEF T!Hand
<1>2. PICK j : j = [h EXCEPT !.seen = a]
  OBVIOUS
<1>3. j = [trip |-> t, doc |-> d, old |-> o, seen |-> a, gone |-> f, todo |-> g]
  BY <1>1, <1>2
<1>4. PICK k : k = [j EXCEPT !.gone = b]
  OBVIOUS
<1>5. k = [trip |-> t, doc |-> d, old |-> o, seen |-> a, gone |-> b, todo |-> g]
  BY <1>3, <1>4
<1>6. [k EXCEPT !.todo = c]
        = [trip |-> t, doc |-> d, old |-> o, seen |-> a, gone |-> b, todo |-> c]
  BY <1>5
<1>7. i = [k EXCEPT !.todo = c]
  BY <1>2, <1>4, Zenon DEF TReading
<1>8. PICK x : x = [k EXCEPT !.todo = c]
  OBVIOUS
<1>9. x \in T!Hand /\ x.trip = h.trip /\ x.doc = h.doc /\ x.seen = a /\ x.gone = b /\ x.todo = c
  <2>1. \A y \in SUBSET (T!Key \cup T!Entry) :
          [trip |-> t, doc |-> d, old |-> o, seen |-> y, gone |-> b, todo |-> c] \in T!Hand
    BY DEF T!Hand
  <2> QED
    BY <1>1, <1>6, <1>8, <2>1
<1> QED
  BY <1>7, <1>8, <1>9, Zenon

LEMMA TripsAlone ==
  ASSUME TInv, NEW r \in Two, TWorks(r)
  PROVE  /\ TOthers(r) /\ TLone(r) /\ marred \subseteq marred' /\ v5' = v5 /\ r \in T!Busy
         /\ r \notin v5' => TSees(r)
         /\ "overlap" \notin marred' => r \notin v5'
         /\ hand[r] \in T!Hand
<1>1. v5' = v5 /\ r \in T!Busy
  BY TripsMove DEF TInv
<1>2. TOthers(r) /\ TLone(r) /\ marred \subseteq marred'
  BY TripsLone DEF TInv, TStep, TWorks
<1>3. "overlap" \notin marred' => r \notin v5'
  BY <1>2 DEF TLone
<1> QED
  BY <1>1, <1>2, <1>3 DEF TInv, TTyped, TSynced

LEMMA TripsHeldAt ==
  ASSUME TInv, NEW r \in Two, pc[r] \in TSaving \cup {"write", "copy"}
  PROVE  \E t \in Couple, d \in T!TripDoc : hand[r].trip = t /\ hand[r].doc = d
BY DEF TInv, THeld, THolds

(* Costs and mirrors, where a step is about the trip t only.               *)
LEMMA TripsCostsAt ==
  ASSUME TCosts, NEW r \in Two, TOthers(r), marred \subseteq marred', NEW t \in Couple,
         \A u \in Couple \ {t} : v1'[u] = v1[u],
         \A k \in T!Key \ T!KeysOf(t) : v2'[k] = v2[k],
         TCosting(r) => hand[r].trip = t,
         marred' = {} => TCosted(t)' \/ (TCosting(r)' /\ hand'[r].trip = t)
  PROVE  TCosts'
<1> SUFFICES ASSUME marred' = {}, marred = {}, NEW u \in Couple, u # t
             PROVE  TCosted(u)' \/ \E s \in Two : TCosting(s)' /\ hand'[s].trip = u
  BY DEF TCosts
<1>1. /\ v1'[u] = v1[u] /\ T!KeysOf(u)' = T!KeysOf(u)
      /\ \A k \in T!KeysOf(u) : v2'[k] = v2[k]
  BY DEF T!Key, T!KeysOf, T!Line
<1>2. TActives(u)' = TActives(u) /\ TActives(u) \subseteq T!KeysOf(u)
  BY <1>1 DEF TActives, T!Active
<1>3. TCosted(u) => TCosted(u)'
  BY <1>1, <1>2 DEF TCosted, T!Live, T!Desired
<1>4. \A s \in Two : TCosting(s) /\ hand[s].trip = u => TCosting(s)' /\ hand'[s].trip = u
  BY DEF TCosting, TOthers
<1> QED
  BY <1>3, <1>4 DEF TCosts

LEMMA TripsMirrorsAt ==
  ASSUME TMirrors, NEW r \in Two, TOthers(r), TLone(r), marred \subseteq marred', NEW t \in Couple,
         \A u \in Couple \ {t} : v1'[u] = v1[u],
         marred' \subseteq {"expense_deleted"} =>
           \A e \in T!Entry : \/ v4'[e] = v4[e]
                              \/ /\ v4[e] = nothing \/ v4[e].trip = t
                                 /\ v4'[e] = nothing \/ v4'[e].trip = t,
         hand[r].trip = t, hand'[r].trip = t \/ pc'[r] = "done",
         marred' \subseteq {"expense_deleted"} =>
           /\ TMirrored(t)' \/ (TMirroring(r, t)' /\ hand'[r].trip = t)
           /\ TFixing(r)' => TMirroring(r, t)'
  PROVE  TMirrors'
<1> SUFFICES ASSUME marred' \subseteq {"expense_deleted"}, NEW u \in Couple
             PROVE  /\ TMirrored(u)' \/ \E s \in Two : TMirroring(s, u)' /\ hand'[s].trip = u
                    /\ \A s \in Two : TFixing(s)' /\ hand'[s].trip = u => TMirroring(s, u)'
  BY DEF TMirrors
<1>1. \A s \in Two : s # r => pc[s] \in {"new", "done"} /\ pc'[s] = pc[s]
  BY DEF TLone, TOthers
<1>2. \A s \in Two : TFixing(s)' => s = r
  BY <1>1 DEF TFixing
<1>3. CASE u = t
  BY <1>2, <1>3
<1>4. CASE u # t
  <2>1. v1'[u] = v1[u] /\ T!Mirrors(u)' = T!Mirrors(u) /\ T!Entry' = T!Entry
    BY <1>4 DEF T!Mirrors, T!Entry
  <2>2. \A e \in T!Mirrors(u) : v4'[e] = v4[e]
    BY <1>4 DEF T!Mirrors
  <2>3. \A s \in Two : ~(TMirroring(s, u) /\ hand[s].trip = u)
    BY <1>1, <1>4 DEF TMirroring
  <2>4. TMirrored(u)
    BY <2>3 DEF TMirrors
  <2>5. TMirrored(u)'
    BY <2>1, <2>2, <2>4 DEF TMirrored, T!Live
  <2>6. \A s \in Two : TFixing(s)' => hand'[s].trip # u
    BY <1>2, <1>4 DEF TFixing
  <2> QED
    BY <2>5, <2>6
<1> QED
  BY <1>3, <1>4

LEMMA TripsWriteKept ==
  ASSUME TInv, NEW r \in Two, T!WriteTrip(r)
  PROVE  TKept(r)
<1>0. /\ TWorks(r) /\ TTyped /\ THeld /\ TCosts /\ TMirrors /\ TTolls
      /\ "read_rows" \in TSteps \ {"done"}
  BY DEF TWorks, T!Step, TInv, TSteps, TSaving
<1>1. /\ TOthers(r) /\ TLone(r) /\ marred \subseteq marred' /\ v5' = v5 /\ r \in T!Busy
      /\ r \notin v5' => TSees(r)
      /\ "overlap" \notin marred' => r \notin v5'
      /\ hand[r] \in T!Hand
  BY <1>0, TripsAlone
<1>2. /\ pc[r] = "write"
      /\ pc' \in [Two -> TSteps] /\ pc'[r] = "read_rows" /\ hand'[r] = hand[r]
      /\ hand' \in [Two -> T!Hand] /\ UNCHANGED <<v2, v3, v4, marred>>
  <2>1. T!Goto(r, "write", "read_rows", hand[r]) /\ UNCHANGED <<v2, v3, v4, marred>>
    BY DEF T!WriteTrip
  <2> QED
    BY <1>0, <1>1, <2>1, TripsGoto
<1>3. PICK t \in Couple, d \in T!TripDoc : hand[r].trip = t /\ hand[r].doc = d
  BY <1>2, TripsHeldAt
<1>4. /\ v1' = IF hand[r].old = nothing \/ T!Live(t) THEN [v1 EXCEPT ![t] = d] ELSE v1
      /\ v1 \in [Couple -> T!TripDoc \cup {nothing}] /\ d # nothing
  BY <1>0, <1>3, TripsNothing DEF T!WriteTrip, TTyped, T!TypeOK
<1>5. /\ v1' \in [Couple -> T!TripDoc \cup {nothing}]
      /\ \A u \in Couple \ {t} : v1'[u] = v1[u]
      /\ TSees(r) => v1'[t] = d
      /\ \A u \in Couple : T!Live(u) => T!Live(u)'
  <2>1. TSees(r) => hand[r].old = nothing \/ T!Live(t)
    BY <1>2, <1>3 DEF TSees
  <2> QED
    BY <1>4, <2>1 DEF T!Live
<1>6. TTyped'
  BY <1>0, <1>1, <1>2, <1>5 DEF TTyped, T!TypeOK
<1>7. THolds(r)' /\ TRows' = TRows
  <2>1. v4'[r] = nothing
    BY <1>0, <1>2 DEF THeld, THolds
  <2> QED
    BY <1>2, <1>3, <2>1 DEF THolds, TSaving, TDeleting, TRows, T!TripDoc
<1>8. r \in T!Busy' \ v5' => TSees(r)'
  <2> SUFFICES ASSUME TSees(r)
               PROVE  TSees(r)'
    BY <1>1
  <2>1. TWritten(t, d)'
    BY <1>4, <1>5 DEF TWritten, T!Live
  <2> QED
    BY <1>2, <1>3, <2>1 DEF TSees
<1>9. TCosts'
  BY <1>0, <1>1, <1>2, <1>3, <1>5, TripsCostsAt DEF TCosting
<1>10. TMirrors'
  <2>1. ASSUME marred' \subseteq {"expense_deleted"}
        PROVE  TMirroring(r, t)'
    <3>1. \A s \in Two : ~TMirroring(s, t)
      BY <1>1, <1>2, <2>1 DEF TLone, TMirroring
    <3>2. TMirrored(t) /\ r \in T!Entry
      BY <1>0, <1>2, <2>1, <3>1 DEF TMirrors, T!Entry
    <3>3. \E e \in T!Entry : T!Mirrors(t) \subseteq {e}
      BY <3>2 DEF TMirrored
    <3> QED
      BY <1>2, <3>3 DEF TMirroring, T!Mirrors, T!Entry
  <2> QED
    BY <1>0, <1>1, <1>2, <1>3, <1>5, <2>1, TripsMirrorsAt
<1>11. TTolls'
  BY <1>0, <1>1, <1>2, <1>5, TripsKeepTolls
<1> QED
  BY <1>2, <1>6, <1>7, <1>8, <1>9, <1>10, <1>11 DEF TKept

(* A sync that meets nobody leaves the costs of its trip right.            *)
LEMMA TripsFlagged ==
  ASSUME TInv, NEW r \in Two, T!SetFlag(r), r \notin v5, NEW t \in Couple, hand[r].trip = t
  PROVE  TCosted(t)'
<1>0. TWorks(r) /\ TTyped
  BY DEF TWorks, T!Step, TInv
<1>1. pc[r] = "remove" /\ hand[r].todo = {} /\ v2' = v2 /\ v1 \in [Couple -> T!TripDoc \cup {nothing}]
  BY <1>0 DEF T!SetFlag, TTyped, T!TypeOK
<1>2. PICK d \in T!TripDoc : hand[r].doc = d
  BY <1>1, TripsHeldAt DEF TSaving
<1>3. TWritten(t, d) /\ TRemoved(r, t, d)
  <2>1. TSees(r)
    BY <1>0, TripsAlone
  <2> QED
    BY <1>1, <1>2, <2>1 DEF TSees, TSaving
<1>4. v1' = [v1 EXCEPT ![t].has_canonical = T!Desired(t, d) # {}] /\ v1[t] \in T!TripDoc
  BY <1>1, <1>2, <1>3 DEF T!SetFlag, TWritten, T!Live
<1>5. PICK b \in BOOLEAN : b = (T!Desired(t, d) # {})
  OBVIOUS
<1>6. /\ v1'[t].lines = d.lines /\ v1'[t].has_canonical = b /\ v1'[t] # nothing
  <2>1. v1'[t] = [v1[t] EXCEPT !.has_canonical = b]
    BY <1>1, <1>4, <1>5
  <2>2. /\ [v1[t] EXCEPT !.has_canonical = b] \in T!TripDoc
        /\ [v1[t] EXCEPT !.has_canonical = b].lines = v1[t].lines
        /\ [v1[t] EXCEPT !.has_canonical = b].has_canonical = b
    BY <1>4 DEF T!TripDoc
  <2> QED
    BY <1>3, <2>1, <2>2, TripsNothing DEF TWritten
<1>7. /\ T!Desired(t, d)' = T!Desired(t, d) /\ T!KeysOf(t)' = T!KeysOf(t)
      /\ \A e : e.lines = d.lines => T!Desired(t, e) = T!Desired(t, d)
      /\ T!Desired(t, d) \subseteq T!KeysOf(t)
  BY DEF T!Desired, T!KeysOf
<1>8. \A k \in T!KeysOf(t) : /\ k \in T!Desired(t, d) => TRight(k, d)
                             /\ T!Active(k) => k \in T!Desired(t, d)
  BY <1>1, <1>3 DEF TRemoved
<1>9. \A k \in T!Desired(t, d) : T!Active(k) /\ v2[k].amount = d.lines[k[2]]
  <2> SUFFICES ASSUME NEW k \in T!Desired(t, d)
               PROVE  T!Active(k) /\ v2[k].amount = d.lines[k[2]]
    OBVIOUS
  <2>1. TRight(k, d)
    BY <1>7, <1>8
  <2>2. v2[k].amount = d.lines[k[2]] /\ v2[k].is_deleted = FALSE
    BY <2>1 DEF TRight
  <2>3. v2[k] # nothing
    <3>1. v2[k] \in T!ExpenseDoc \cup {nothing}
      BY <1>0, <1>7 DEF TTyped, T!TypeOK, T!Key, T!KeysOf
    <3>2. d.lines[k[2]] \in TripAmount \ {0}
      BY OfficeTrips DEF T!Desired, T!TripDoc, T!KeysOf
    <3>3. PICK a \in TripAmount \ {0}, f \in BOOLEAN : v2[k] = [amount |-> a, is_deleted |-> f]
      BY <2>1, <3>2 DEF TRight
    <3>4. v2[k] \in T!ExpenseDoc
      BY <3>3 DEF T!ExpenseDoc
    <3> QED
      BY <3>4, TripsNothing
  <2> QED
    BY <2>2, <2>3 DEF T!Active
<1>10. TActives(t) = T!Desired(t, d) /\ TActives(t)' = TActives(t)
  BY <1>1, <1>7, <1>8, <1>9 DEF TActives, T!Active, T!KeysOf
<1>11. T!Desired(t, v1'[t]) = T!Desired(t, d) /\ T!Live(t)'
  BY <1>6, <1>7 DEF T!Live
<1>12. T!Desired(t, v1[t])' = T!Desired(t, d)
  BY <1>11 DEF T!Desired, T!KeysOf
<1> QED
  BY <1>1, <1>5, <1>6, <1>9, <1>10, <1>11, <1>12 DEF TCosted

(* While its expenses are synced, neither the mirror nor the toll of a     *)
(* trip changes.                                                           *)
LEMMA TripsSyncing ==
  ASSUME TInv, NEW r \in Two, TOthers(r), marred \subseteq marred', UNCHANGED <<v3, v4>>,
         pc[r] \in {"read_rows", "upsert", "remove"}, pc'[r] \in {"upsert", "remove", "mirror"},
         hand'[r].trip = hand[r].trip,
         \A t \in Couple : T!Live(t) => T!Live(t)',
         \A t \in Couple : TMirrored(t) => TMirrored(t)'
  PROVE  /\ TMirrors' /\ TTolls' /\ v4[r] = nothing
         /\ \A s \in Two : s # r /\ v4[s] = nothing => v4'[s] = nothing
<1>1. \A t \in Couple : TMirroring(r, t) => TMirroring(r, t)'
  <2>1. \A t \in Couple : T!Mirrors(t)' = T!Mirrors(t) /\ T!Entry' = T!Entry
    BY DEF T!Mirrors, T!Entry
  <2> QED
    BY <2>1 DEF TMirroring
<1>2. TMirrors'
  BY <1>1, TripsKeepMirrors DEF TInv, TFixing
<1>3. TTolls'
  BY TripsKeepTolls DEF TInv
<1>4. v4[r] = nothing
  BY DEF TInv, THeld, THolds
<1> QED
  BY <1>2, <1>3, <1>4

LEMMA TripsFlagKept ==
  ASSUME TInv, NEW r \in Two, T!SetFlag(r)
  PROVE  TKept(r)
<1>0. TWorks(r) /\ TTyped /\ TCosts /\ "mirror" \in TSteps \ {"done"}
  BY DEF TWorks, T!Step, TInv, TSteps, TSaving
<1>1. /\ TOthers(r) /\ TLone(r) /\ marred \subseteq marred' /\ v5' = v5 /\ r \in T!Busy
      /\ r \notin v5' => TSees(r)
      /\ "overlap" \notin marred' => r \notin v5'
      /\ hand[r] \in T!Hand
  BY <1>0, TripsAlone
<1>2. /\ pc[r] = "remove" /\ UNCHANGED <<v2, v3, v4, marred>>
      /\ pc' \in [Two -> TSteps] /\ pc'[r] = "mirror" /\ hand'[r] = hand[r]
      /\ hand' \in [Two -> T!Hand]
  <2>1. /\ T!Goto(r, "remove", "mirror", hand[r]) /\ UNCHANGED <<v2, v3, v4, marred>>
    BY DEF T!SetFlag
  <2> QED
    BY <1>0, <1>1, <2>1, TripsGoto
<1>3. PICK t \in Couple, d \in T!TripDoc : hand[r].trip = t /\ hand[r].doc = d
  BY <1>2, TripsHeldAt DEF TSaving
<1>4. PICK b \in BOOLEAN : b = (T!Desired(t, d) # {})
  OBVIOUS
<1>5. /\ v1' = IF T!Live(t) THEN [v1 EXCEPT ![t].has_canonical = b] ELSE v1
      /\ v1 \in [Couple -> T!TripDoc \cup {nothing}]
  <2>1. /\ v1' = IF T!Live(t)
                 THEN [v1 EXCEPT ![t].has_canonical = T!Desired(t, hand[r].doc) # {}] ELSE v1
        /\ v1 \in [Couple -> T!TripDoc \cup {nothing}]
    BY <1>0, <1>3 DEF T!SetFlag, TTyped, T!TypeOK
  <2> QED
    BY <1>3, <1>4, <2>1
<1>6. ASSUME T!Live(t)
      PROVE  /\ v1'[t] \in T!TripDoc /\ v1'[t].lines = v1[t].lines /\ v1'[t] # nothing
             /\ v1'[t].driver = v1[t].driver /\ v1'[t].recovery = v1[t].recovery
             /\ v1' \in [Couple -> T!TripDoc \cup {nothing}]
  <2>1. v1'[t] = [v1[t] EXCEPT !.has_canonical = b] /\ v1[t] \in T!TripDoc
    BY <1>5, <1>6 DEF T!Live
  <2>2. PICK l \in [T!Line -> TripAmount], f \in BOOLEAN, e \in TripDriver, n \in TripAmount :
          v1[t] = [lines |-> l, has_canonical |-> f, driver |-> e, recovery |-> n]
    BY <2>1 DEF T!TripDoc
  <2>3. v1'[t] = [lines |-> l, has_canonical |-> b, driver |-> e, recovery |-> n]
    BY <2>1, <2>2
  <2>4. v1'[t] \in T!TripDoc
    BY <2>3 DEF T!TripDoc
  <2> QED
    BY <1>5, <1>6, <2>2, <2>3, <2>4, TripsNothing
<1>7. /\ v1' \in [Couple -> T!TripDoc \cup {nothing}]
      /\ \A u \in Couple \ {t} : v1'[u] = v1[u]
      /\ \A u \in Couple : T!Live(u) <=> T!Live(u)'
      /\ \A u \in Couple : T!Live(u) => /\ v1'[u].lines = v1[u].lines /\ v1'[u].driver = v1[u].driver
                                        /\ v1'[u].recovery = v1[u].recovery
  <2>1. CASE T!Live(t)
    BY <1>5, <1>6, <2>1 DEF T!Live
  <2>2. CASE ~T!Live(t)
    BY <1>5, <2>2 DEF T!Live
  <2> QED
    BY <2>1, <2>2
<1>8. TTyped'
  BY <1>0, <1>1, <1>2, <1>7 DEF TTyped, T!TypeOK
<1>9. \A u \in Couple : TMirrored(u) => TMirrored(u)'
  BY <1>2, <1>7 DEF TMirrored, T!Mirrors, T!Entry
<1>10. /\ TMirrors' /\ TTolls' /\ v4[r] = nothing
       /\ \A s \in Two : s # r /\ v4[s] = nothing => v4'[s] = nothing
  BY <1>1, <1>2, <1>3, <1>7, <1>9, TripsSyncing
<1>11. THolds(r)' /\ TRows' = TRows
  BY <1>2, <1>3, <1>10 DEF THolds, TSaving, TDeleting, TRows, T!TripDoc
<1>12. r \in T!Busy' \ v5' => TSees(r)'
  <2> SUFFICES ASSUME TSees(r)
               PROVE  TSees(r)'
    BY <1>1
  <2>1. TWritten(t, d)
    BY <1>2, <1>3 DEF TSees, TSaving
  <2>2. TWritten(t, d)'
    BY <1>7, <2>1 DEF TWritten
  <2> QED
    BY <1>2, <1>3, <2>2 DEF TSees
<1>13. TCosts'
  <2>1. marred' = {} => TCosted(t)'
    BY <1>1, <1>3, TripsFlagged
  <2> QED
    BY <1>0, <1>1, <1>2, <1>3, <1>7, <2>1, TripsCostsAt
<1> QED
  BY <1>2, <1>8, <1>10, <1>11, <1>12, <1>13 DEF TKept

LEMMA TripsReadKept ==
  ASSUME TInv, NEW r \in Two, T!ReadRows(r)
  PROVE  TKept(r)
<1>0. TWorks(r) /\ TTyped /\ TCosts /\ "upsert" \in TSteps \ {"done"}
  BY DEF TWorks, T!Step, TInv, TSteps, TSaving
<1>1. /\ TOthers(r) /\ marred \subseteq marred' /\ v5' = v5 /\ r \in T!Busy
      /\ r \notin v5' => TSees(r)
      /\ hand[r] \in T!Hand
  BY <1>0, TripsAlone
<1>2. PICK seen : seen = {k \in T!KeysOf(hand[r].trip) : v2[k] # nothing}
  OBVIOUS
<1>3. PICK gone : gone = {k \in seen : ~T!Active(k)} \cup T!Desired(hand[r].trip, hand[r].doc)
  OBVIOUS
<1>4. PICK todo : todo = T!Desired(hand[r].trip, hand[r].doc)
  OBVIOUS
<1>5. pc[r] = "read_rows"
  BY DEF T!ReadRows
<1>6. PICK t \in Couple, d \in T!TripDoc : hand[r].trip = t /\ hand[r].doc = d
  BY <1>5, TripsHeldAt DEF TSaving
<1>7. /\ seen \in SUBSET T!Key /\ todo \in SUBSET T!Key /\ gone \in SUBSET T!Key
      /\ seen \in SUBSET (T!Key \cup T!Entry)
  BY <1>2, <1>3, <1>4, <1>6 DEF T!Desired, T!KeysOf, T!Key
<1>a. PICK h : h = TReading(hand[r], seen, gone, todo)
  OBVIOUS
<1>b. /\ h \in T!Hand /\ h.trip = hand[r].trip /\ h.doc = hand[r].doc
      /\ h.seen = seen /\ h.gone = gone /\ h.todo = todo
  BY <1>1, <1>7, <1>a, TripsRead
<1>8. h \in T!Hand /\ h.trip = t /\ h.doc = d /\ h.seen = seen /\ h.gone = gone /\ h.todo = todo
  BY <1>6, <1>b
<1>9. T!Goto(r, "read_rows", "upsert", h) /\ UNCHANGED <<v1, v2, v3, v4, marred>>
  BY <1>2, <1>3, <1>4, <1>a DEF T!ReadRows, T!Read, TReading
<1>10. /\ pc' \in [Two -> TSteps] /\ pc'[r] = "upsert" /\ hand'[r] = h /\ hand' \in [Two -> T!Hand]
  BY <1>0, <1>8, <1>9, TripsGoto
<1>11. TTyped'
  BY <1>0, <1>1, <1>9, <1>10 DEF TTyped, T!TypeOK
<1>12. /\ TMirrors' /\ TTolls' /\ v4[r] = nothing
       /\ \A s \in Two : s # r /\ v4[s] = nothing => v4'[s] = nothing
  BY <1>1, <1>5, <1>6, <1>8, <1>9, <1>10, TripsSyncing, TripsSameMirrored DEF T!Live
<1>13. /\ TRows' = TRows /\ T!KeysOf(t)' = T!KeysOf(t) /\ T!Desired(t, d)' = T!Desired(t, d)
       /\ \A k : T!Active(k)' = T!Active(k)
  BY <1>9 DEF TRows, T!KeysOf, T!Desired, T!Active
<1>14. THolds(r)'
  <2>1. h.seen \subseteq T!KeysOf(t) \cap TRows /\ h.todo = T!Desired(t, d) /\ T!Desired(t, d) \subseteq h.gone
    BY <1>2, <1>3, <1>4, <1>6, <1>7, <1>8 DEF TRows
  <2> QED
    BY <1>6, <1>8, <1>9, <1>10, <1>12, <1>13, <2>1 DEF THolds, TSaving, TDeleting, T!TripDoc
<1>15. r \in T!Busy' \ v5' => TSees(r)'
  <2> SUFFICES ASSUME TSees(r)
               PROVE  TSees(r)'
    BY <1>1
  <2>1. TWritten(t, d)'
    BY <1>5, <1>6, <1>9 DEF TSees, TSaving, TWritten, T!Live
  <2>2. \A k \in T!KeysOf(t) :
          IF k \in T!Desired(t, d) THEN k \in todo /\ (k \in seen \/ v2[k] = nothing)
          ELSE T!Active(k) => k \in seen \ gone
    BY <1>2, <1>3, <1>4, <1>6 DEF T!Active
  <2>3. TUpserted(r, t, d)'
    BY <1>8, <1>9, <1>10, <1>13, <2>2 DEF TUpserted
  <2> QED
    BY <1>6, <1>8, <1>10, <2>1, <2>3 DEF TSees
<1>16. TCosts'
  BY <1>0, <1>1, <1>6, <1>8, <1>9, <1>10, TripsKeepCosts DEF TCosting
<1> QED
  BY <1>9, <1>11, <1>12, <1>13, <1>14, <1>15, <1>16 DEF TKept

LEMMA TripsDesired ==
  ASSUME NEW t \in Couple, NEW d \in T!TripDoc, NEW k \in T!Desired(t, d)
  PROVE  /\ k \in T!KeysOf(t) /\ k \in T!Key
         /\ [amount |-> d.lines[k[2]], is_deleted |-> FALSE] \in T!ExpenseDoc
<1>1. k \in T!KeysOf(t) /\ k \in T!Key /\ d.lines[k[2]] \in TripAmount \ {0}
  BY OfficeTrips DEF T!Desired, T!TripDoc, T!KeysOf, T!Key
<1>2. PICK a \in TripAmount \ {0}, f \in BOOLEAN : a = d.lines[k[2]] /\ f = FALSE
  BY <1>1
<1>3. [amount |-> a, is_deleted |-> f] \in T!ExpenseDoc
  BY DEF T!ExpenseDoc
<1> QED
  BY <1>1, <1>2, <1>3

LEMMA TripsUpsertKept ==
  ASSUME TInv, NEW r \in Two, T!UpsertRow(r)
  PROVE  TKept(r)
<1>0. /\ TWorks(r) /\ TTyped /\ TCosts /\ THeld
      /\ "upsert" \in TSteps \ {"done"} /\ "mirror" \in TSteps \ {"done"}
  BY DEF TWorks, T!Step, TInv, TSteps, TSaving
<1>1. /\ TOthers(r) /\ marred \subseteq marred' /\ v5' = v5 /\ r \in T!Busy
      /\ r \notin v5' => TSees(r)
      /\ "overlap" \notin marred' => r \notin v5'
      /\ hand[r] \in T!Hand
  BY <1>0, TripsAlone
<1>2. pc[r] = "upsert"
  BY DEF T!UpsertRow
<1>3. PICK t \in Couple, d \in T!TripDoc : hand[r].trip = t /\ hand[r].doc = d
  BY <1>2, TripsHeldAt DEF TSaving
<1>4. /\ hand[r].seen \subseteq T!KeysOf(t) \cap TRows /\ hand[r].todo \subseteq T!Desired(t, d)
      /\ T!Desired(t, d) \subseteq hand[r].gone
  BY <1>0, <1>2, <1>3 DEF THeld, THolds
<1>5. TSees(r) => TWritten(t, d) /\ TUpserted(r, t, d)
  BY <1>2, <1>3 DEF TSees, TSaving
<1>6. PICK k \in hand[r].todo :
        IF k \in hand[r].seen \/ v2[k] = nothing
        THEN /\ T!Goto(r, "upsert", "upsert", [hand[r] EXCEPT !.todo = @ \ {k}])
             /\ T!Put(r, k)
             /\ UNCHANGED <<v1, v3, v4, marred>>
        ELSE T!Read(r, "upsert", "mirror", hand[r])
  BY DEF T!UpsertRow
<1>7. k \in T!Desired(t, d) /\ k \in T!KeysOf(t) /\ k \in T!Key
  BY <1>4, TripsDesired
<1>a. /\ v2 \in [T!Key -> T!ExpenseDoc \cup {nothing}]
      /\ T!Desired(t, d)' = T!Desired(t, d) /\ T!KeysOf(t)' = T!KeysOf(t)
  BY <1>0 DEF TTyped, T!TypeOK, T!Desired, T!KeysOf
<1>8. CASE k \in hand[r].seen \/ v2[k] = nothing
  <2>1. PICK x \in T!ExpenseDoc : x = [amount |-> d.lines[k[2]], is_deleted |-> FALSE]
    BY <1>7, TripsDesired
  <2>2. v2' = [v2 EXCEPT ![k] = x] /\ UNCHANGED <<v1, v3, v4, marred>>
    BY <1>3, <1>6, <1>8, <2>1 DEF T!Put
  <2>3. PICK todo \in SUBSET T!Key : todo = hand[r].todo \ {k}
    BY <1>1 DEF T!Hand
  <2>4. PICK h : h = [hand[r] EXCEPT !.todo = todo]
    OBVIOUS
  <2>5. /\ h \in T!Hand /\ h.trip = t /\ h.doc = d /\ h.todo = todo
        /\ h.seen = hand[r].seen /\ h.gone = hand[r].gone
    BY <1>1, <1>3, <2>3, <2>4, TripsHand
  <2>6. T!Goto(r, "upsert", "upsert", h)
    BY <1>6, <1>8, <2>3, <2>4
  <2>7. /\ pc' \in [Two -> TSteps] /\ pc'[r] = "upsert" /\ hand'[r] = h /\ hand' \in [Two -> T!Hand]
    BY <1>0, <2>5, <2>6, TripsGoto
  <2>8. /\ v2' \in [T!Key -> T!ExpenseDoc \cup {nothing}] /\ v2'[k] = x
        /\ \A j \in T!Key \ {k} : v2'[j] = v2[j]
        /\ x # nothing
    BY <1>7, <1>a, <2>1, <2>2, TripsNothing
  <2>9. TTyped'
    BY <1>0, <1>1, <2>2, <2>7, <2>8 DEF TTyped, T!TypeOK
  <2>10. TRows \subseteq TRows'
    BY <2>8 DEF TRows, T!Key
  <2>11. /\ TMirrors' /\ TTolls' /\ v4[r] = nothing
         /\ \A s \in Two : s # r /\ v4[s] = nothing => v4'[s] = nothing
    BY <1>1, <1>2, <1>3, <2>2, <2>5, <2>7, TripsSyncing, TripsSameMirrored DEF T!Live
  <2>12. THolds(r)'
    <3>1. h.seen \subseteq T!KeysOf(t) \cap TRows' /\ h.todo \subseteq T!Desired(t, d)
      BY <1>4, <2>3, <2>5, <2>10
    <3> QED
      BY <1>4, <1>a, <2>2, <2>5, <2>7, <2>11, <3>1 DEF THolds, TSaving, TDeleting, T!TripDoc
  <2>13. r \in T!Busy' \ v5' => TSees(r)'
    <3> SUFFICES ASSUME TSees(r)
                 PROVE  TSees(r)'
      BY <1>1
    <3>1. TWritten(t, d)'
      BY <1>5, <2>2 DEF TWritten, T!Live
    <3>2. TRight(k, d)'
      BY <2>1, <2>8 DEF TRight
    <3>3. \A j \in T!KeysOf(t) \ {k} : v2'[j] = v2[j]
      BY <2>8 DEF T!KeysOf, T!Key
    <3>4. TUpserted(r, t, d)'
      BY <1>5, <1>7, <1>a, <2>3, <2>5, <2>7, <3>2, <3>3 DEF TUpserted, T!Active, TRight
    <3> QED
      BY <2>5, <2>7, <3>1, <3>4 DEF TSees
  <2>14. TCosts'
    <3>1. \A u \in Couple \ {t} : v1'[u] = v1[u]
      BY <2>2
    <3>2. \A j \in T!Key \ T!KeysOf(t) : v2'[j] = v2[j]
      BY <1>7, <2>8
    <3> QED
      BY <1>0, <1>1, <1>3, <2>5, <2>7, <3>1, <3>2, TripsCostsAt DEF TCosting
  <2> QED
    BY <2>9, <2>10, <2>11, <2>12, <2>13, <2>14 DEF TKept
<1>9. CASE ~(k \in hand[r].seen \/ v2[k] = nothing)
  <2>1. T!Goto(r, "upsert", "mirror", hand[r]) /\ UNCHANGED <<v1, v2, v3, v4, marred>>
    BY <1>6, <1>9 DEF T!Read
  <2>2. /\ pc' \in [Two -> TSteps] /\ pc'[r] = "mirror" /\ hand'[r] = hand[r]
        /\ hand' \in [Two -> T!Hand]
    BY <1>0, <1>1, <2>1, TripsGoto
  <2>3. ~TSees(r)
    BY <1>5, <1>7, <1>9 DEF TUpserted
  <2>4. TTyped'
    BY <1>0, <1>1, <2>1, <2>2 DEF TTyped, T!TypeOK
  <2>5. /\ TMirrors' /\ TTolls' /\ v4[r] = nothing
        /\ \A s \in Two : s # r /\ v4[s] = nothing => v4'[s] = nothing
    BY <1>1, <1>2, <1>3, <2>1, <2>2, TripsSyncing, TripsSameMirrored DEF T!Live
  <2>6. THolds(r)'
    BY <1>3, <2>1, <2>2, <2>5 DEF THolds, TSaving, TDeleting, T!TripDoc
  <2>7. TCosts'
    BY <1>1, <2>3 DEF TCosts
  <2> QED
    BY <1>1, <2>1, <2>3, <2>4, <2>5, <2>6, <2>7 DEF TKept, TRows
<1> QED
  BY <1>8, <1>9

LEMMA TripsRowsDoneKept ==
  ASSUME TInv, NEW r \in Two, T!RowsDone(r)
  PROVE  TKept(r)
<1>0. TWorks(r) /\ TTyped /\ TCosts /\ THeld /\ "remove" \in TSteps \ {"done"}
  BY DEF TWorks, T!Step, TInv, TSteps, TSaving
<1>1. /\ TOthers(r) /\ marred \subseteq marred' /\ v5' = v5 /\ r \in T!Busy
      /\ r \notin v5' => TSees(r)
      /\ hand[r] \in T!Hand
  BY <1>0, TripsAlone
<1>2. pc[r] = "upsert" /\ hand[r].todo = {}
  BY DEF T!RowsDone
<1>3. PICK t \in Couple, d \in T!TripDoc : hand[r].trip = t /\ hand[r].doc = d
  BY <1>2, TripsHeldAt DEF TSaving
<1>4. /\ hand[r].seen \subseteq T!KeysOf(t) \cap TRows /\ T!Desired(t, d) \subseteq hand[r].gone
  BY <1>0, <1>2, <1>3 DEF THeld, THolds
<1>5. PICK todo : todo = hand[r].seen \ hand[r].gone
  OBVIOUS
<1>6. todo \in SUBSET T!Key
  BY <1>4, <1>5 DEF T!KeysOf, T!Key
<1>7. PICK h : h = [hand[r] EXCEPT !.todo = todo]
  OBVIOUS
<1>8. h \in T!Hand /\ h.trip = t /\ h.doc = d /\ h.todo = todo
  BY <1>1, <1>3, <1>6, <1>7, TripsHand
<1>9. T!Goto(r, "upsert", "remove", h) /\ UNCHANGED <<v1, v2, v3, v4, marred>>
  BY <1>5, <1>7 DEF T!RowsDone, T!Read
<1>10. /\ pc' \in [Two -> TSteps] /\ pc'[r] = "remove" /\ hand'[r] = h /\ hand' \in [Two -> T!Hand]
  BY <1>0, <1>8, <1>9, TripsGoto
<1>11. TTyped'
  BY <1>0, <1>1, <1>9, <1>10 DEF TTyped, T!TypeOK
<1>12. /\ TMirrors' /\ TTolls' /\ v4[r] = nothing
       /\ \A s \in Two : s # r /\ v4[s] = nothing => v4'[s] = nothing
  BY <1>1, <1>2, <1>3, <1>8, <1>9, <1>10, TripsSyncing, TripsSameMirrored DEF T!Live
<1>13. /\ TRows' = TRows /\ T!KeysOf(t)' = T!KeysOf(t) /\ T!Desired(t, d)' = T!Desired(t, d)
       /\ \A k : T!Active(k)' = T!Active(k)
  BY <1>9 DEF TRows, T!KeysOf, T!Desired, T!Active
<1>14. THolds(r)'
  <2>1. h.todo \subseteq T!KeysOf(t) \cap TRows
    BY <1>4, <1>5, <1>8
  <2> QED
    BY <1>8, <1>9, <1>10, <1>12, <1>13, <2>1 DEF THolds, TSaving, TDeleting, T!TripDoc
<1>15. r \in T!Busy' \ v5' => TSees(r)'
  <2> SUFFICES ASSUME TSees(r)
               PROVE  TSees(r)'
    BY <1>1
  <2>1. TWritten(t, d) /\ TUpserted(r, t, d)
    BY <1>2, <1>3 DEF TSees, TSaving
  <2>2. TWritten(t, d)'
    BY <1>9, <2>1 DEF TWritten, T!Live
  <2>3. TRemoved(r, t, d)'
    BY <1>2, <1>4, <1>5, <1>8, <1>9, <1>10, <1>13, <2>1 DEF TRemoved, TUpserted, TRight
  <2> QED
    BY <1>8, <1>10, <2>2, <2>3 DEF TSees
<1>16. TCosts'
  BY <1>0, <1>1, <1>3, <1>8, <1>9, <1>10, TripsKeepCosts DEF TCosting
<1> QED
  BY <1>9, <1>11, <1>12, <1>13, <1>14, <1>15, <1>16 DEF TKept

LEMMA TripsRemoveKept ==
  ASSUME TInv, NEW r \in Two, T!RemoveRow(r)
  PROVE  TKept(r)
<1>0. TWorks(r) /\ TTyped /\ TCosts /\ THeld /\ "remove" \in TSteps \ {"done"}
  BY DEF TWorks, T!Step, TInv, TSteps, TSaving
<1>1. /\ TOthers(r) /\ marred \subseteq marred' /\ v5' = v5 /\ r \in T!Busy
      /\ r \notin v5' => TSees(r)
      /\ hand[r] \in T!Hand
  BY <1>0, TripsAlone
<1>2. pc[r] = "remove"
  BY DEF T!RemoveRow
<1>3. PICK t \in Couple, d \in T!TripDoc : hand[r].trip = t /\ hand[r].doc = d
  BY <1>2, TripsHeldAt DEF TSaving
<1>4. hand[r].todo \subseteq T!KeysOf(t) \cap TRows
  BY <1>0, <1>2, <1>3 DEF THeld, THolds
<1>5. PICK k \in hand[r].todo :
        /\ T!Goto(r, "remove", "remove", [hand[r] EXCEPT !.todo = @ \ {k}])
        /\ v2' = [v2 EXCEPT ![k].is_deleted = TRUE]
        /\ UNCHANGED <<v1, v3, v4, marred>>
  BY DEF T!RemoveRow
<1>6. /\ k \in T!KeysOf(t) /\ k \in T!Key /\ v2[k] \in T!ExpenseDoc
      /\ v2 \in [T!Key -> T!ExpenseDoc \cup {nothing}]
      /\ T!Desired(t, d)' = T!Desired(t, d) /\ T!KeysOf(t)' = T!KeysOf(t)
  BY <1>0, <1>4 DEF TTyped, T!TypeOK, T!Desired, T!KeysOf, TRows
<1>7. PICK x \in T!ExpenseDoc : x = [v2[k] EXCEPT !.is_deleted = TRUE] /\ x.is_deleted
  <2>1. PICK b \in BOOLEAN : b = TRUE
    OBVIOUS
  <2>2. [v2[k] EXCEPT !.is_deleted = b] \in T!ExpenseDoc /\ [v2[k] EXCEPT !.is_deleted = b].is_deleted = b
    BY <1>6 DEF T!ExpenseDoc
  <2> QED
    BY <2>1, <2>2
<1>8. v2' = [v2 EXCEPT ![k] = x]
  BY <1>5, <1>6, <1>7
<1>9. PICK todo \in SUBSET T!Key : todo = hand[r].todo \ {k}
  BY <1>1 DEF T!Hand
<1>10. PICK h : h = [hand[r] EXCEPT !.todo = todo]
  OBVIOUS
<1>11. h \in T!Hand /\ h.trip = t /\ h.doc = d /\ h.todo = todo
  BY <1>1, <1>3, <1>9, <1>10, TripsHand
<1>12. T!Goto(r, "remove", "remove", h)
  BY <1>5, <1>9, <1>10
<1>13. /\ pc' \in [Two -> TSteps] /\ pc'[r] = "remove" /\ hand'[r] = h /\ hand' \in [Two -> T!Hand]
  BY <1>0, <1>11, <1>12, TripsGoto
<1>14. /\ v2' \in [T!Key -> T!ExpenseDoc \cup {nothing}] /\ v2'[k] = x
       /\ \A j \in T!Key \ {k} : v2'[j] = v2[j]
       /\ x # nothing
  BY <1>6, <1>7, <1>8, TripsNothing
<1>15. TTyped'
  BY <1>0, <1>1, <1>5, <1>13, <1>14 DEF TTyped, T!TypeOK
<1>16. TRows \subseteq TRows'
  BY <1>14 DEF TRows, T!Key
<1>17. /\ TMirrors' /\ TTolls' /\ v4[r] = nothing
       /\ \A s \in Two : s # r /\ v4[s] = nothing => v4'[s] = nothing
  BY <1>1, <1>2, <1>3, <1>5, <1>11, <1>13, TripsSyncing, TripsSameMirrored DEF T!Live
<1>18. THolds(r)'
  <2>1. h.todo \subseteq T!KeysOf(t) \cap TRows'
    BY <1>4, <1>9, <1>11, <1>16
  <2> QED
    BY <1>5, <1>6, <1>11, <1>13, <1>17, <2>1 DEF THolds, TSaving, TDeleting, T!TripDoc
<1>19. r \in T!Busy' \ v5' => TSees(r)'
  <2> SUFFICES ASSUME TSees(r)
               PROVE  TSees(r)'
    BY <1>1
  <2>1. TWritten(t, d) /\ TRemoved(r, t, d)
    BY <1>2, <1>3 DEF TSees, TSaving
  <2>2. TWritten(t, d)'
    BY <1>5, <2>1 DEF TWritten, T!Live
  <2>3. \A j \in T!KeysOf(t) \ {k} : v2'[j] = v2[j]
    BY <1>14 DEF T!KeysOf, T!Key
  <2>4. k \notin T!Desired(t, d) /\ ~T!Active(k)'
    BY <1>6, <1>7, <1>14, <2>1 DEF TRemoved, T!Active
  <2>5. TRemoved(r, t, d)'
    BY <1>6, <1>9, <1>11, <1>13, <2>1, <2>3, <2>4 DEF TRemoved, T!Active, TRight
  <2> QED
    BY <1>11, <1>13, <2>2, <2>5 DEF TSees
<1>20. TCosts'
  <2>1. \A u \in Couple \ {t} : v1'[u] = v1[u]
    BY <1>5
  <2>2. \A j \in T!Key \ T!KeysOf(t) : v2'[j] = v2[j]
    BY <1>6, <1>14
  <2> QED
    BY <1>0, <1>1, <1>3, <1>11, <1>13, <2>1, <2>2, TripsCostsAt DEF TCosting
<1> QED
  BY <1>15, <1>16, <1>17, <1>18, <1>19, <1>20 DEF TKept

(* The steps of the mirror.                                                *)
LEMMA TripsAfter ==
  ASSUME TInv, NEW r \in Two, NEW from, T!Goto(r, from, T!AfterMirror(r), hand[r])
  PROVE  /\ pc[r] = from /\ pc' \in [Two -> TSteps] /\ hand' \in [Two -> T!Hand]
         /\ pc'[r] \in {"old_driver", "done"}
         /\ pc'[r] = "old_driver" =>
              /\ hand'[r] = hand[r] /\ hand[r].old \in T!TripDoc
              /\ hand[r].old.driver # hand[r].doc.driver
<1>0. TTyped /\ hand[r] \in T!Hand /\ "old_driver" \in TSteps \ {"done"}
  BY DEF TInv, TTyped, TSteps, TSaving
<1>1. CASE hand[r].old # nothing /\ hand[r].old.driver # hand[r].doc.driver
  <2>1. T!Goto(r, from, "old_driver", hand[r])
    BY <1>1, Zenon DEF T!AfterMirror
  <2>2. hand[r].old \in T!TripDoc
    BY <1>0, <1>1 DEF T!Hand
  <2> QED
    BY <1>0, <1>1, <2>1, <2>2, TripsGoto
<1>2. CASE ~(hand[r].old # nothing /\ hand[r].old.driver # hand[r].doc.driver)
  <2>1. T!Goto(r, from, "done", hand[r])
    BY <1>2, Zenon DEF T!AfterMirror
  <2> QED
    BY <1>0, <2>1, TripsEnd
<1> QED
  BY <1>1, <1>2

LEMMA TripsKnows ==
  ASSUME TInv, NEW r \in Two, TWorks(r), marred \subseteq {"expense_deleted"}, marred' = marred,
         NEW t \in Couple, hand[r].trip = t
  PROVE  /\ TMirrored(t) \/ TMirroring(r, t)
         /\ TFixing(r) => TMirroring(r, t)
         /\ TSees(r)
<1>1. TLone(r) /\ ("overlap" \notin marred' => r \notin v5') /\ (r \notin v5' => TSees(r))
  BY TripsAlone
<1>2. \A s \in Two : s # r => ~TMirroring(s, t)
  BY <1>1 DEF TLone, TMirroring
<1> QED
  BY <1>1, <1>2 DEF TInv, TMirrors

LEMMA TripsMirrorStep ==
  ASSUME TInv, NEW r \in Two, TWorks(r), NEW t \in Couple, NEW d \in T!TripDoc,
         hand[r].trip = t, hand[r].doc = d,
         pc[r] \in {"mirror", "mirror_update", "mirror_drop", "mirror_insert", "old_driver"},
         pc'[r] \in {"mirror_update", "mirror_drop", "mirror_insert", "old_driver", "done"},
         pc' \in [Two -> TSteps], hand' \in [Two -> T!Hand],
         pc'[r] # "done" =>
           hand'[r].trip = t /\ hand'[r].doc = d /\ hand'[r].old = hand[r].old,
         pc'[r] \in {"mirror_update", "mirror_drop"} => hand'[r].seen \subseteq T!Entry,
         TFixing(r)' => d.recovery > 0 /\ v4'[r] = nothing,
         pc'[r] = "old_driver" => hand[r].old \in T!TripDoc /\ hand[r].old.driver # d.driver,
         UNCHANGED <<v1, v2, v3, marred>>,
         v4' \in [T!Entry -> T!EntryDoc \cup {nothing}],
         \A s \in Two : s # r /\ v4[s] = nothing => v4'[s] = nothing,
         marred' \subseteq {"expense_deleted"} =>
           \A e \in T!Entry : \/ v4'[e] = v4[e]
                              \/ /\ v4[e] = nothing \/ v4[e].trip = t
                                 /\ v4'[e] = nothing \/ v4'[e].trip = t,
         marred \subseteq {"expense_deleted"} =>
           /\ TMirrored(t)' \/ TMirroring(r, t)'
           /\ TFixing(r)' => TMirroring(r, t)',
         TMirroring(r, t)' => pc'[r] # "done"
  PROVE  TKept(r)
<1>1. /\ TOthers(r) /\ TLone(r) /\ marred \subseteq marred' /\ v5' = v5
      /\ r \notin v5' => TSees(r)
  BY TripsAlone
<1>2. TTyped'
  BY <1>1 DEF TInv, TTyped, T!TypeOK
<1>3. THolds(r)'
  BY DEF THolds, TSaving, TDeleting, T!TripDoc, TFixing, T!Entry
<1>4. r \in T!Busy' \ v5' => TSees(r)'
  <2> SUFFICES ASSUME TSees(r)
               PROVE  TSees(r)'
    BY <1>1
  <2>1. TWritten(t, d)
    BY DEF TSees, TSaving
  <2>2. TWritten(t, d)'
    BY <2>1 DEF TWritten, T!Live
  <2>3. \A u \in Couple : hand'[r].trip = u /\ pc'[r] # "done" => u = t
    OBVIOUS
  <2>4. CASE pc'[r] = "done"
    BY <2>4 DEF TSees, TSaving
  <2>5. CASE pc'[r] # "done"
    BY <2>2, <2>5 DEF TSees
  <2> QED
    BY <2>4, <2>5
<1>5. TCosts'
  BY <1>1, TripsKeepCosts DEF TInv, TCosting
<1>6. TTolls'
  BY <1>1, TripsKeepTolls DEF TInv, T!Live
<1>7. TMirrors'
  BY <1>1, TripsMirrorsAt DEF TInv
<1> QED
  BY <1>2, <1>3, <1>4, <1>5, <1>6, <1>7 DEF TKept, TRows

(* Removing entries of one trip.                                           *)
LEMMA TripsWithout ==
  ASSUME TInv, NEW s, NEW t \in Couple, v4' = T!Without(s), s \subseteq T!Entry
  PROVE  /\ v4' \in [T!Entry -> T!EntryDoc \cup {nothing}]
         /\ \A e \in Two : v4[e] = nothing => v4'[e] = nothing
         /\ T!Mirrors(t)' = T!Mirrors(t) \ s /\ T!Entry' = T!Entry
         /\ \A e \in T!Entry : e \notin s => v4'[e] = v4[e]
         /\ \A e \in s : v4'[e] = nothing
<1>1. v4 \in [T!Entry -> T!EntryDoc \cup {nothing}]
  BY DEF TInv, TTyped, T!TypeOK
<1>2. v4' = [e \in T!Entry |-> IF e \in s THEN nothing ELSE v4[e]]
  BY DEF T!Without
<1>3. /\ v4' \in [T!Entry -> T!EntryDoc \cup {nothing}]
      /\ \A e \in T!Entry : e \notin s => v4'[e] = v4[e]
      /\ \A e \in s : v4'[e] = nothing
  BY <1>1, <1>2
<1>4. T!Entry' = T!Entry /\ Two \subseteq T!Entry
  BY DEF T!Entry
<1> QED
  BY <1>3, <1>4 DEF T!Mirrors

LEMMA TripsNothingKept ==
  ASSUME TInv, NEW r \in Two, T!MirrorNothing(r)
  PROVE  TKept(r)
<1>1. TWorks(r) /\ pc[r] = "mirror" /\ hand[r].doc.recovery = 0 /\ UNCHANGED <<v1, v2, v3, marred>>
  BY DEF TWorks, T!Step, T!MirrorNothing
<1>2. PICK t \in Couple, d \in T!TripDoc : hand[r].trip = t /\ hand[r].doc = d
  BY <1>1, TripsHeldAt DEF TSaving
<1>3. /\ pc' \in [Two -> TSteps] /\ hand' \in [Two -> T!Hand]
      /\ pc'[r] \in {"old_driver", "done"}
      /\ pc'[r] = "old_driver" =>
           /\ hand'[r] = hand[r] /\ hand[r].old \in T!TripDoc
           /\ hand[r].old.driver # hand[r].doc.driver
  BY TripsAfter DEF T!MirrorNothing
<1>4. v4' = T!Without(T!Mirrors(t)) /\ T!Mirrors(t) \subseteq T!Entry
  BY <1>2 DEF T!MirrorNothing, T!Mirrors
<1>5. /\ v4' \in [T!Entry -> T!EntryDoc \cup {nothing}]
      /\ \A e \in Two : v4[e] = nothing => v4'[e] = nothing
      /\ T!Mirrors(t)' = {}
      /\ \A e \in T!Entry : e \notin T!Mirrors(t) => v4'[e] = v4[e]
      /\ \A e \in T!Mirrors(t) : v4'[e] = nothing /\ v4[e].trip = t
  BY <1>4, TripsWithout DEF T!Mirrors
<1>6. ASSUME marred \subseteq {"expense_deleted"}
      PROVE  TMirrored(t)'
  <2>1. TSees(r)
    BY <1>1, <1>2, <1>6, TripsKnows
  <2>2. v1[t].recovery = 0
    BY <1>1, <1>2, <2>1 DEF TSees, TSaving, TWritten
  <2> QED
    BY <1>1, <1>5, <2>2 DEF TMirrored
<1>7. ~TFixing(r)' /\ ~TMirroring(r, t)'
  BY <1>3 DEF TFixing, TMirroring
<1> QED
  BY <1>1, <1>2, <1>3, <1>5, <1>6, <1>7, TripsMirrorStep

LEMMA TripsFindKept ==
  ASSUME TInv, NEW r \in Two, T!MirrorFind(r)
  PROVE  TKept(r)
<1>0. /\ TWorks(r) /\ TTyped /\ hand[r] \in T!Hand
      /\ "mirror_insert" \in TSteps \ {"done"} /\ "mirror_update" \in TSteps \ {"done"}
      /\ "mirror_drop" \in TSteps \ {"done"}
  BY DEF TWorks, T!Step, TInv, TTyped, TSteps, TSaving
<1>1. pc[r] = "mirror" /\ hand[r].doc.recovery > 0 /\ v4[r] = nothing
  BY DEF T!MirrorFind, TInv, THeld, THolds
<1>2. PICK t \in Couple, d \in T!TripDoc : hand[r].trip = t /\ hand[r].doc = d
  BY <1>1, TripsHeldAt DEF TSaving
<1>3. v4 \in [T!Entry -> T!EntryDoc \cup {nothing}] /\ T!Mirrors(t) \subseteq T!Entry
  BY <1>0 DEF TTyped, T!TypeOK, T!Mirrors
<1>4. CASE T!Mirrors(t) = {} /\ T!Read(r, "mirror", "mirror_insert", hand[r])
  <2>1. T!Goto(r, "mirror", "mirror_insert", hand[r]) /\ UNCHANGED <<v1, v2, v3, v4, marred>>
    BY <1>4 DEF T!Read
  <2>2. /\ pc' \in [Two -> TSteps] /\ pc'[r] = "mirror_insert" /\ hand'[r] = hand[r]
        /\ hand' \in [Two -> T!Hand]
    BY <1>0, <2>1, TripsGoto
  <2>3. TMirroring(r, t)'
    BY <1>4, <2>1, <2>2 DEF TMirroring, T!Mirrors, T!Entry
  <2> QED
    BY <1>0, <1>1, <1>2, <1>3, <2>1, <2>2, <2>3, TripsMirrorStep
<1>5. ASSUME NEW e \in T!Mirrors(t), NEW to \in {"mirror_update", "mirror_drop"},
             T!Read(r, "mirror", to, [hand[r] EXCEPT !.seen = {e}])
      PROVE  TKept(r)
  <2>1. PICK a \in SUBSET (T!Key \cup T!Entry) : a = {e} /\ a \subseteq T!Entry
    BY <1>3, <1>5
  <2>2. PICK h : h = [hand[r] EXCEPT !.seen = a]
    OBVIOUS
  <2>3. h \in T!Hand /\ h.trip = t /\ h.doc = d /\ h.old = hand[r].old /\ h.seen = a
    BY <1>0, <1>2, <2>1, <2>2, TripsFound
  <2>4. T!Goto(r, "mirror", to, h) /\ UNCHANGED <<v1, v2, v3, v4, marred>>
    BY <1>5, <2>1, <2>2 DEF T!Read
  <2>5. /\ pc' \in [Two -> TSteps] /\ pc'[r] = to /\ hand'[r] = h
        /\ hand' \in [Two -> T!Hand]
    BY <1>0, <1>5, <2>3, <2>4, TripsGoto
  <2>6. ASSUME marred \subseteq {"expense_deleted"}
        PROVE  TMirroring(r, t)'
    <3>1. TMirrored(t) \/ TMirroring(r, t)
      BY <1>0, <1>2, <2>4, <2>6, TripsKnows
    <3>2. PICK f \in T!Entry : T!Mirrors(t) \subseteq {f}
      BY <1>1, <1>5, <3>1 DEF TMirrored, TMirroring
    <3>3. T!Mirrors(t) = {e} /\ e \in T!Entry
      BY <1>3, <1>5, <3>2
    <3> QED
      BY <1>5, <2>1, <2>3, <2>4, <2>5, <3>3 DEF TMirroring, T!Mirrors, T!Entry
  <2>7. pc'[r] # "done" /\ pc'[r] # "old_driver"
    BY <1>5, <2>5
  <2> QED
    BY <1>0, <1>1, <1>2, <1>3, <1>5, <2>1, <2>3, <2>4, <2>5, <2>6, <2>7, TripsMirrorStep
<1>6. ASSUME NEW e \in T!Mirrors(t),
             T!Read(r, "mirror",
                    IF v4[e].driver = d.driver THEN "mirror_update" ELSE "mirror_drop",
                    [hand[r] EXCEPT !.seen = {e}])
      PROVE  TKept(r)
  <2>1. PICK to \in {"mirror_update", "mirror_drop"} :
          to = IF v4[e].driver = d.driver THEN "mirror_update" ELSE "mirror_drop"
    OBVIOUS
  <2>2. T!Read(r, "mirror", to, [hand[r] EXCEPT !.seen = {e}])
    BY <1>6, <2>1
  <2> QED
    BY <1>5, <2>2
<1> QED
  BY <1>2, <1>4, <1>6 DEF T!MirrorFind

LEMMA TripsMirrorDoc ==
  ASSUME NEW r \in Two, NEW t \in Couple, NEW d \in T!TripDoc,
         hand[r].trip = t, hand[r].doc = d, d.recovery > 0
  PROVE  /\ T!MirrorDoc(r) \in T!EntryDoc /\ T!MirrorDoc(r) # nothing
         /\ T!MirrorDoc(r).trip = t /\ T!MirrorDoc(r).driver = d.driver
         /\ T!MirrorDoc(r).amount = d.recovery
<1>1. T!MirrorDoc(r) = [trip |-> t, driver |-> d.driver, amount |-> d.recovery]
  BY DEF T!MirrorDoc
<1>2. d.driver \in TripDriver /\ d.recovery \in TripAmount \ {0}
  BY OfficeTrips DEF T!TripDoc
<1>3. T!MirrorDoc(r) \in T!EntryDoc
  BY <1>1, <1>2 DEF T!EntryDoc
<1> QED
  BY <1>1, <1>3, TripsNothing

LEMMA TripsUpdateKept ==
  ASSUME TInv, NEW r \in Two, T!MirrorUpdate(r)
  PROVE  TKept(r)
<1>1. /\ TWorks(r) /\ pc[r] = "mirror_update" /\ UNCHANGED <<v1, v2, v3, marred>>
      /\ v4 \in [T!Entry -> T!EntryDoc \cup {nothing}]
  BY DEF TWorks, T!Step, T!MirrorUpdate, TInv, TTyped, T!TypeOK
<1>2. PICK t \in Couple, d \in T!TripDoc : hand[r].trip = t /\ hand[r].doc = d
  BY <1>1, TripsHeldAt DEF TSaving
<1>3. /\ pc' \in [Two -> TSteps] /\ hand' \in [Two -> T!Hand]
      /\ pc'[r] \in {"old_driver", "done"}
      /\ pc'[r] = "old_driver" =>
           /\ hand'[r] = hand[r] /\ hand[r].old \in T!TripDoc
           /\ hand[r].old.driver # hand[r].doc.driver
  BY TripsAfter DEF T!MirrorUpdate
<1>4. d.recovery > 0 /\ v4[r] = nothing
  BY <1>1, <1>2 DEF TInv, THeld, THolds
<1>5. PICK x \in T!EntryDoc : /\ x = T!MirrorDoc(r) /\ x # nothing /\ x.trip = t
                              /\ x.driver = d.driver /\ x.amount = d.recovery
  BY <1>2, <1>4, TripsMirrorDoc
<1>6. v4' = [e \in T!Entry |-> IF e \in hand[r].seen /\ v4[e] # nothing THEN x ELSE v4[e]]
  BY <1>5 DEF T!MirrorUpdate
<1>7. /\ v4' \in [T!Entry -> T!EntryDoc \cup {nothing}]
      /\ \A e \in T!Entry : v4'[e] = IF e \in hand[r].seen /\ v4[e] # nothing THEN x ELSE v4[e]
  BY <1>1, <1>6
<1>8. \A e \in Two : v4[e] = nothing => v4'[e] = nothing
  BY <1>7 DEF T!Entry
<1>9. ASSUME marred \subseteq {"expense_deleted"}
      PROVE  /\ TMirrored(t)'
             /\ \A e \in T!Entry : v4'[e] = v4[e] \/ (v4[e].trip = t /\ v4'[e].trip = t)
  <2>1. TSees(r) /\ TMirroring(r, t)
    BY <1>1, <1>2, <1>9, TripsKnows DEF TFixing
  <2>2. TWritten(t, d)
    BY <1>1, <1>2, <2>1 DEF TSees, TSaving
  <2>3. PICK e \in T!Entry : T!Mirrors(t) = {e} /\ hand[r].seen = {e}
    BY <1>1, <2>1 DEF TMirroring
  <2>4. /\ v4'[e] = x /\ \A f \in T!Entry \ {e} : v4'[f] = v4[f]
        /\ \A f \in T!Entry \ {e} : v4[f] = nothing \/ v4[f].trip # t
        /\ v4[e].trip = t
    BY <1>7, <2>3 DEF T!Mirrors
  <2>5. T!Mirrors(t)' = {e} /\ T!Entry' = T!Entry
    BY <1>5, <2>4 DEF T!Mirrors, T!Entry
  <2>6. TMirrored(t)'
    BY <1>1, <1>4, <1>5, <2>2, <2>4, <2>5 DEF TMirrored, TWritten, T!Live
  <2> QED
    BY <1>5, <2>4, <2>6
<1>10. ~TFixing(r)' /\ ~TMirroring(r, t)'
  BY <1>3 DEF TFixing, TMirroring
<1> QED
  BY <1>1, <1>2, <1>3, <1>7, <1>8, <1>9, <1>10, TripsMirrorStep

LEMMA TripsDropKept ==
  ASSUME TInv, NEW r \in Two, T!MirrorDrop(r)
  PROVE  TKept(r)
<1>0. /\ TWorks(r) /\ TTyped /\ hand[r] \in T!Hand /\ "mirror_insert" \in TSteps \ {"done"}
  BY DEF TWorks, T!Step, TInv, TTyped, TSteps, TSaving
<1>1. /\ pc[r] = "mirror_drop" /\ UNCHANGED <<v1, v2, v3, marred>> /\ v4' = T!Without(hand[r].seen)
      /\ T!Goto(r, "mirror_drop", "mirror_insert", hand[r])
  BY DEF T!MirrorDrop
<1>2. PICK t \in Couple, d \in T!TripDoc : hand[r].trip = t /\ hand[r].doc = d
  BY <1>1, TripsHeldAt DEF TSaving
<1>3. d.recovery > 0 /\ v4[r] = nothing /\ hand[r].seen \subseteq T!Entry
  BY <1>1, <1>2 DEF TInv, THeld, THolds
<1>4. /\ pc' \in [Two -> TSteps] /\ hand' \in [Two -> T!Hand]
      /\ pc'[r] = "mirror_insert" /\ hand'[r] = hand[r]
  <2>1. T!Goto(r, "mirror_drop", "mirror_insert", hand[r])
    BY <1>1
  <2> QED
    BY <1>0, <2>1, TripsGoto
<1>5. /\ v4' \in [T!Entry -> T!EntryDoc \cup {nothing}]
      /\ \A e \in Two : v4[e] = nothing => v4'[e] = nothing
      /\ T!Mirrors(t)' = T!Mirrors(t) \ hand[r].seen
      /\ \A e \in T!Entry : e \notin hand[r].seen => v4'[e] = v4[e]
      /\ \A e \in hand[r].seen : v4'[e] = nothing
  BY <1>1, <1>3, TripsWithout
<1>6. ASSUME marred \subseteq {"expense_deleted"}
      PROVE  /\ TMirroring(r, t)'
             /\ \A e \in T!Entry : v4'[e] = v4[e] \/ (v4[e].trip = t /\ v4'[e] = nothing)
  <2>1. TMirroring(r, t)
    BY <1>0, <1>1, <1>2, <1>6, TripsKnows DEF TFixing
  <2>2. hand[r].seen = T!Mirrors(t)
    BY <1>1, <2>1 DEF TMirroring
  <2>3. TMirroring(r, t)'
    BY <1>4, <1>5, <2>2 DEF TMirroring
  <2> QED
    BY <1>5, <2>2, <2>3 DEF T!Mirrors
<1> QED
  BY <1>0, <1>1, <1>2, <1>3, <1>4, <1>5, <1>6, TripsMirrorStep

LEMMA TripsInsertKept ==
  ASSUME TInv, NEW r \in Two, T!MirrorInsert(r)
  PROVE  TKept(r)
<1>1. /\ TWorks(r) /\ pc[r] = "mirror_insert" /\ UNCHANGED <<v1, v2, v3, marred>>
      /\ v4 \in [T!Entry -> T!EntryDoc \cup {nothing}]
  BY DEF TWorks, T!Step, T!MirrorInsert, TInv, TTyped, T!TypeOK
<1>2. PICK t \in Couple, d \in T!TripDoc : hand[r].trip = t /\ hand[r].doc = d
  BY <1>1, TripsHeldAt DEF TSaving
<1>3. /\ pc' \in [Two -> TSteps] /\ hand' \in [Two -> T!Hand]
      /\ pc'[r] \in {"old_driver", "done"}
      /\ pc'[r] = "old_driver" =>
           /\ hand'[r] = hand[r] /\ hand[r].old \in T!TripDoc
           /\ hand[r].old.driver # hand[r].doc.driver
  BY TripsAfter DEF T!MirrorInsert
<1>4. d.recovery > 0 /\ v4[r] = nothing /\ r \in T!Entry
  BY <1>1, <1>2 DEF TInv, THeld, THolds, T!Entry
<1>5. PICK x \in T!EntryDoc : /\ x = T!MirrorDoc(r) /\ x # nothing /\ x.trip = t
                              /\ x.driver = d.driver /\ x.amount = d.recovery
  BY <1>2, <1>4, TripsMirrorDoc
<1>6. v4' = [v4 EXCEPT ![r] = x]
  BY <1>5 DEF T!MirrorInsert
<1>7. /\ v4' \in [T!Entry -> T!EntryDoc \cup {nothing}]
      /\ v4'[r] = x /\ \A e \in T!Entry \ {r} : v4'[e] = v4[e]
  BY <1>1, <1>4, <1>6
<1>8. \A s \in Two : s # r /\ v4[s] = nothing => v4'[s] = nothing
  BY <1>7 DEF T!Entry
<1>9. ASSUME marred \subseteq {"expense_deleted"}
      PROVE  TMirrored(t)'
  <2>1. TSees(r) /\ TMirroring(r, t)
    BY <1>1, <1>2, <1>9, TripsKnows DEF TFixing
  <2>2. TWritten(t, d)
    BY <1>1, <1>2, <2>1 DEF TSees, TSaving
  <2>3. T!Mirrors(t) = {}
    BY <1>1, <2>1 DEF TMirroring
  <2>4. T!Mirrors(t)' = {r} /\ T!Entry' = T!Entry
    BY <1>4, <1>5, <1>7, <2>3 DEF T!Mirrors, T!Entry
  <2> QED
    BY <1>1, <1>4, <1>5, <1>7, <2>2, <2>4 DEF TMirrored, TWritten, T!Live
<1>10. ~TFixing(r)' /\ ~TMirroring(r, t)'
  BY <1>3 DEF TFixing, TMirroring
<1>11. \A e \in T!Entry : \/ v4'[e] = v4[e]
                          \/ /\ v4[e] = nothing \/ v4[e].trip = t
                             /\ v4'[e] = nothing \/ v4'[e].trip = t
  BY <1>4, <1>5, <1>7
<1> QED
  BY <1>1, <1>2, <1>3, <1>7, <1>8, <1>9, <1>10, <1>11, TripsMirrorStep

LEMMA TripsOldKept ==
  ASSUME TInv, NEW r \in Two, T!DropOldDriver(r)
  PROVE  TKept(r)
<1>0. TWorks(r) /\ TTyped
  BY DEF TWorks, T!Step, TInv
<1>1. /\ pc[r] = "old_driver" /\ UNCHANGED <<v1, v2, v3, marred>>
      /\ T!Goto(r, "old_driver", "done", T!Blank)
  BY DEF T!DropOldDriver
<1>2. PICK t \in Couple, d \in T!TripDoc : hand[r].trip = t /\ hand[r].doc = d
  BY <1>1, TripsHeldAt DEF TSaving
<1>3. PICK s \in SUBSET T!Mirrors(t) : s = {e \in T!Mirrors(t) : v4[e].driver = hand[r].old.driver}
  OBVIOUS
<1>4. v4' = T!Without(s) /\ T!Mirrors(t) \subseteq T!Entry /\ s \subseteq T!Entry
  BY <1>2, <1>3 DEF T!DropOldDriver, T!Mirrors
<1>5. /\ v4' \in [T!Entry -> T!EntryDoc \cup {nothing}]
      /\ \A e \in Two : v4[e] = nothing => v4'[e] = nothing
      /\ T!Mirrors(t)' = T!Mirrors(t) \ s
      /\ \A e \in T!Entry : e \notin s => v4'[e] = v4[e]
      /\ \A e \in s : v4'[e] = nothing
  BY <1>4, TripsWithout
<1>6. pc' \in [Two -> TSteps] /\ hand' \in [Two -> T!Hand] /\ pc'[r] = "done"
  BY <1>0, <1>1, TripsEnd
<1>7. \A e \in T!Entry : v4'[e] = v4[e] \/ (v4[e].trip = t /\ v4'[e] = nothing)
  BY <1>5 DEF T!Mirrors
<1>8. ASSUME marred \subseteq {"expense_deleted"}
      PROVE  TMirrored(t)'
  <2>1. TSees(r) /\ TMirrored(t)
    BY <1>0, <1>1, <1>2, <1>8, TripsKnows DEF TMirroring
  <2>2. TWritten(t, d) /\ hand[r].old.driver # d.driver
    BY <1>1, <1>2, <2>1 DEF TSees, TSaving, TInv, THeld, THolds
  <2>3. s = {}
    BY <1>3, <2>1, <2>2 DEF TMirrored, TWritten
  <2>4. T!Mirrors(t)' = T!Mirrors(t) /\ T!Entry' = T!Entry
    BY <1>5, <2>3 DEF T!Entry
  <2>5. \A e \in T!Entry : v4'[e] = v4[e]
    BY <1>5, <2>3
  <2> QED
    BY <1>1, <2>1, <2>4, <2>5 DEF TMirrored, T!Live
<1>9. ~TFixing(r)' /\ ~TMirroring(r, t)'
  BY <1>6 DEF TFixing, TMirroring
<1> QED
  BY <1>0, <1>1, <1>2, <1>5, <1>6, <1>7, <1>8, <1>9, TripsMirrorStep

(* The steps of a deletion.                                                *)
LEMMA TripsDeleting ==
  ASSUME TInv, NEW r \in Two, pc[r] \in TDeleting
  PROVE  hand[r].trip \in Couple
BY DEF TInv, THeld, THolds

LEMMA TripsDeleteKept ==
  ASSUME TInv, NEW r \in Two, T!DeleteTrip(r)
  PROVE  TKept(r)
<1>0. TWorks(r) /\ TTyped /\ "delete_rows" \in TSteps \ {"done"}
  BY DEF TWorks, T!Step, TInv, TSteps, TDeleting
<1>1. /\ TOthers(r) /\ TLone(r) /\ marred \subseteq marred' /\ v5' = v5 /\ r \in T!Busy
      /\ hand[r] \in T!Hand
  BY <1>0, TripsAlone
<1>2. /\ pc[r] = "delete_trip" /\ UNCHANGED <<v2, v3, v4, marred>>
      /\ v1' = [v1 EXCEPT ![hand[r].trip] = nothing]
  BY DEF T!DeleteTrip, T!Goto
<1>3. PICK t \in Couple : hand[r].trip = t
  BY <1>2, TripsDeleting DEF TDeleting
<1>4. /\ pc' \in [Two -> TSteps] /\ pc'[r] = "delete_rows" /\ hand'[r] = hand[r]
      /\ hand' \in [Two -> T!Hand]
  <2>1. T!Goto(r, "delete_trip", "delete_rows", hand[r])
    BY DEF T!DeleteTrip
  <2> QED
    BY <1>0, <1>1, <2>1, TripsGoto
<1>5. /\ v1' \in [Couple -> T!TripDoc \cup {nothing}] /\ v1'[t] = nothing
      /\ \A u \in Couple \ {t} : v1'[u] = v1[u]
  BY <1>0, <1>2, <1>3 DEF TTyped, T!TypeOK
<1>6. TTyped'
  BY <1>0, <1>1, <1>2, <1>4, <1>5 DEF TTyped, T!TypeOK
<1>7. THolds(r)' /\ TRows' = TRows
  <2>1. v4'[r] = nothing
    BY <1>2 DEF TInv, THeld, THolds
  <2> QED
    BY <1>2, <1>3, <1>4, <2>1 DEF THolds, TSaving, TDeleting, TRows
<1>8. TSees(r)'
  BY <1>3, <1>4, <1>5 DEF TSees, TSaving, T!Live
<1>9. TCosts'
  BY <1>1, <1>2, <1>3, <1>4, <1>5, TripsCostsAt DEF TInv, TCosting
<1>10. TMirrors'
  <2>1. TMirroring(r, t)' /\ ~TFixing(r)'
    BY <1>4 DEF TMirroring, TFixing
  <2> QED
    BY <1>1, <1>2, <1>3, <1>4, <1>5, <2>1, TripsMirrorsAt DEF TInv
<1>11. TTolls'
  <2>1. \A u \in Couple : T!Live(u) => T!Live(u)' \/ (pc'[r] = "delete_rows" /\ hand'[r].trip = u)
    BY <1>3, <1>4, <1>5 DEF T!Live
  <2> QED
    BY <1>0, <1>1, <1>2, <1>4, <2>1, TripsKeepTolls DEF TInv
<1> QED
  BY <1>2, <1>6, <1>7, <1>8, <1>9, <1>10, <1>11 DEF TKept

LEMMA TripsDeleteRowsKept ==
  ASSUME TInv, NEW r \in Two, T!DeleteRows(r)
  PROVE  TKept(r)
<1>0. TWorks(r) /\ TTyped /\ "unlink" \in TSteps \ {"done"}
  BY DEF TWorks, T!Step, TInv, TSteps, TDeleting
<1>1. /\ TOthers(r) /\ TLone(r) /\ marred \subseteq marred' /\ v5' = v5 /\ r \in T!Busy
      /\ r \notin v5' => TSees(r)
      /\ "overlap" \notin marred' => r \notin v5'
      /\ hand[r] \in T!Hand
  BY <1>0, TripsAlone
<1>2. /\ pc[r] = "delete_rows" /\ UNCHANGED <<v1, v3, v4, marred>>
  BY DEF T!DeleteRows, T!Goto
<1>3. PICK t \in Couple : hand[r].trip = t
  BY <1>2, TripsDeleting DEF TDeleting
<1>4. /\ pc' \in [Two -> TSteps] /\ pc'[r] = "unlink" /\ hand'[r] = hand[r]
      /\ hand' \in [Two -> T!Hand]
  <2>1. T!Goto(r, "delete_rows", "unlink", hand[r])
    BY DEF T!DeleteRows
  <2> QED
    BY <1>0, <1>1, <2>1, TripsGoto
<1>5. /\ v2 \in [T!Key -> T!ExpenseDoc \cup {nothing}]
      /\ v2' = [k \in T!Key |-> IF k \in TActives(t) THEN [v2[k] EXCEPT !.is_deleted = TRUE]
                                ELSE v2[k]]
  BY <1>0, <1>3 DEF T!DeleteRows, TTyped, T!TypeOK, TActives
<1>6. PICK b \in BOOLEAN : b = TRUE
  OBVIOUS
<1>7. \A k \in T!Key : k \in TActives(t) =>
        v2'[k] \in T!ExpenseDoc /\ v2'[k].is_deleted = b
  <2> SUFFICES ASSUME NEW k \in T!Key, k \in TActives(t)
               PROVE  v2'[k] \in T!ExpenseDoc /\ v2'[k].is_deleted = b
    OBVIOUS
  <2>1. v2[k] \in T!ExpenseDoc
    BY <1>5 DEF TActives, T!Active
  <2>2. v2'[k] = [v2[k] EXCEPT !.is_deleted = b]
    BY <1>5, <1>6
  <2> QED
    BY <2>1, <2>2 DEF T!ExpenseDoc
<1>8. /\ v2' \in [T!Key -> T!ExpenseDoc \cup {nothing}]
      /\ \A k \in T!Key : k \notin TActives(t) => v2'[k] = v2[k]
  <2>1. \A k \in T!Key : k \notin TActives(t) => v2'[k] = v2[k]
    BY <1>5
  <2>2. \A k \in T!Key : v2'[k] \in T!ExpenseDoc \cup {nothing}
    BY <1>5, <1>7, <2>1
  <2>3. PICK F : F = [k \in T!Key |-> IF k \in TActives(t) THEN [v2[k] EXCEPT !.is_deleted = TRUE]
                                      ELSE v2[k]]
    OBVIOUS
  <2>4. v2' = F /\ F = [k \in T!Key |-> F[k]]
    BY <1>5, <2>3
  <2> QED
    BY <2>1, <2>2, <2>4
<1>9. TTyped'
  BY <1>0, <1>1, <1>2, <1>4, <1>8 DEF TTyped, T!TypeOK
<1>10. TRows \subseteq TRows'
  BY <1>7, <1>8, TripsNothing DEF TRows, T!Key
<1>11. THolds(r)'
  <2>1. v4'[r] = nothing
    BY <1>2 DEF TInv, THeld, THolds
  <2> QED
    BY <1>2, <1>3, <1>4, <2>1 DEF THolds, TSaving, TDeleting
<1>12. TSees(r) => ~T!Live(t)
  BY <1>2, <1>3 DEF TSees
<1>13. r \in T!Busy' \ v5' => TSees(r)'
  BY <1>1, <1>2, <1>3, <1>4, <1>12 DEF TSees, TSaving, T!Live
<1>14. TCosts'
  <2>1. TActives(t)' = {}
    BY <1>6, <1>7, <1>8 DEF TActives, T!Active, T!KeysOf, T!Key
  <2>2. marred' = {} => TCosted(t)'
    BY <1>1, <1>2, <1>12, <2>1 DEF TCosted, T!Live
  <2>3. /\ \A u \in Couple \ {t} : v1'[u] = v1[u]
        /\ \A k \in T!Key \ T!KeysOf(t) : v2'[k] = v2[k]
    BY <1>2, <1>8 DEF TActives
  <2> QED
    BY <1>1, <1>3, <2>2, <2>3, TripsCostsAt DEF TInv, TCosting
<1>15. TMirrors'
  BY <1>1, <1>2, <1>3, <1>4, TripsKeepMirrors, TripsSameMirrored
     DEF TInv, TMirroring, TFixing
<1>16. TTolls'
  BY <1>1, <1>2, <1>4, TripsKeepTolls DEF TInv, T!Live
<1> QED
  BY <1>2, <1>9, <1>10, <1>11, <1>13, <1>14, <1>15, <1>16 DEF TKept

LEMMA TripsUnlinkKept ==
  ASSUME TInv, NEW r \in Two, T!Unlink(r)
  PROVE  TKept(r)
<1>0. TWorks(r) /\ TTyped /\ "delete_mirror" \in TSteps \ {"done"}
  BY DEF TWorks, T!Step, TInv, TSteps, TDeleting
<1>1. /\ TOthers(r) /\ TLone(r) /\ marred \subseteq marred' /\ v5' = v5 /\ r \in T!Busy
      /\ r \notin v5' => TSees(r)
      /\ hand[r] \in T!Hand
  BY <1>0, TripsAlone
<1>2. /\ pc[r] = "unlink" /\ UNCHANGED <<v1, v2, v4, marred>>
      /\ v3' = IF v3 = hand[r].trip THEN nothing ELSE v3
  BY DEF T!Unlink, T!Goto
<1>3. PICK t \in Couple : hand[r].trip = t
  BY <1>2, TripsDeleting DEF TDeleting
<1>4. /\ pc' \in [Two -> TSteps] /\ pc'[r] = "delete_mirror" /\ hand'[r] = hand[r]
      /\ hand' \in [Two -> T!Hand]
  <2>1. T!Goto(r, "unlink", "delete_mirror", hand[r])
    BY DEF T!Unlink
  <2> QED
    BY <1>0, <1>1, <2>1, TripsGoto
<1>5. TTyped'
  BY <1>0, <1>1, <1>2, <1>4 DEF TTyped, T!TypeOK
<1>6. THolds(r)'
  <2>1. v4'[r] = nothing
    BY <1>2 DEF TInv, THeld, THolds
  <2> QED
    BY <1>2, <1>3, <1>4, <2>1 DEF THolds, TSaving, TDeleting
<1>7. r \in T!Busy' \ v5' => TSees(r)'
  <2>1. TSees(r) => ~T!Live(t)
    BY <1>2, <1>3 DEF TSees
  <2> QED
    BY <1>1, <1>2, <1>3, <1>4, <2>1 DEF TSees, TSaving, T!Live
<1>8. TCosts'
  BY <1>1, <1>2, TripsKeepCosts DEF TInv, TCosting
<1>9. TMirrors'
  BY <1>1, <1>2, <1>3, <1>4, TripsKeepMirrors, TripsSameMirrored
     DEF TInv, TMirroring, TFixing
<1>10. TTolls'
  <2> SUFFICES ASSUME marred \cap {"overlap", "death", "bulk_delete"} = {}, v3' # nothing
               PROVE  T!Live(v3)' \/ \E s \in Two : pc'[s] \in {"delete_rows", "unlink"} /\ hand'[s].trip = v3'
    BY <1>2 DEF TTolls
  <2>1. v3' = v3 /\ v3 # t
    BY <1>2, <1>3
  <2>2. T!Live(v3) \/ \E s \in Two : pc[s] \in {"delete_rows", "unlink"} /\ hand[s].trip = v3
    BY <2>1 DEF TInv, TTolls
  <2> QED
    BY <1>1, <1>2, <1>3, <2>1, <2>2 DEF TOthers, T!Live
<1> QED
  BY <1>2, <1>5, <1>6, <1>7, <1>8, <1>9, <1>10 DEF TKept, TRows

(* The last step of a request.                                             *)
LEMMA TripsDone ==
  ASSUME TInv, NEW r \in Two, TWorks(r), NEW from, NEW what, T!Goto(r, from, "done", what)
  PROVE  /\ pc[r] = from /\ pc' \in [Two -> TSteps] /\ hand' \in [Two -> T!Hand]
         /\ pc'[r] = "done" /\ THolds(r)' /\ r \notin T!Busy'
         /\ TOthers(r) /\ TLone(r) /\ marred \subseteq marred' /\ v5' = v5
<1>1. /\ pc[r] = from /\ pc' \in [Two -> TSteps] /\ hand' \in [Two -> T!Hand]
      /\ pc'[r] = "done"
  BY TripsEnd DEF TInv
<1>2. THolds(r)'
  BY <1>1 DEF THolds, TSaving, TDeleting
<1>3. r \notin T!Busy'
  BY <1>1 DEF T!Busy
<1> QED
  BY <1>1, <1>2, <1>3, TripsAlone

LEMMA TripsDeleteMirrorKept ==
  ASSUME TInv, NEW r \in Two, T!DeleteMirror(r)
  PROVE  TKept(r)
<1>0. TWorks(r)
  BY DEF TWorks, T!Step
<1>1. /\ pc[r] = "delete_mirror" /\ pc' \in [Two -> TSteps] /\ hand' \in [Two -> T!Hand]
      /\ pc'[r] = "done" /\ THolds(r)' /\ r \notin T!Busy'
      /\ TOthers(r) /\ TLone(r) /\ marred \subseteq marred' /\ v5' = v5
  <2>1. T!Goto(r, "delete_mirror", "done", T!Blank)
    BY DEF T!DeleteMirror
  <2> QED
    BY <1>0, <2>1, TripsDone
<1>2. /\ UNCHANGED <<v1, v2, v3, marred>>
      /\ v4' = T!Without(T!Mirrors(hand[r].trip))
  BY DEF T!DeleteMirror
<1>3. PICK t \in Couple : hand[r].trip = t
  BY <1>1, TripsDeleting DEF TDeleting
<1>4. /\ v4' \in [T!Entry -> T!EntryDoc \cup {nothing}]
      /\ \A e \in Two : v4[e] = nothing => v4'[e] = nothing
      /\ T!Mirrors(t)' = {}
      /\ \A e \in T!Entry : e \notin T!Mirrors(t) => v4'[e] = v4[e]
      /\ \A e \in T!Mirrors(t) : v4'[e] = nothing /\ v4[e].trip = t
  BY <1>2, <1>3, TripsWithout DEF T!Mirrors
<1>5. TTyped'
  BY <1>1, <1>2, <1>4 DEF TInv, TTyped, T!TypeOK
<1>6. TCosts'
  BY <1>1, <1>2, TripsKeepCosts DEF TInv, TCosting
<1>7. TTolls'
  BY <1>1, <1>2, TripsKeepTolls DEF TInv, T!Live
<1>8. TMirrors'
  <2>1. ASSUME marred \subseteq {"expense_deleted"}
        PROVE  TMirrored(t)'
    <3>1. TSees(r)
      BY <1>0, <1>2, <1>3, <2>1, TripsKnows
    <3>2. ~T!Live(t)
      BY <1>1, <1>3, <3>1 DEF TSees
    <3> QED
      BY <1>2, <1>4, <3>2 DEF TMirrored, T!Live
  <2>2. ~TFixing(r)'
    BY <1>1 DEF TFixing
  <2>3. \A u \in Couple \ {t} : v1'[u] = v1[u]
    BY <1>2
  <2> QED
    BY <1>1, <1>2, <1>3, <1>4, <2>1, <2>2, <2>3, TripsMirrorsAt DEF TInv
<1> QED
  BY <1>1, <1>2, <1>4, <1>5, <1>6, <1>7, <1>8 DEF TKept, TRows

LEMMA TripsBulkKept ==
  ASSUME TInv, NEW r \in Two, T!BulkDelete(r)
  PROVE  TKept(r)
<1>0. TWorks(r)
  BY DEF TWorks, T!Step
<1>1. /\ pc[r] = "bulk" /\ pc' \in [Two -> TSteps] /\ hand' \in [Two -> T!Hand]
      /\ pc'[r] = "done" /\ THolds(r)' /\ r \notin T!Busy'
      /\ TOthers(r) /\ TLone(r) /\ marred \subseteq marred' /\ v5' = v5
  <2>1. T!Goto(r, "bulk", "done", T!Blank)
    BY DEF T!BulkDelete
  <2> QED
    BY <1>0, <2>1, TripsDone
<1>2. /\ UNCHANGED <<v2, v3, v4>> /\ marred' = marred \cup {"bulk_delete"}
      /\ v1' = [v1 EXCEPT ![hand[r].trip] = nothing]
  BY DEF T!BulkDelete
<1>3. TTyped'
  BY <1>1, <1>2 DEF TInv, TTyped, T!TypeOK
<1>4. TCosts' /\ TMirrors' /\ TTolls'
  BY <1>2 DEF TCosts, TMirrors, TTolls
<1> QED
  BY <1>1, <1>2, <1>3, <1>4 DEF TKept, TRows

LEMMA TripsCopyKept ==
  ASSUME TInv, NEW r \in Two, T!CopyInsert(r)
  PROVE  TKept(r)
<1>0. TWorks(r)
  BY DEF TWorks, T!Step
<1>1. /\ pc[r] = "copy" /\ pc' \in [Two -> TSteps] /\ hand' \in [Two -> T!Hand]
      /\ pc'[r] = "done" /\ THolds(r)' /\ r \notin T!Busy'
      /\ TOthers(r) /\ TLone(r) /\ marred \subseteq marred' /\ v5' = v5
  <2>1. T!Goto(r, "copy", "done", T!Blank)
    BY DEF T!CopyInsert
  <2> QED
    BY <1>0, <2>1, TripsDone
<1>2. PICK t \in Couple, d \in T!TripDoc : hand[r].trip = t /\ hand[r].doc = d
  BY <1>1, TripsHeldAt
<1>3. /\ UNCHANGED <<v2, v3, v4>> /\ marred' = marred \cup {"copy"} /\ v1' = [v1 EXCEPT ![t] = d]
      /\ v1 \in [Couple -> T!TripDoc \cup {nothing}]
  BY <1>2 DEF T!CopyInsert, TInv, TTyped, T!TypeOK
<1>4. TTyped'
  BY <1>1, <1>3 DEF TInv, TTyped, T!TypeOK
<1>5. TCosts' /\ TMirrors'
  BY <1>3 DEF TCosts, TMirrors
<1>6. TTolls'
  <2>1. \A u \in Couple : T!Live(u) => T!Live(u)'
    BY <1>3, TripsNothing DEF T!Live
  <2> QED
    BY <1>1, <1>3, <2>1, TripsKeepTolls DEF TInv
<1> QED
  BY <1>1, <1>3, <1>4, <1>5, <1>6 DEF TKept, TRows

LEMMA TripsExpenseKept ==
  ASSUME TInv, NEW r \in Two, T!ExpenseDelete(r)
  PROVE  TKept(r)
<1>0. TWorks(r)
  BY DEF TWorks, T!Step
<1>1. /\ pc[r] = "delete_expense" /\ pc' \in [Two -> TSteps] /\ hand' \in [Two -> T!Hand]
      /\ pc'[r] = "done" /\ THolds(r)' /\ r \notin T!Busy'
      /\ TOthers(r) /\ TLone(r) /\ marred \subseteq marred' /\ v5' = v5
  <2>1. T!Goto(r, "delete_expense", "done", T!Blank)
    BY DEF T!ExpenseDelete
  <2> QED
    BY <1>0, <2>1, TripsDone
<1>2. UNCHANGED <<v1, v3, v4>> /\ marred' = marred \cup {"expense_deleted"}
  BY DEF T!ExpenseDelete
<1>3. hand[r].seen \subseteq TRows /\ v2 \in [T!Key -> T!ExpenseDoc \cup {nothing}]
  BY <1>1 DEF TInv, THeld, THolds, TTyped, T!TypeOK
<1>4. v2' \in [T!Key -> T!ExpenseDoc \cup {nothing}] /\ TRows \subseteq TRows'
  <2>1. PICK b \in BOOLEAN : b = TRUE
    OBVIOUS
  <2>2. \A x \in T!ExpenseDoc : [x EXCEPT !.is_deleted = b] \in T!ExpenseDoc
    BY DEF T!ExpenseDoc
  <2>3. v2' = [k \in T!Key |-> IF k \in hand[r].seen THEN [v2[k] EXCEPT !.is_deleted = b] ELSE v2[k]]
    BY <2>1 DEF T!ExpenseDelete
  <2>4. \A k \in hand[r].seen : v2[k] \in T!ExpenseDoc
    BY <1>3 DEF TRows
  <2>5. \A k \in T!Key : /\ k \in hand[r].seen => v2'[k] \in T!ExpenseDoc
                         /\ k \notin hand[r].seen => v2'[k] = v2[k]
    BY <2>2, <2>3, <2>4
  <2>6. \A k \in T!Key : v2'[k] \in T!ExpenseDoc \cup {nothing}
    BY <1>3, <2>5
  <2>7. v2' = [k \in T!Key |-> v2'[k]]
    BY <2>3
  <2>8. TRows \subseteq TRows'
    BY <2>5, TripsNothing DEF TRows, T!Key
  <2> QED
    BY <2>6, <2>7, <2>8
<1>5. TTyped'
  BY <1>1, <1>2, <1>4 DEF TInv, TTyped, T!TypeOK
<1>6. TCosts'
  BY <1>2 DEF TCosts
<1>7. TMirrors'
  BY <1>1, <1>2, TripsKeepMirrors, TripsSameMirrored DEF TInv, TMirroring, TFixing
<1>8. TTolls'
  BY <1>1, <1>2, TripsKeepTolls DEF TInv, T!Live
<1> QED
  BY <1>1, <1>2, <1>4, <1>5, <1>6, <1>7, <1>8 DEF TKept

LEMMA TripsLinkKept ==
  ASSUME TInv, NEW r \in Two, T!LinkWrite(r)
  PROVE  TKept(r)
<1>0. TWorks(r)
  BY DEF TWorks, T!Step
<1>1. /\ pc[r] = "link" /\ pc' \in [Two -> TSteps] /\ hand' \in [Two -> T!Hand]
      /\ pc'[r] = "done" /\ THolds(r)' /\ r \notin T!Busy'
      /\ TOthers(r) /\ TLone(r) /\ marred \subseteq marred' /\ v5' = v5
  <2>1. T!Goto(r, "link", "done", T!Blank)
    BY DEF T!LinkWrite
  <2> QED
    BY <1>0, <2>1, TripsDone
<1>2. /\ UNCHANGED <<v1, v2, v4, marred>> /\ v3' = hand[r].trip
      /\ hand[r].trip \in Couple \cup {nothing}
  BY DEF T!LinkWrite, TInv, TTyped, T!Hand
<1>3. TTyped'
  BY <1>1, <1>2 DEF TInv, TTyped, T!TypeOK
<1>4. TCosts'
  BY <1>1, <1>2, TripsKeepCosts DEF TInv, TCosting
<1>5. TMirrors'
  BY <1>1, <1>2, TripsKeepMirrors, TripsSameMirrored DEF TInv, TMirroring, TFixing
<1>6. TTolls'
  <2> SUFFICES ASSUME "overlap" \notin marred', NEW t \in Couple, hand[r].trip = t
               PROVE  T!Live(t)'
    BY <1>2 DEF TTolls, T!Live
  <2>1. TSees(r)
    BY <1>0, TripsAlone
  <2> QED
    BY <1>1, <1>2, <2>1 DEF TSees, T!Live
<1> QED
  BY <1>1, <1>2, <1>3, <1>4, <1>5, <1>6 DEF TKept, TRows

LEMMA TripsKept ==
  ASSUME TInv, NEW r \in Two, TStep(r)
  PROVE  TInv'
<1>1. TKept(r)
  BY TripsBeginKept, TripsDieKept, TripsWriteKept, TripsReadKept, TripsUpsertKept,
     TripsRowsDoneKept, TripsRemoveKept, TripsFlagKept, TripsNothingKept, TripsFindKept,
     TripsUpdateKept, TripsDropKept, TripsInsertKept, TripsOldKept, TripsDeleteKept,
     TripsDeleteRowsKept, TripsUnlinkKept, TripsDeleteMirrorKept, TripsBulkKept, TripsCopyKept,
     TripsExpenseKept, TripsLinkKept, Zenon
     DEF TStep, T!Step
<1> QED
  BY <1>1, TripsKeptAll

LEMMA TripsStand ==
  ASSUME TInv, UNCHANGED <<v1, v2, v3, v4, v5, pc, hand, marred>>
  PROVE  TInv'
<1>1. /\ v1' = v1 /\ v2' = v2 /\ v3' = v3 /\ v4' = v4 /\ v5' = v5 /\ pc' = pc /\ hand' = hand
      /\ marred' = marred
  OBVIOUS
<1>2. TTyped' /\ TApart'
  BY <1>1 DEF TInv, TTyped, T!TypeOK, TApart, T!Busy
<1>3. /\ \A t : T!KeysOf(t)' = T!KeysOf(t) /\ T!Live(t)' = T!Live(t) /\ T!Mirrors(t)' = T!Mirrors(t)
      /\ \A t, d : T!Desired(t, d)' = T!Desired(t, d)
      /\ \A k : T!Active(k)' = T!Active(k)
      /\ T!Entry' = T!Entry /\ TRows' = TRows /\ T!TripDoc' = T!TripDoc
  BY <1>1 DEF T!KeysOf, T!Live, T!Mirrors, T!Desired, T!Active, T!Entry, TRows, T!TripDoc
<1>4. THeld'
  BY <1>1, <1>3 DEF TInv, THeld, THolds
<1>5. \A k, d : TRight(k, d)' = TRight(k, d)
  BY <1>1 DEF TRight
<1>6. /\ \A t, d : TWritten(t, d)' = TWritten(t, d)
      /\ \A r, t, d : TUpserted(r, t, d)' = TUpserted(r, t, d) /\ TRemoved(r, t, d)' = TRemoved(r, t, d)
  BY <1>1, <1>3, <1>5 DEF TWritten, TUpserted, TRemoved
<1>7. \A r : TSees(r)' = TSees(r)
  BY <1>1, <1>3, <1>6 DEF TSees
<1>8. TSynced'
  BY <1>1, <1>7 DEF TInv, TSynced, T!Busy
<1>9. \A t : TActives(t)' = TActives(t)
  BY <1>1, <1>3 DEF TActives
<1>10. TCosts'
  BY <1>1, <1>3, <1>9 DEF TInv, TCosts, TCosted, TCosting
<1>11. \A t : TMirrored(t)' = TMirrored(t) /\ \A r : TMirroring(r, t)' = TMirroring(r, t)
  BY <1>1, <1>3 DEF TMirrored, TMirroring
<1>12. TMirrors'
  BY <1>1, <1>11 DEF TInv, TMirrors, TFixing
<1>13. TTolls'
  BY <1>1, <1>3 DEF TInv, TTolls, T!Live
<1> QED
  BY <1>2, <1>4, <1>8, <1>10, <1>12, <1>13 DEF TInv

LEMMA TripsBegin ==
  ASSUME T!Init
  PROVE  TInv
<1>1. PICK t \in Couple, s \in TripSheet :
        v1 = [u \in Couple |-> IF u = t THEN [T!Fresh(s) EXCEPT !.recovery = 0] ELSE nothing]
  BY DEF T!Init
<1>2. PICK d \in T!TripDoc : d = [T!Fresh(s) EXCEPT !.recovery = 0]
  BY TripsSheet
<1>3. d.has_canonical = FALSE /\ d.recovery = 0
  <2>1. PICK a, b, n, f : T!Fresh(s) = [lines |-> a, has_canonical |-> f, driver |-> b, recovery |-> n] /\ f = FALSE
    BY DEF T!Fresh
  <2>2. d = [lines |-> a, has_canonical |-> f, driver |-> b, recovery |-> 0]
    BY <1>2, <2>1
  <2> QED
    BY <2>1, <2>2
<1>4. v1 = [u \in Couple |-> IF u = t THEN d ELSE nothing]
  BY <1>1, <1>2
<1>5. /\ v1 \in [Couple -> T!TripDoc \cup {nothing}]
      /\ \A u \in Couple : T!Live(u) => v1[u] = d
  BY <1>4 DEF T!Live
<1>6. /\ v2 = [k \in T!Key |-> nothing] /\ v3 = nothing /\ v4 = [e \in T!Entry |-> nothing]
      /\ pc = [r \in Two |-> "new"] /\ hand = [r \in Two |-> T!Blank] /\ v5 = {} /\ marred = {}
  BY DEF T!Init
<1>7. TTyped
  BY <1>5, <1>6, TripsNothing DEF TTyped, T!TypeOK, TSteps
<1>8. THeld
  BY <1>6 DEF THeld, THolds, TSaving, TDeleting, T!Entry
<1>9. T!Busy = {}
  BY <1>6 DEF T!Busy
<1>10. TCosts
  <2>1. \A u \in Couple : TActives(u) = {}
    BY <1>6 DEF TActives, T!Active, T!KeysOf, T!Key
  <2> QED
    BY <1>3, <1>5, <2>1 DEF TCosts, TCosted
<1>11. TMirrors
  <2>1. \A u \in Couple : T!Mirrors(u) = {}
    BY <1>6 DEF T!Mirrors
  <2>2. \A u \in Couple : TMirrored(u)
    BY <1>3, <1>5, <2>1 DEF TMirrored
  <2> QED
    BY <1>6, <2>2 DEF TMirrors, TFixing
<1> QED
  BY <1>6, <1>7, <1>8, <1>9, <1>10, <1>11 DEF TInv, TApart, TSynced, TTolls

LEMMA TripsCount == \A s : T!Cardinality(s) = Cardinality(s)
BY DEF T!Cardinality, Cardinality

(* A trip whose costs are right is charged for each line once.             *)
LEMMA TripsOnce ==
  ASSUME NEW c, \A a \in c : a[1] \in T!Line, \A a, b \in c : a[1] = b[1] => a = b
  PROVE  Cardinality(c) = Cardinality({a[1] : a \in c})
<1> DEFINE f == [a \in c |-> a[1]]
           image == {a[1] : a \in c}
<1>1. IsFiniteSet(image)
  <2>1. T!Line = {"toll"} \cup {"other"} /\ IsFiniteSet({"toll"})
    BY FS_Singleton DEF T!Line
  <2>2. IsFiniteSet(T!Line)
    BY <2>1, FS_AddElement
  <2> QED
    BY <2>2, FS_Subset
<1>2. f \in Injection(c, image) /\ f \in Surjection(c, image)
  BY DEF Injection, Surjection, IsInjective
<1> HIDE DEF f, image
<1>3. Cardinality(c) = Cardinality(image)
  BY <1>1, <1>2, FS_Injection
<1> QED
  BY <1>3 DEF image

TLines(rows, side, d) == {<<k[2], side, d.lines[k[2]]>> : k \in rows}

LEMMA TripsLines ==
  ASSUME NEW t, NEW rows \in SUBSET T!KeysOf(t), NEW side, NEW d, NEW c,
         c = TLines(rows, side, d)
  PROVE  /\ {<<a[1], a[3]>> : a \in c} = {<<k[2], d.lines[k[2]]>> : k \in rows}
         /\ Cardinality(c) = Cardinality({a[1] : a \in c})
<1>0. c = {<<k[2], side, d.lines[k[2]]>> : k \in rows}
  BY DEF TLines
<1>1. \A k \in rows : k[2] \in T!Line
  BY DEF T!KeysOf
<1>2. \A a \in c : a[1] \in T!Line
  BY <1>0, <1>1
<1>3. \A a, b \in c : a[1] = b[1] => a = b
  BY <1>0
<1>4. Cardinality(c) = Cardinality({a[1] : a \in c})
  BY <1>2, <1>3, TripsOnce
<1>5. {<<a[1], a[3]>> : a \in c} = {<<k[2], d.lines[k[2]]>> : k \in rows}
  <2>1. ASSUME NEW k \in rows
        PROVE  <<k[2], d.lines[k[2]]>> \in {<<a[1], a[3]>> : a \in c}
    <3>1. PICK a \in c : a = <<k[2], side, d.lines[k[2]]>>
      BY <1>0
    <3>2. a[1] = k[2] /\ a[3] = d.lines[k[2]]
      BY <3>1
    <3> QED
      BY <3>2
  <2>2. ASSUME NEW a \in c
        PROVE  <<a[1], a[3]>> \in {<<k[2], d.lines[k[2]]>> : k \in rows}
    <3>1. PICK k \in rows : a = <<k[2], side, d.lines[k[2]]>>
      BY <1>0
    <3>2. a[1] = k[2] /\ a[3] = d.lines[k[2]]
      BY <3>1
    <3> QED
      BY <3>2
  <2> QED
    BY <2>1, <2>2
<1> QED
  BY <1>4, <1>5

LEMMA TripsCharged == \A t \in Couple : TCosted(t) => T!ChargedOnce(t)
<1> SUFFICES ASSUME NEW t \in Couple, TCosted(t)
             PROVE  T!ChargedOnce(t)
  OBVIOUS
<1>1. PICK d : d = v1[t]
  OBVIOUS
<1>2. /\ T!Costs(t, d) = {<<k[2], d.lines[k[2]]>> : k \in T!Desired(t, d)}
      /\ T!Desired(t, d) \subseteq T!KeysOf(t)
  BY DEF T!Costs, T!Desired
<1>3. T!Charged(t) =
        {<<k[2], "expense", v2[k].amount>> : k \in TActives(t)}
        \cup
        IF T!Live(t) /\ ~d.has_canonical
        THEN {<<k[2], "trip", d.lines[k[2]]>> : k \in T!Desired(t, d)} ELSE {}
  BY <1>1 DEF T!Charged, TActives
<1>4. ASSUME NEW rows \in SUBSET T!KeysOf(t), NEW side,
             T!Charged(t) = TLines(rows, side, d),
             rows = IF T!Live(t) THEN T!Desired(t, d) ELSE {}
      PROVE  T!ChargedOnce(t)
  <2>1. /\ {<<c[1], c[3]>> : c \in T!Charged(t)} = {<<k[2], d.lines[k[2]]>> : k \in rows}
        /\ Cardinality(T!Charged(t)) = Cardinality({c[1] : c \in T!Charged(t)})
    <3>1. PICK c : c = T!Charged(t)
      OBVIOUS
    <3>2. c = TLines(rows, side, d)
      BY <1>4, <3>1
    <3>3. /\ {<<a[1], a[3]>> : a \in c} = {<<k[2], d.lines[k[2]]>> : k \in rows}
          /\ Cardinality(c) = Cardinality({a[1] : a \in c})
      BY <1>4, <3>2, TripsLines
    <3> QED
      BY <3>1, <3>3
  <2>2. {<<k[2], d.lines[k[2]]>> : k \in rows} = IF T!Live(t) THEN T!Costs(t, d) ELSE {}
    BY <1>2, <1>4
  <2>3. {<<c[1], c[3]>> : c \in T!Charged(t)} = IF T!Live(t) THEN T!Costs(t, v1[t]) ELSE {}
    BY <1>1, <2>1, <2>2, Zenon
  <2> QED
    BY <2>1, <2>3, TripsCount, Zenon DEF T!ChargedOnce
<1>5. CASE TActives(t) = {} /\ (T!Live(t) => ~v1[t].has_canonical \/ T!Desired(t, v1[t]) = {})
  <2>1. T!Charged(t) = {<<k[2], "trip", d.lines[k[2]]>> : k \in IF T!Live(t) THEN T!Desired(t, d) ELSE {}}
    <3>1. CASE T!Live(t) /\ ~d.has_canonical
      BY <1>3, <1>5, <3>1
    <3>2. CASE T!Live(t) /\ T!Desired(t, d) = {}
      BY <1>3, <1>5, <3>2
    <3>3. CASE ~T!Live(t)
      BY <1>3, <1>5, <3>3
    <3> QED
      BY <1>1, <1>5, <3>1, <3>2, <3>3
  <2>2. PICK rows \in SUBSET T!KeysOf(t) : rows = IF T!Live(t) THEN T!Desired(t, d) ELSE {}
    BY <1>2
  <2>3. PICK side : T!Charged(t) = TLines(rows, side, d)
    BY <2>1, <2>2 DEF TLines
  <2> QED
    BY <1>4, <2>2, <2>3
<1>6. CASE /\ T!Live(t) /\ v1[t].has_canonical /\ TActives(t) = T!Desired(t, v1[t])
           /\ \A k \in TActives(t) : v2[k].amount = v1[t].lines[k[2]]
  <2>1. T!Charged(t) = {<<k[2], "expense", v2[k].amount>> : k \in T!Desired(t, d)}
    BY <1>1, <1>3, <1>6
  <2>2. \A k \in T!Desired(t, d) : v2[k].amount = d.lines[k[2]]
    BY <1>1, <1>6
  <2>3. T!Charged(t) = TLines(T!Desired(t, d), "expense", d)
    BY <2>1, <2>2 DEF TLines
  <2> QED
    BY <1>2, <1>4, <1>6, <2>3
<1> QED
  BY <1>5, <1>6 DEF TCosted

LEMMA TripsMean ==
  ASSUME TInv
  PROVE  T!TripsAgree
<1>1. T!Busy = {} => \A r \in Two : pc[r] \in {"new", "done"}
  BY DEF T!Busy
<1>2. T!TripCostsOnce
  <2> SUFFICES ASSUME T!Busy = {}, marred = {}, NEW t \in Couple
               PROVE  TCosted(t)
    BY TripsCharged DEF T!TripCostsOnce
  <2> QED
    BY <1>1 DEF TInv, TCosts, TCosting
<1>3. T!RecoveryMirrored
  <2> SUFFICES ASSUME T!Busy = {}, marred \subseteq {"expense_deleted"}, NEW t \in Couple
               PROVE  T!Mirrored(t) /\ Cardinality(T!Mirrors(t)) <= 1
    BY TripsCount, Zenon DEF T!RecoveryMirrored
  <2>1. TMirrored(t)
    BY <1>1 DEF TInv, TMirrors, TMirroring
  <2>2. CASE T!Live(t) /\ v1[t].recovery > 0
    <3>1. PICK e \in T!Entry : /\ T!Mirrors(t) = {e} /\ v4[e].driver = v1[t].driver
                               /\ v4[e].amount = v1[t].recovery
      BY <2>1, <2>2 DEF TMirrored
    <3>2. T!Mirrored(t)
      BY <2>2, <3>1 DEF T!Mirrored
    <3> QED
      BY <3>1, <3>2, FS_Singleton
  <2>3. CASE ~(T!Live(t) /\ v1[t].recovery > 0)
    <3>1. T!Mirrors(t) = {}
      BY <2>1, <2>3 DEF TMirrored
    <3>2. T!Mirrored(t)
      BY <2>3, <3>1 DEF T!Mirrored
    <3> QED
      BY <3>1, <3>2, FS_EmptySet
  <2> QED
    BY <2>2, <2>3
<1>4. T!TollHasTrip
  BY <1>1 DEF TInv, TTolls, T!TollHasTrip
<1> QED
  BY <1>2, <1>3, <1>4 DEF T!TripsAgree

(* Only the flag ends a sync, and a request that has met nobody leaves the *)
(* costs of its trip right.                                                *)
LEMMA TripsHeal ==
  ASSUME TInv, NEW r \in Two, TStep(r)
  PROVE  T!Healed
<1>1. (\A t \in Couple : TCosted(t) => T!ChargedOnce(t))'
  BY TripsCharged, PTL
<1> SUFFICES ASSUME NEW s \in Two \ v5, NEW t \in Couple,
                    pc[s] = "remove", pc'[s] = "mirror", hand[s].trip = t
             PROVE  T!ChargedOnce(t)'
  BY DEF T!Healed
<1>2. s = r
  BY TripsLone DEF TInv, TOthers
<1>3. T!SetFlag(r)
  <2>1. TTyped /\ pc[r] = "remove" /\ pc'[r] = "mirror"
    BY <1>2 DEF TInv
  <2>2. ~T!Start(r)
    BY <2>1, TripsStart, TripsBegun
  <2>3. ASSUME NEW to \in {"done", "remove"}, NEW from, NEW what, T!Goto(r, from, to, what)
        PROVE  FALSE
    BY <2>1, <2>3 DEF T!Goto, TTyped
  <2>4. ~T!RemoveRow(r)
    BY <2>3 DEF T!RemoveRow
  <2>5. ~T!Die(r)
    BY <2>1 DEF T!Die, TTyped
  <2> QED
    BY <2>1, <2>2, <2>4, <2>5
       DEF TStep, T!Step, T!WriteTrip, T!ReadRows, T!UpsertRow, T!RowsDone,
           T!MirrorNothing, T!MirrorFind, T!MirrorUpdate, T!MirrorDrop, T!MirrorInsert,
           T!DropOldDriver, T!DeleteTrip, T!DeleteRows, T!Unlink, T!DeleteMirror, T!BulkDelete,
           T!CopyInsert, T!ExpenseDelete, T!LinkWrite, T!Goto
<1>4. TCosted(t)'
  BY <1>2, <1>3, TripsFlagged
<1> QED
  BY <1>1, <1>4

-----------------------------------------------------------------------------
(* The router to Node.                                                     *)

(* What the router has last seen of the kill file is what it is, or it has *)
(* changed since.                                                          *)
RSteps == {"new", "node", "python", "by node", "by python", "error"}
RSeen == v5 = v3 \/ v6 <= v4
RInv ==
  /\ v2 \in Nat /\ v4 \in 0 .. v2 /\ v6 \in 0 .. v2
  /\ v3 \in BOOLEAN /\ v5 \in BOOLEAN /\ pc \in [Three -> RSteps] /\ hand \in [Three -> Routes \cup {"none"}]
  /\ RSeen

LEMMA RouterKept ==
  ASSUME RInv, R!Next \/ UNCHANGED R!vars
  PROVE  RInv'
<1> USE DEF RInv, RSeen
<1>1. CASE R!Kill
  BY <1>1 DEF R!Kill
<1>2. CASE R!Tick
  BY <1>2 DEF R!Tick
<1>3. ASSUME NEW r \in Three, NEW m \in {"GET", "POST"}, NEW t \in Routes, R!Decide(r, m, t)
      PROVE  RInv'
  <2>1. /\ pc' = [pc EXCEPT ![r] = "node"] \/ pc' = [pc EXCEPT ![r] = "python"]
        /\ hand' = [hand EXCEPT ![r] = t] \/ hand' = [hand EXCEPT ![r] = "none"]
        /\ UNCHANGED <<v2, v3, v4>>
        /\ UNCHANGED <<v5, v6>> \/ (v5' = R!Killed /\ v6' = IF v2 - v6 > RouterTtl THEN v2 ELSE v6)
    BY <1>3 DEF R!Decide, R!Look
  <2>2. pc' \in [Three -> RSteps]
    <3>1. "node" \in RSteps /\ "python" \in RSteps
      BY DEF RSteps
    <3> QED
      BY <2>1, <3>1
  <2>4. hand' \in [Three -> Routes \cup {"none"}]
    BY <2>1
  <2>3. v5' \in BOOLEAN /\ v6' \in 0 .. v2 /\ (v5' = v3 \/ v6' <= v4)
    BY <2>1 DEF R!Killed
  <2> QED
    BY <2>1, <2>2, <2>3, <2>4
<1>4. ASSUME NEW r \in Three, R!NodeAnswers(r) \/ R!NodeFails(r) \/ R!Raises(r) \/ R!PythonAnswers(r)
      PROVE  RInv'
  <2>1. UNCHANGED <<v2, v3, v4, v5, v6, hand>> /\ \E at \in RSteps : pc' = [pc EXCEPT ![r] = at]
    <3> HIDE DEF RInv, RSeen
    <3>1. "by node" \in RSteps /\ "by python" \in RSteps /\ "python" \in RSteps /\ "error" \in RSteps
      BY DEF RSteps
    <3> QED
      BY <1>4, <3>1 DEF R!NodeAnswers, R!NodeFails, R!Raises, R!PythonAnswers
  <2>2. pc' \in [Three -> RSteps]
    BY <2>1
  <2> QED
    BY <2>1, <2>2
<1>5. CASE UNCHANGED R!vars
  BY <1>5 DEF R!vars
<1> QED
  BY <1>1, <1>2, <1>3, <1>4, <1>5 DEF R!Next

LEMMA RouterBegin ==
  ASSUME R!Init
  PROVE  RInv
<1>1. v2 = RouterTtl + 1 /\ v4 = 0 /\ v6 = 0 /\ v3 \in BOOLEAN /\ v5 = FALSE
  BY DEF R!Init, R!Start
<1>2. pc \in [Three -> RSteps] /\ hand \in [Three -> Routes \cup {"none"}]
  BY DEF R!Init, RSteps
<1>3. v2 \in Nat /\ v4 \in 0 .. v2 /\ v6 \in 0 .. v2 /\ v6 <= v4
  BY <1>1, OfficeRouter
<1>4. v3 \in BOOLEAN /\ v5 \in BOOLEAN
  BY <1>1
<1> QED
  BY <1>2, <1>3, <1>4 DEF RInv, RSeen

LEMMA RouterHeeds ==
  ASSUME RInv, R!Next \/ UNCHANGED R!vars
  PROVE  R!KillHeeded
<1> SUFFICES ASSUME NEW r \in Three, pc[r] = "new", pc'[r] = "node"
             PROVE  /\ ~(v3 /\ v2 - v4 > RouterTtl)
                    /\ hand'[r] \in v1.allowed \ v1.deferred
  BY DEF R!KillHeeded
<1>1. PICK m \in {"GET", "POST"}, t \in Routes : R!Decide(r, m, t)
  <2>1. ASSUME NEW q \in Three, R!NodeAnswers(q) \/ R!NodeFails(q) \/ R!Raises(q) \/ R!PythonAnswers(q)
        PROVE  FALSE
    BY <2>1 DEF RInv, R!NodeAnswers, R!NodeFails, R!Raises, R!PythonAnswers
  <2>2. ASSUME NEW q \in Three, NEW m \in {"GET", "POST"}, NEW t \in Routes, R!Decide(q, m, t), q # r
        PROVE  FALSE
    BY <2>2 DEF RInv, R!Decide
  <2>3. ~R!Kill /\ ~R!Tick /\ ~UNCHANGED R!vars
    BY DEF R!Kill, R!Tick, R!vars
  <2> QED
    BY <2>1, <2>2, <2>3 DEF R!Next
<1>2. hand'[r] = t /\ ~R!Killed /\ t \in R!Eligible(v1)
  <2>1. R!Possible(m) /\ R!Forwards(t)
    BY <1>1 DEF R!Decide, RInv
  <2> QED
    BY <1>1, <2>1 DEF R!Decide, R!Forwards, RInv
<1>3. t \in v1.allowed \ v1.deferred
  BY <1>2 DEF R!Eligible, R!Problem, R!Wanted
<1>4. ~(v3 /\ v2 - v4 > RouterTtl)
  BY <1>2, OfficeRouter DEF R!Killed, RInv, RSeen
<1> QED
  BY <1>2, <1>3, <1>4

-----------------------------------------------------------------------------
(* The ledger of a driver.                                                 *)

DPlaces == {"idle", "close", "count", "insert", "look", "write", "done"}
DTypes == {"salary", "settlement"}
DMaster ==
  [id : Three, version : Nat, salary : Nat, from : D!Day, to : Nat]
DEntry ==
  [id : Three \cup DriverManual, day : D!Day, month : Nat, type : DTypes \cup {"advance"},
   amount : Nat, source : {"system", "manual"}, dir : {"credit", "debit"}]
DAsked ==
  [from : D!Day, to : {D!Open, D!Horizon}, salary : Nat, prior : Three \cup {nothing}, count : Nat]
DWanted == [month : DriverMonth, amount : Nat]
DPosted ==
  [type : DTypes, month : DriverMonth, amount : Nat, entry : Three \cup {nothing}]

(* What a request has in hand where it is.                                 *)
DHeld(r) ==
  /\ pc[r] \in {"close", "count", "insert"} => hand[r] \in DAsked
  /\ pc[r] = "look" => hand[r] \in DWanted
  /\ pc[r] = "write" => hand[r] \in DPosted

DTyped ==
  /\ v1 \in SUBSET DMaster /\ IsFiniteSet(v1)
  /\ v2 \in SUBSET DEntry /\ IsFiniteSet(v2)
  /\ pc \in [Three -> DPlaces] /\ DOMAIN hand = Three
  /\ v3 \in BOOLEAN
  /\ \A r \in Three : DHeld(r)

(* A salary has the id of the request that has entered it, and the one to  *)
(* be closed begins before the new one.                                    *)
DMasters ==
  /\ \A k, n \in v1 : k.id = n.id => k = n
  /\ \A k \in v1 : pc[k.id] = "done"
  /\ \A k \in v1, r \in Three : pc[r] = "close" /\ hand[r].prior = k.id => k.from < hand[r].from
  /\ \A r \in Three : pc[r] = "close" /\ hand[r].prior # nothing => pc[hand[r].prior] = "done"

(* A salary that has ended has another after it, or one that is coming.    *)
DAfter(ms, k, x) == \E n \in ms : k.from < n.from /\ n.from <= x /\ x <= n.to
DComing(k, x) ==
  \E r \in Three : pc[r] \in {"count", "insert"} /\ k.from < hand[r].from /\ hand[r].from <= x
DCovered ==
  v3 \/ \A k \in v1, x \in D!Day : k.from <= x /\ k.to < x => DAfter(v1, k, x) \/ DComing(k, x)

(* Whose entries there are, and which one a request will write over.       *)
DEntries ==
  /\ \A e, f \in v2 : e.id = f.id => e = f
  /\ \A e \in v2 : e.source = "system" => e.id \in Three /\ pc[e.id] = "done"
  /\ \A e \in v2 : e.source = "manual" => e.id \in DriverManual
  /\ \A r \in Three : pc[r] = "write" /\ hand[r].entry # nothing =>
       /\ pc[hand[r].entry] = "done"
       /\ \A e \in v2 : e.id = hand[r].entry =>
            e.source = "system" /\ e.type = hand[r].type /\ e.month = hand[r].month

(* The entry of a month, and the request that will write it, are one.      *)
DWriting(r, t, m) == pc[r] = "write" /\ hand[r].type = t /\ hand[r].month = m
DOnce ==
  \A t \in DTypes, m \in DriverMonth : <<t, m>> \notin marred =>
    /\ \A e, f \in D!OfMonth(t, m) : e = f
    /\ \A r, q \in Three : DWriting(r, t, m) /\ DWriting(q, t, m) => r = q
    /\ \A r \in Three, e \in D!OfMonth(t, m) : DWriting(r, t, m) => hand[r].entry = e.id

DInv == DTyped /\ DMasters /\ DCovered /\ DEntries /\ DOnce

(* Days and months.                                                        *)
LEMMA DriversDays ==
  /\ D!Horizon \in Nat /\ D!Open = D!Horizon + 1 /\ D!Day = 1 .. D!Horizon
  /\ DriverMonth \subseteq Nat
  /\ \A m \in DriverMonth : D!LastDay(m) \in D!Day /\ D!MonthOf(D!LastDay(m)) = m
  /\ \A d \in D!Day : D!MonthOf(d) \in DriverMonth
<1>1. PICK n \in Nat : DriverMonth = 1 .. n
  BY OfficeDrivers, FS_CardinalityType
<1>2. D!Cardinality(DriverMonth) = n
  <2>1. Cardinality(DriverMonth) = n
    BY <1>1, FS_Interval
  <2> QED
    BY <2>1 DEF D!Cardinality, Cardinality
<1>3. D!Horizon = 2 * n
  BY <1>2 DEF D!Horizon, D!LastDay
<1> QED
  BY <1>1, <1>3 DEF D!Open, D!Day, D!LastDay, D!MonthOf

(* A salary closed before day from keeps all days earlier than that: it    *)
(* may apply again on some of them, but only where another has since       *)
(* taken its place.                                                        *)
DClosed(ms, p, from) == {IF k.id = p THEN [k EXCEPT !.to = from - 1] ELSE k : k \in ms}
DIds(ms) == {k.id : k \in ms}

LEMMA DriversResolved ==
  ASSUME NEW ms \in SUBSET DMaster, NEW p, NEW from \in D!Day, NEW m \in DriverMonth,
         D!LastDay(m) < from,
         \A k, n \in ms : k.id = n.id => k = n,
         \A k \in ms : k.id = p /\ k.from <= D!LastDay(m) /\ k.to < D!LastDay(m)
                         => DAfter(ms, k, D!LastDay(m))
  PROVE  DIds(D!Resolved(DClosed(ms, p, from), m)) = DIds(D!Resolved(ms, m))
<1> DEFINE x == D!LastDay(m)
           F(k) == IF k.id = p THEN [k EXCEPT !.to = from - 1] ELSE k
           now == DClosed(ms, p, from)
           some == {k \in ms : D!Applies(k, x)}
<1>1. /\ now = {F(k) : k \in ms}
      /\ x \in Nat /\ from \in Nat /\ x < from
      /\ \A k \in ms : k.from \in Nat /\ k.to \in Nat /\ k.version \in Nat
  BY DriversDays DEF DMaster, DClosed
<1>2. \A k \in ms : /\ F(k).id = k.id /\ F(k).from = k.from /\ F(k).version = k.version
                    /\ F(k).to = IF k.id = p THEN from - 1 ELSE k.to
  BY DEF DMaster
<1>3. \A ns : D!Resolved(ns, m) =
        {k \in ns : D!Applies(k, x)
                    /\ \A n \in ns : D!Applies(n, x)
                         => n.from < k.from \/ (n.from = k.from /\ n.version <= k.version)}
  BY DEF D!Resolved
<1>4. \A k \in ms : D!Applies(F(k), x) <=> D!Applies(k, x) \/ (k.id = p /\ k.from <= x)
  BY <1>1, <1>2 DEF D!Applies
<1>5. \A k \in ms : D!Applies(F(k), x) /\ ~D!Applies(k, x) =>
        \E n \in ms : D!Applies(n, x) /\ k.from < n.from
  BY <1>1, <1>4 DEF D!Applies, DAfter
<1> HIDE DEF F, now, x
<1>6. ASSUME NEW k \in ms, F(k) \in D!Resolved(now, m)
      PROVE  k \in D!Resolved(ms, m)
  <2>1. /\ D!Applies(F(k), x)
        /\ \A n \in ms : D!Applies(F(n), x)
             => n.from < k.from \/ (n.from = k.from /\ n.version <= k.version)
    BY <1>1, <1>2, <1>3, <1>6
  <2>2. \A n \in ms : D!Applies(n, x)
          => n.from < k.from \/ (n.from = k.from /\ n.version <= k.version)
    BY <1>4, <2>1
  <2>3. D!Applies(k, x)
    BY <1>1, <1>5, <2>1, <2>2
  <2> QED
    BY <1>3, <2>2, <2>3
<1>7. ASSUME NEW k \in ms, k \in D!Resolved(ms, m)
      PROVE  F(k) \in D!Resolved(now, m)
  <2>1. /\ D!Applies(k, x)
        /\ \A n \in ms : D!Applies(n, x)
             => n.from < k.from \/ (n.from = k.from /\ n.version <= k.version)
    BY <1>3, <1>7
  <2>2. \A n \in ms : D!Applies(F(n), x)
          => n.from < k.from \/ (n.from = k.from /\ n.version <= k.version)
    <3> SUFFICES ASSUME NEW n \in ms, D!Applies(F(n), x), ~D!Applies(n, x)
                 PROVE  n.from < k.from
      BY <2>1
    <3>1. PICK o \in ms : D!Applies(o, x) /\ n.from < o.from
      BY <1>5
    <3> QED
      BY <1>1, <2>1, <3>1
  <2>3. \A n \in now : D!Applies(n, x)
          => n.from < F(k).from \/ (n.from = F(k).from /\ n.version <= F(k).version)
    BY <1>1, <1>2, <2>2
  <2>4. D!Applies(F(k), x) /\ F(k) \in now
    BY <1>1, <1>4, <2>1
  <2> QED
    BY <1>3, <2>3, <2>4
<1>8. \A ns : D!Resolved(ns, m) \subseteq ns
  BY <1>3
<1>9. DIds(D!Resolved(now, m)) \subseteq DIds(D!Resolved(ms, m))
  <2> SUFFICES ASSUME NEW c \in D!Resolved(now, m)
               PROVE  \E k \in D!Resolved(ms, m) : k.id = c.id
    BY DEF DIds
  <2>1. PICK k \in ms : c = F(k)
    BY <1>1, <1>8
  <2> QED
    BY <1>2, <1>6, <2>1
<1>10. DIds(D!Resolved(ms, m)) \subseteq DIds(D!Resolved(now, m))
  <2> SUFFICES ASSUME NEW k \in D!Resolved(ms, m)
               PROVE  \E c \in D!Resolved(now, m) : c.id = k.id
    BY DEF DIds
  <2> QED
    BY <1>2, <1>7, <1>8
<1> QED
  BY <1>9, <1>10 DEF now

(* A salary that begins later does not apply.                              *)
LEMMA DriversResolvedMore ==
  ASSUME NEW ms \in SUBSET DMaster, NEW k \in DMaster, NEW m \in DriverMonth,
         D!LastDay(m) < k.from
  PROVE  D!Resolved(ms \cup {k}, m) = D!Resolved(ms, m)
<1>1. ~D!Applies(k, D!LastDay(m))
  BY DriversDays DEF D!Applies, DMaster
<1>2. {n \in ms \cup {k} : D!Applies(n, D!LastDay(m))} = {n \in ms : D!Applies(n, D!LastDay(m))}
  BY <1>1
<1> QED
  BY <1>2 DEF D!Resolved

LEMMA DriversKeptIds ==
  ASSUME NEW m \in DriverMonth
  PROVE  /\ {k.id : k \in D!Resolved(v1, m)} = DIds(D!Resolved(v1, m))
         /\ {k.id : k \in D!Resolved(v1', m)} = DIds(D!Resolved(v1', m))
BY DEF DIds

(* A request moves on without writing anything.                            *)
LEMMA DriversMove ==
  ASSUME DInv, NEW r \in Three, NEW at \in DPlaces \ {"write"}, NEW what,
         UNCHANGED <<v1, v2, marred>>, v3' \in BOOLEAN, v3 => v3', pc[r] # "done",
         pc' = [pc EXCEPT ![r] = at], hand' = [hand EXCEPT ![r] = what],
         at \in {"close", "count", "insert"} => what \in DAsked,
         at = "look" => what \in DWanted,
         at = "close" => /\ \A k \in v1 : what.prior = k.id => k.from < what.from
                         /\ what.prior # nothing => pc[what.prior] = "done",
         pc[r] \in {"count", "insert"} /\ ~v3'
           => at \in {"count", "insert"} /\ what.from = hand[r].from
  PROVE  DInv' /\ D!PastSalaryKept
<1>1. /\ \A q \in Three \ {r} : pc'[q] = pc[q] /\ hand'[q] = hand[q]
      /\ pc'[r] = at /\ hand'[r] = what /\ DOMAIN hand' = Three /\ pc' \in [Three -> DPlaces]
  BY DEF DInv, DTyped
<1>2. v1' = v1 /\ v2' = v2 /\ marred' = marred
  OBVIOUS
<1>3. DTyped'
  BY <1>1, <1>2 DEF DInv, DTyped, DHeld
<1>4. DMasters'
  <2>1. \A k \in v1 : k.id \in Three
    BY DEF DInv, DTyped, DMaster
  <2>2. \A q \in Three : pc'[q] = "close" => hand'[q].prior \in Three \cup {nothing}
    BY <1>3 DEF DTyped, DHeld, DAsked
  <2>3. ASSUME NEW q \in Three, pc'[q] = "close", hand'[q].prior # nothing
        PROVE  pc'[hand'[q].prior] = "done"
    <3>1. hand'[q].prior \in Three
      BY <2>2, <2>3
    <3>2. pc[hand'[q].prior] = "done"
      BY <1>1, <2>3 DEF DInv, DMasters
    <3> QED
      BY <1>1, <3>1, <3>2
  <2> QED
    BY <1>1, <1>2, <2>1, <2>3 DEF DInv, DMasters
<1>5. DCovered'
  <2> SUFFICES ASSUME ~v3', NEW k \in v1, NEW x \in D!Day, k.from <= x, k.to < x,
                      ~DAfter(v1, k, x)
               PROVE  DComing(k, x)'
    BY <1>2 DEF DCovered
  <2>1. PICK q \in Three : /\ pc[q] \in {"count", "insert"}
                           /\ k.from < hand[q].from /\ hand[q].from <= x
    BY DEF DInv, DCovered, DComing
  <2>2. pc'[q] \in {"count", "insert"} /\ hand'[q].from = hand[q].from
    BY <1>1, <2>1
  <2> QED
    BY <2>1, <2>2 DEF DComing
<1>6. DEntries'
  <2>1. \A e \in v2 : e.source = "system" => e.id # r
    BY DEF DInv, DEntries
  <2>2. \A q \in Three : pc'[q] = "write" /\ hand'[q].entry # nothing
          => q # r /\ hand'[q].entry \in Three \ {r}
    BY <1>1 DEF DInv, DTyped, DHeld, DPosted, DEntries
  <2> QED
    BY <1>1, <1>2, <2>1, <2>2 DEF DInv, DEntries
<1>7. DOnce'
  <2>1. \A t, m : D!OfMonth(t, m)' = D!OfMonth(t, m)
    BY <1>2 DEF D!OfMonth
  <2>2. \A t, m : \A q \in Three : DWriting(q, t, m)' => q # r /\ DWriting(q, t, m)
    BY <1>1 DEF DWriting
  <2> QED
    BY <1>1, <1>2, <2>1, <2>2 DEF DInv, DOnce
<1>8. D!PastSalaryKept
  BY <1>2 DEF D!PastSalaryKept
<1> QED
  BY <1>3, <1>4, <1>5, <1>6, <1>7, <1>8 DEF DInv

LEMMA DriversFind ==
  ASSUME DInv, NEW r \in Three, NEW from \in DriverStart, NEW to \in {D!Open, D!Horizon},
         NEW salary \in DriverSalary, D!MasterFind(r, from, to, salary)
  PROVE  DInv' /\ D!PastSalaryKept
<1>1. /\ D!Prior(from) \subseteq v1 /\ \A k \in D!Prior(from) : k.from < from
  BY DEF D!Prior
<1>2. PICK p \in IF D!Prior(from) = {} THEN {nothing} ELSE {k.id : k \in D!Prior(from)} :
        D!Begin(r, "close", [from |-> from, to |-> to, salary |-> salary, prior |-> p, count |-> 0])
  BY DEF D!MasterFind
<1> DEFINE what == [from |-> from, to |-> to, salary |-> salary, prior |-> p, count |-> 0]
<1>3. what \in DAsked
  <2>1. p \in Three \cup {nothing}
    BY <1>1, <1>2 DEF DInv, DTyped, DMaster
  <2> QED
    BY <2>1, OfficeDrivers DEF DAsked
<1>4. /\ \A k \in v1 : what.prior = k.id => k.from < what.from
      /\ what.prior # nothing => pc[what.prior] = "done"
  <2>0. p # nothing => pc[p] = "done"
    BY <1>1, <1>2 DEF DInv, DMasters
  <2> SUFFICES ASSUME NEW k \in v1, p = k.id
               PROVE  k.from < from
    BY <2>0
  <2>1. p # nothing
    BY OfficeDrivers DEF DInv, DTyped, DMaster
  <2>2. PICK n \in D!Prior(from) : p = n.id
    BY <1>2, <2>1
  <2>3. n = k
    BY <1>1, <2>2 DEF DInv, DMasters
  <2> QED
    BY <1>1, <2>2, <2>3
<1> HIDE DEF what
<1>5. /\ UNCHANGED <<v1, v2, v3, marred>> /\ pc[r] = "idle"
      /\ pc' = [pc EXCEPT ![r] = "close"] /\ hand' = [hand EXCEPT ![r] = what]
  BY <1>2 DEF D!MasterFind, D!Begin, what
<1>6. v3' \in BOOLEAN /\ "close" \in DPlaces \ {"write"}
  BY <1>5 DEF DInv, DTyped, DPlaces
<1> QED
  BY <1>3, <1>4, <1>5, <1>6, DriversMove

LEMMA DriversCount ==
  ASSUME DInv, NEW r \in Three, D!MasterCount(r)
  PROVE  DInv' /\ D!PastSalaryKept
<1> DEFINE what == [hand[r] EXCEPT !.count = D!Cardinality(v1)]
<1>1. /\ UNCHANGED <<v1, v2, v3, marred>> /\ pc[r] = "count"
      /\ pc' = [pc EXCEPT ![r] = "insert"] /\ hand' = [hand EXCEPT ![r] = what]
  BY DEF D!MasterCount, D!Goto
<1>2. D!Cardinality(v1) \in Nat
  <2>1. Cardinality(v1) \in Nat
    BY FS_CardinalityType DEF DInv, DTyped
  <2> QED
    BY <2>1 DEF D!Cardinality, Cardinality
<1>3. what \in DAsked /\ what.from = hand[r].from
  BY <1>1, <1>2 DEF DInv, DTyped, DHeld, DAsked
<1> HIDE DEF what
<1>4. v3' \in BOOLEAN /\ "insert" \in DPlaces \ {"write"}
  BY <1>1 DEF DInv, DTyped, DPlaces
<1> QED
  BY <1>1, <1>3, <1>4, DriversMove

LEMMA DriversResolve ==
  ASSUME DInv, NEW r \in Three, NEW m \in DriverMonth, D!SalaryResolve(r, m)
  PROVE  DInv' /\ D!PastSalaryKept
<1>1. PICK k \in D!Resolved(v1, m) : D!Begin(r, "look", [month |-> m, amount |-> k.salary])
  BY DEF D!SalaryResolve
<1> DEFINE what == [month |-> m, amount |-> k.salary]
<1>2. k \in v1
  BY DEF D!Resolved
<1>3. what \in DWanted
  BY <1>2 DEF DWanted, DInv, DTyped, DMaster
<1>4. /\ UNCHANGED <<v1, v2, v3, marred>> /\ pc[r] = "idle"
      /\ pc' = [pc EXCEPT ![r] = "look"] /\ hand' = [hand EXCEPT ![r] = what]
  BY <1>1 DEF D!SalaryResolve, D!Begin
<1>5. v3' \in BOOLEAN /\ "look" \in DPlaces \ {"write"}
  BY <1>4 DEF DInv, DTyped, DPlaces
<1> HIDE DEF what
<1> QED
  BY <1>3, <1>4, <1>5, DriversMove

LEMMA DriversDie ==
  ASSUME DInv, NEW r \in Three, D!Die(r)
  PROVE  DInv' /\ D!PastSalaryKept
<1>1. /\ UNCHANGED <<v1, v2, marred>> /\ pc[r] # "done"
      /\ v3' = (v3 \/ pc[r] \in {"count", "insert"})
      /\ pc' = [pc EXCEPT ![r] = "done"] /\ hand' = [hand EXCEPT ![r] = nothing]
  BY DEF D!Die, D!Finish, D!Goto
<1>2. v3' \in BOOLEAN /\ (v3 => v3') /\ "done" \in DPlaces \ {"write"}
  BY <1>1 DEF DInv, DTyped, DPlaces
<1> QED
  BY <1>1, <1>2, DriversMove

(* The salary before is closed.                                            *)
LEMMA DriversClose ==
  ASSUME DInv, NEW r \in Three, D!MasterClose(r)
  PROVE  DInv' /\ D!PastSalaryKept
<1> DEFINE p == hand[r].prior
           from == hand[r].from
           F(k) == IF k.id = p THEN [k EXCEPT !.to = from - 1] ELSE k
<1>1. /\ pc[r] = "close" /\ pc' = [pc EXCEPT ![r] = "count"]
      /\ UNCHANGED <<v2, v3, hand, marred>>
      /\ v1' = DClosed(v1, p, from)
  BY DEF D!MasterClose, D!Goto, D!CloseAt, DClosed
<1>2. hand[r] \in DAsked /\ from \in D!Day /\ from \in Nat /\ from - 1 \in Nat
  BY <1>1, DriversDays DEF DInv, DTyped, DHeld, DAsked
<1>3. /\ v1' = {F(k) : k \in v1}
      /\ \A k \in v1 : /\ F(k) \in DMaster /\ F(k).id = k.id /\ F(k).from = k.from
                       /\ F(k).to = IF k.id = p THEN from - 1 ELSE k.to
                       /\ k.from \in Nat /\ k.to \in Nat /\ k.id \in Three
  <2>1. v1' = {F(k) : k \in v1}
    BY <1>1 DEF DClosed
  <2>2. \A k \in v1 : /\ F(k) \in DMaster /\ F(k).id = k.id /\ F(k).from = k.from
                      /\ F(k).to = IF k.id = p THEN from - 1 ELSE k.to
                      /\ k.to \in Nat /\ k.id \in Three
    BY <1>2 DEF DInv, DTyped, DMaster
  <2>3. \A k \in v1 : k.from \in Nat
    BY DriversDays DEF DInv, DTyped, DMaster
  <2> QED
    BY <2>1, <2>2, <2>3
<1>4. /\ \A q \in Three : q # r => pc'[q] = pc[q]
      /\ \A q \in Three : hand'[q] = hand[q]
      /\ pc'[r] = "count" /\ DOMAIN hand' = Three /\ pc' \in [Three -> DPlaces]
  BY <1>1 DEF DInv, DTyped, DPlaces
<1> HIDE DEF F
<1>5. DTyped'
  <2>1. IsFiniteSet(v1')
    <3> DEFINE f == [k \in v1 |-> F(k)]
    <3>1. v1' = {f[k] : k \in v1}
      BY <1>3
    <3>2. f \in Surjection(v1, v1')
      BY <3>1 DEF Surjection
    <3> QED
      BY <3>2, FS_Surjection DEF DInv, DTyped
  <2>2. v1' \in SUBSET DMaster
    BY <1>3
  <2>3. \A q \in Three : DHeld(q)'
    BY <1>1, <1>4 DEF DInv, DTyped, DHeld
  <2> QED
    BY <1>1, <1>4, <2>1, <2>2, <2>3 DEF DInv, DTyped
<1>6. DMasters'
  <2>1. \A k, n \in v1' : k.id = n.id => k = n
    BY <1>3 DEF DInv, DMasters
  <2>2. \A k \in v1' : pc'[k.id] = "done"
    BY <1>1, <1>3, <1>4 DEF DInv, DMasters
  <2>3. \A k \in v1', q \in Three : pc'[q] = "close" /\ hand'[q].prior = k.id => k.from < hand'[q].from
    BY <1>1, <1>3, <1>4 DEF DInv, DMasters
  <2>4. ASSUME NEW q \in Three, pc'[q] = "close", hand'[q].prior # nothing
        PROVE  pc'[hand'[q].prior] = "done"
    <3>1. pc[q] = "close" /\ hand'[q] = hand[q] /\ hand[q].prior \in Three
      BY <1>1, <1>4, <2>4 DEF DInv, DTyped, DHeld, DAsked
    <3>2. pc[hand[q].prior] = "done"
      BY <2>4, <3>1 DEF DInv, DMasters
    <3> QED
      BY <1>1, <1>4, <3>1, <3>2
  <2> QED
    BY <2>1, <2>2, <2>3, <2>4 DEF DMasters
<1>7. DCovered'
  <2> SUFFICES ASSUME ~v3', NEW c \in v1', NEW x \in D!Day, c.from <= x, c.to < x
               PROVE  DAfter(v1', c, x) \/ DComing(c, x)'
    BY DEF DCovered
  <2>1. PICK k \in v1 : c = F(k)
    BY <1>3
  <2>2. x \in Nat /\ k.from <= x
    BY <1>3, <2>1, DriversDays
  <2>3. CASE k.id = p /\ from <= x
    <3>1. k.from < from
      BY <1>1, <2>3 DEF DInv, DMasters
    <3> QED
      BY <1>3, <1>4, <2>1, <2>3, <3>1 DEF DComing
  <2>4. CASE ~(k.id = p /\ from <= x)
    <3>1. k.to < x
      <4>1. k.id # p
        BY <1>2, <1>3, <2>1, <2>2, <2>4
      <4> QED
        BY <1>3, <2>1, <4>1
    <3>2. DAfter(v1, k, x) \/ DComing(k, x)
      BY <1>1, <2>2, <3>1 DEF DInv, DCovered
    <3>3. CASE DComing(k, x)
      <4>1. PICK q \in Three : /\ pc[q] \in {"count", "insert"}
                               /\ k.from < hand[q].from /\ hand[q].from <= x
        BY <3>3 DEF DComing
      <4>2. pc'[q] \in {"count", "insert"} /\ hand'[q].from = hand[q].from
        BY <1>1, <1>4, <4>1
      <4> QED
        BY <1>3, <2>1, <4>1, <4>2 DEF DComing
    <3>4. ASSUME NEW n \in v1, k.from < n.from, n.from <= x, x <= n.to
          PROVE  DAfter(v1', c, x) \/ DComing(c, x)'
      <4>1. CASE n.id = p /\ from <= x
        <5>1. n.from < from
          BY <1>1, <4>1 DEF DInv, DMasters
        <5>2. k.from < from
          BY <1>2, <1>3, <3>4, <5>1
        <5> QED
          BY <1>3, <1>4, <2>1, <4>1, <5>2 DEF DComing
      <4>2. CASE ~(n.id = p /\ from <= x)
        <5>1. x <= F(n).to
          BY <1>2, <1>3, <2>2, <3>4, <4>2
        <5> QED
          BY <1>3, <2>1, <3>4, <5>1 DEF DAfter
      <4> QED
        BY <4>1, <4>2
    <3> QED
      BY <3>2, <3>3, <3>4 DEF DAfter
  <2> QED
    BY <2>3, <2>4
<1>8. DEntries'
  <2>1. \A q \in Three : pc[q] = "done" => pc'[q] = "done"
    BY <1>1, <1>4
  <2>2. \A q \in Three : pc'[q] = "write" => pc[q] = "write"
    BY <1>1, <1>4
  <2>3. \A q \in Three : pc[q] = "write" /\ hand[q].entry # nothing => hand[q].entry \in Three
    BY DEF DInv, DTyped, DHeld, DPosted
  <2> QED
    BY <1>1, <1>4, <2>1, <2>2, <2>3 DEF DInv, DEntries
<1>9. DOnce'
  <2>1. \A t, m : D!OfMonth(t, m)' = D!OfMonth(t, m)
    BY <1>1 DEF D!OfMonth
  <2>2. \A t, m : \A q \in Three : DWriting(q, t, m)' => DWriting(q, t, m)
    BY <1>1, <1>4 DEF DWriting
  <2> QED
    BY <1>1, <2>1, <2>2 DEF DInv, DOnce
<1>10. D!PastSalaryKept
  <2> SUFFICES ASSUME NEW m \in DriverMonth, ~v3, ~D!Coming(m, {"close", "count", "insert"})
               PROVE  DIds(D!Resolved(v1', m)) = DIds(D!Resolved(v1, m))
    BY DriversKeptIds DEF D!PastSalaryKept
  <2>1. D!LastDay(m) \in D!Day /\ D!LastDay(m) \in Nat
    BY DriversDays
  <2>2. D!LastDay(m) < from
    BY <1>1, <1>2, <2>1 DEF D!Coming
  <2>3. \A k \in v1 : k.from <= D!LastDay(m) /\ k.to < D!LastDay(m) => DAfter(v1, k, D!LastDay(m))
    BY <2>1 DEF DInv, DCovered, DComing, D!Coming
  <2> QED
    BY <1>1, <1>2, <2>2, <2>3, DriversResolved DEF DInv, DTyped, DMasters
<1> QED
  BY <1>5, <1>6, <1>7, <1>8, <1>9, <1>10 DEF DInv

(* The new salary is entered.                                              *)
LEMMA DriversInsert ==
  ASSUME DInv, NEW r \in Three, D!MasterInsert(r)
  PROVE  DInv' /\ D!PastSalaryKept
<1> DEFINE new == [id |-> r, version |-> hand[r].count + 1, salary |-> hand[r].salary,
                   from |-> hand[r].from, to |-> hand[r].to]
<1>1. /\ pc[r] = "insert" /\ pc' = [pc EXCEPT ![r] = "done"]
      /\ hand' = [hand EXCEPT ![r] = nothing]
      /\ UNCHANGED <<v2, v3, marred>>
      /\ v1' = v1 \cup {new}
  BY DEF D!MasterInsert, D!Finish, D!Goto
<1>2. /\ new \in DMaster /\ new.id = r /\ new.from = hand[r].from
      /\ new.to \in {D!Open, D!Horizon}
  BY <1>1, DriversDays DEF DInv, DTyped, DHeld, DAsked, DMaster
<1> HIDE DEF new
<1>3. /\ \A q \in Three \ {r} : pc'[q] = pc[q] /\ hand'[q] = hand[q]
      /\ pc'[r] = "done" /\ DOMAIN hand' = Three /\ pc' \in [Three -> DPlaces]
  BY <1>1 DEF DInv, DTyped, DPlaces
<1>4. \A k \in v1 : k.id \in Three \ {r} /\ k.from \in Nat
  <2>1. \A k \in v1 : k.id \in Three /\ k.from \in D!Day /\ pc[k.id] = "done"
    BY DEF DInv, DTyped, DMaster, DMasters
  <2> QED
    BY <1>1, <2>1, DriversDays
<1>5. DTyped'
  <2>1. IsFiniteSet(v1') /\ v1' \in SUBSET DMaster
    BY <1>1, <1>2, FS_AddElement DEF DInv, DTyped
  <2> QED
    BY <1>1, <1>3, <2>1 DEF DInv, DTyped, DHeld
<1>6. DMasters'
  <2>1. \A k, n \in v1' : k.id = n.id => k = n
    BY <1>1, <1>2, <1>4 DEF DInv, DMasters
  <2>2. \A k \in v1' : pc'[k.id] = "done"
    BY <1>1, <1>2, <1>3, <1>4 DEF DInv, DMasters
  <2>3. ASSUME NEW q \in Three, pc'[q] = "close"
        PROVE  /\ q # r /\ pc[q] = "close" /\ hand'[q] = hand[q]
               /\ hand[q].prior \in (Three \ {r}) \cup {nothing}
               /\ hand[q].prior # nothing => pc'[hand[q].prior] = "done"
    <3>1. q # r /\ pc[q] = "close" /\ hand'[q] = hand[q]
      BY <1>3, <2>3
    <3>2. hand[q].prior \in Three \cup {nothing}
      BY <3>1 DEF DInv, DTyped, DHeld, DAsked
    <3>3. hand[q].prior # nothing => pc[hand[q].prior] = "done"
      BY <3>1 DEF DInv, DMasters
    <3> QED
      BY <1>1, <1>3, <3>1, <3>2, <3>3
  <2>4. ASSUME NEW k \in v1', NEW q \in Three, pc'[q] = "close", hand'[q].prior = k.id
        PROVE  k.from < hand'[q].from
    <3>1. k \in v1
      BY <1>1, <1>2, <2>3, <2>4, OfficeDrivers
    <3> QED
      BY <2>3, <2>4, <3>1 DEF DInv, DMasters
  <2> QED
    BY <2>1, <2>2, <2>3, <2>4 DEF DMasters
<1>7. DCovered'
  <2> SUFFICES ASSUME ~v3', NEW k \in v1', NEW x \in D!Day, k.from <= x, k.to < x
               PROVE  DAfter(v1', k, x) \/ DComing(k, x)'
    BY DEF DCovered
  <2>1. k # new
    BY <1>2, DriversDays
  <2>2. DAfter(v1, k, x) \/ DComing(k, x)
    BY <1>1, <2>1 DEF DInv, DCovered
  <2>3. CASE DAfter(v1, k, x)
    BY <1>1, <2>3 DEF DAfter
  <2>4. ASSUME NEW q \in Three, pc[q] \in {"count", "insert"}, k.from < hand[q].from,
               hand[q].from <= x
        PROVE  DAfter(v1', k, x) \/ DComing(k, x)'
    <3>1. CASE q = r
      <4>1. x <= new.to
        BY <1>2, DriversDays
      <4> QED
        BY <1>1, <1>2, <2>4, <3>1, <4>1 DEF DAfter
    <3>2. CASE q # r
      BY <1>3, <2>4, <3>2 DEF DComing
    <3> QED
      BY <3>1, <3>2
  <2> QED
    BY <2>2, <2>3, <2>4 DEF DComing
<1>8. DEntries'
  <2>1. \A q \in Three : pc[q] = "done" => pc'[q] = "done"
    BY <1>1, <1>3
  <2>2. \A q \in Three : pc'[q] = "write" => pc[q] = "write" /\ hand'[q] = hand[q]
    BY <1>1, <1>3
  <2>3. \A q \in Three : pc[q] = "write" /\ hand[q].entry # nothing => hand[q].entry \in Three
    BY DEF DInv, DTyped, DHeld, DPosted
  <2> QED
    BY <1>1, <2>1, <2>2, <2>3 DEF DInv, DEntries
<1>9. DOnce'
  <2>1. \A t, m : D!OfMonth(t, m)' = D!OfMonth(t, m)
    BY <1>1 DEF D!OfMonth
  <2>2. \A t, m : \A q \in Three : DWriting(q, t, m)' => DWriting(q, t, m) /\ hand'[q] = hand[q]
    BY <1>1, <1>3 DEF DWriting
  <2> QED
    BY <1>1, <2>1, <2>2 DEF DInv, DOnce
<1>10. D!PastSalaryKept
  <2> SUFFICES ASSUME NEW m \in DriverMonth, ~v3, ~D!Coming(m, {"close", "count", "insert"})
               PROVE  DIds(D!Resolved(v1', m)) = DIds(D!Resolved(v1, m))
    BY DriversKeptIds DEF D!PastSalaryKept
  <2>1. D!LastDay(m) \in Nat /\ new.from \in Nat
    BY <1>2, DriversDays DEF DMaster
  <2>2. D!LastDay(m) < new.from
    BY <1>1, <1>2, <2>1 DEF D!Coming
  <2> QED
    BY <1>1, <1>2, <2>2, DriversResolvedMore DEF DInv, DTyped
<1> QED
  BY <1>5, <1>6, <1>7, <1>8, <1>9, <1>10 DEF DInv

(* Posting: the entry of the month is looked for.                          *)
LEMMA DriversLook ==
  ASSUME DInv, NEW r \in Three, pc[r] \in {"idle", "look"}, NEW t \in DTypes,
         NEW m \in DriverMonth, NEW amount \in Nat, D!Look(r, t, m, amount)
  PROVE  DInv' /\ D!PastSalaryKept
<1>1. PICK p \in IF D!OfMonth(t, m) = {} THEN {nothing} ELSE {f.id : f \in D!OfMonth(t, m)} :
        hand' = [hand EXCEPT ![r] = [type |-> t, month |-> m, amount |-> amount, entry |-> p]]
  BY DEF D!Look
<1> DEFINE what == [type |-> t, month |-> m, amount |-> amount, entry |-> p]
<1>2. /\ \A e \in D!OfMonth(t, m) : e \in v2 /\ e.source = "system" /\ e.type = t /\ e.month = m
      /\ p # nothing => \E e \in D!OfMonth(t, m) : p = e.id
      /\ D!OfMonth(t, m) # {} => \E e \in D!OfMonth(t, m) : p = e.id
  BY <1>1 DEF D!OfMonth
<1>3. what \in DPosted /\ what.type = t /\ what.month = m /\ what.entry = p
  <2>1. p \in Three \cup {nothing}
    BY <1>2 DEF DInv, DEntries
  <2> QED
    BY <2>1 DEF DPosted
<1>4. /\ p # nothing => pc[p] = "done" /\ p \in Three
      /\ \A e \in v2 : e.id = p => e.source = "system" /\ e.type = t /\ e.month = m
  <2>1. p # nothing => pc[p] = "done" /\ p \in Three
    BY <1>2 DEF DInv, DEntries
  <2>2. ASSUME NEW e \in v2, e.id = p
        PROVE  e.source = "system" /\ e.type = t /\ e.month = m
    <3>1. p # nothing
      BY <2>2, OfficeDrivers DEF DInv, DTyped, DEntry
    <3>2. PICK f \in D!OfMonth(t, m) : p = f.id
      BY <1>2, <3>1
    <3>3. f = e
      BY <1>2, <2>2, <3>2 DEF DInv, DEntries
    <3> QED
      BY <1>2, <3>2, <3>3
  <2> QED
    BY <2>1, <2>2
<1> HIDE DEF what
<1>5. /\ UNCHANGED <<v1, v2, v3>> /\ hand' = [hand EXCEPT ![r] = what]
      /\ pc' = [pc EXCEPT ![r] = "write"]
      /\ marred' = IF \E q \in Three \ {r} : DWriting(q, t, m)
                   THEN marred \cup {<<t, m>>} ELSE marred
  BY <1>1 DEF D!Look, D!Goto, what, DWriting
<1>6. /\ \A q \in Three \ {r} : pc'[q] = pc[q] /\ hand'[q] = hand[q]
      /\ pc'[r] = "write" /\ hand'[r] = what /\ DOMAIN hand' = Three /\ pc' \in [Three -> DPlaces]
  BY <1>5 DEF DInv, DTyped, DPlaces
<1>7. DTyped'
  BY <1>3, <1>5, <1>6 DEF DInv, DTyped, DHeld
<1>8. DMasters'
  <2>1. \A k \in v1 : k.id \in Three \ {r}
    BY DEF DInv, DTyped, DMaster, DMasters
  <2>2. ASSUME NEW q \in Three, pc'[q] = "close"
        PROVE  /\ q # r /\ pc[q] = "close" /\ hand'[q] = hand[q]
               /\ hand[q].prior \in Three \cup {nothing}
    <3>1. q # r /\ pc[q] = "close" /\ hand'[q] = hand[q]
      BY <1>6, <2>2
    <3> QED
      BY <3>1 DEF DInv, DTyped, DHeld, DAsked
  <2>3. \A q \in Three : pc[q] = "done" => pc'[q] = "done"
    BY <1>6
  <2> QED
    BY <1>5, <1>6, <2>1, <2>2, <2>3 DEF DInv, DMasters
<1>9. DCovered'
  <2>1. \A k, x : DComing(k, x) => DComing(k, x)'
    BY <1>6 DEF DComing
  <2> QED
    BY <1>5, <2>1 DEF DInv, DCovered
<1>10. DEntries'
  <2>1. \A q \in Three : pc[q] = "done" => pc'[q] = "done"
    BY <1>6
  <2>2. ASSUME NEW q \in Three, pc'[q] = "write", hand'[q].entry # nothing
        PROVE  /\ pc'[hand'[q].entry] = "done"
               /\ \A e \in v2 : e.id = hand'[q].entry =>
                    e.source = "system" /\ e.type = hand'[q].type /\ e.month = hand'[q].month
    <3>1. CASE q = r
      BY <1>3, <1>4, <1>6, <2>1, <2>2, <3>1
    <3>2. CASE q # r
      <4>1. pc[q] = "write" /\ hand'[q] = hand[q]
        BY <1>6, <2>2, <3>2
      <4>2. hand[q].entry \in Three
        BY <2>2, <4>1 DEF DInv, DTyped, DHeld, DPosted
      <4> QED
        BY <2>1, <2>2, <4>1, <4>2 DEF DInv, DEntries
    <3> QED
      BY <3>1, <3>2
  <2>3. \A e \in v2 : e.source = "system" => e.id \in Three /\ pc'[e.id] = "done"
    BY <2>1 DEF DInv, DEntries
  <2> QED
    BY <1>5, <2>2, <2>3 DEF DInv, DEntries
<1>11. DOnce'
  <2> SUFFICES ASSUME NEW t0 \in DTypes, NEW m0 \in DriverMonth, <<t0, m0>> \notin marred'
               PROVE  /\ \A e, f \in D!OfMonth(t0, m0)' : e = f
                      /\ \A q, o \in Three : DWriting(q, t0, m0)' /\ DWriting(o, t0, m0)' => q = o
                      /\ \A q \in Three, e \in D!OfMonth(t0, m0)' :
                           DWriting(q, t0, m0)' => hand'[q].entry = e.id
    BY DEF DOnce
  <2>1. D!OfMonth(t0, m0)' = D!OfMonth(t0, m0) /\ <<t0, m0>> \notin marred
    BY <1>5 DEF D!OfMonth
  <2>2. \A q \in Three \ {r} : DWriting(q, t0, m0)' => DWriting(q, t0, m0) /\ hand'[q] = hand[q]
    BY <1>6 DEF DWriting
  <2>3. DWriting(r, t0, m0)' => t0 = t /\ m0 = m
    BY <1>3, <1>6 DEF DWriting
  <2>4. t0 = t /\ m0 = m => \A q \in Three \ {r} : ~DWriting(q, t, m)
    BY <1>5
  <2>5. /\ \A e, f \in D!OfMonth(t0, m0) : e = f
        /\ \A q, o \in Three : DWriting(q, t0, m0) /\ DWriting(o, t0, m0) => q = o
        /\ \A q \in Three, e \in D!OfMonth(t0, m0) : DWriting(q, t0, m0) => hand[q].entry = e.id
    BY <2>1 DEF DInv, DOnce
  <2>6. \A q, o \in Three : DWriting(q, t0, m0)' /\ DWriting(o, t0, m0)' => q = o
    BY <2>2, <2>3, <2>4, <2>5
  <2>7. ASSUME NEW q \in Three, NEW e \in D!OfMonth(t0, m0), DWriting(q, t0, m0)'
        PROVE  hand'[q].entry = e.id
    <3>1. CASE q = r
      <4>1. PICK f \in D!OfMonth(t0, m0) : p = f.id
        BY <1>2, <2>3, <2>7, <3>1
      <4> QED
        BY <1>3, <1>6, <2>5, <3>1, <4>1
    <3>2. CASE q # r
      BY <2>2, <2>5, <2>7, <3>2
    <3> QED
      BY <3>1, <3>2
  <2> QED
    BY <2>1, <2>5, <2>6, <2>7
<1>12. D!PastSalaryKept
  BY <1>5 DEF D!PastSalaryKept
<1> QED
  BY <1>7, <1>8, <1>9, <1>10, <1>11, <1>12 DEF DInv

(* The entries change, and one request may be done with that.              *)
LEMMA DriversPost ==
  ASSUME DInv, NEW r, UNCHANGED <<v1, v3, marred>>,
         \/ UNCHANGED <<pc, hand>>
         \/ /\ r \in Three /\ pc[r] = "write" /\ pc' = [pc EXCEPT ![r] = "done"]
            /\ hand' = [hand EXCEPT ![r] = nothing],
         v2' \in SUBSET DEntry, IsFiniteSet(v2'),
         \A e, f \in v2' : e.id = f.id => e = f,
         \A e \in v2' : e.source = "system" =>
           \/ \E f \in v2 : f.source = "system" /\ f.id = e.id /\ f.type = e.type /\ f.month = e.month
           \/ /\ e.id = r /\ r \in Three /\ pc[r] = "write" /\ pc'[r] = "done"
              /\ DWriting(r, e.type, e.month) /\ hand[r].entry = nothing,
         \A e \in v2' : e.source = "manual" =>
           e.id \in DriverManual
  PROVE  DInv' /\ D!PastSalaryKept
<1>1. /\ \A q \in Three \ {r} : pc'[q] = pc[q] /\ hand'[q] = hand[q]
      /\ \/ pc'[r] = pc[r] /\ hand'[r] = hand[r]
         \/ r \in Three /\ pc[r] = "write" /\ pc'[r] = "done"
      /\ DOMAIN hand' = Three /\ pc' \in [Three -> DPlaces]
      /\ v1' = v1 /\ v3' = v3 /\ marred' = marred
      /\ pc[r] # "write" => UNCHANGED <<pc, hand>>
  BY DEF DInv, DTyped, DPlaces
<1>2. /\ \A q \in Three : pc[q] = "done" => pc'[q] = "done"
      /\ \A q \in Three, at \in DPlaces : pc'[q] = at /\ at # "done" => pc[q] = at /\ hand'[q] = hand[q]
  BY <1>1 DEF DPlaces
<1>3. DTyped'
  <2>1. \A q \in Three : DHeld(q)'
    BY <1>1 DEF DInv, DTyped, DHeld
  <2> QED
    BY <1>1, <2>1 DEF DInv, DTyped
<1>4. DMasters'
  <2>1. \A q \in Three : pc'[q] = "close" =>
          pc[q] = "close" /\ hand'[q] = hand[q] /\ hand[q].prior \in Three \cup {nothing}
    BY <1>2 DEF DInv, DTyped, DHeld, DAsked, DPlaces
  <2>2. \A k \in v1 : k.id \in Three
    BY DEF DInv, DTyped, DMaster
  <2> QED
    BY <1>1, <1>2, <2>1, <2>2 DEF DInv, DMasters
<1>5. DCovered'
  <2>1. \A k, x : DComing(k, x) => DComing(k, x)'
    BY <1>1 DEF DComing
  <2> QED
    BY <1>1, <2>1 DEF DInv, DCovered
<1>6. DEntries'
  <2>1. \A e \in v2' : e.source = "system" => e.id \in Three /\ pc'[e.id] = "done"
    <3> SUFFICES ASSUME NEW e \in v2', e.source = "system"
                 PROVE  e.id \in Three /\ pc'[e.id] = "done"
      OBVIOUS
    <3>1. CASE \E f \in v2 : f.source = "system" /\ f.id = e.id
      BY <1>2, <3>1 DEF DInv, DEntries
    <3>2. CASE e.id = r /\ r \in Three /\ pc'[r] = "done"
      BY <3>2
    <3> QED
      BY <3>1, <3>2
  <2>2. ASSUME NEW q \in Three, pc'[q] = "write", hand'[q].entry # nothing
        PROVE  /\ pc'[hand'[q].entry] = "done"
               /\ \A e \in v2' : e.id = hand'[q].entry =>
                    e.source = "system" /\ e.type = hand'[q].type /\ e.month = hand'[q].month
    <3>1. pc[q] = "write" /\ hand'[q] = hand[q] /\ hand[q].entry \in Three
      BY <1>2, <2>2 DEF DInv, DTyped, DHeld, DPosted, DPlaces
    <3>2. pc[hand[q].entry] = "done"
      BY <2>2, <3>1 DEF DInv, DEntries
    <3>3. ASSUME NEW e \in v2', e.id = hand[q].entry
          PROVE  e.source = "system" /\ e.type = hand[q].type /\ e.month = hand[q].month
      <4>1. e.source = "system"
        BY <3>1, <3>3, OfficeDrivers DEF DEntry
      <4>2. e.id # r \/ pc[r] # "write"
        BY <3>2, <3>3
      <4>3. PICK f \in v2 : f.source = "system" /\ f.id = e.id /\ f.type = e.type /\ f.month = e.month
        BY <4>1, <4>2
      <4> QED
        BY <2>2, <3>1, <3>3, <4>1, <4>3 DEF DInv, DEntries
    <3> QED
      BY <1>2, <3>1, <3>2, <3>3
  <2> QED
    BY <2>1, <2>2 DEF DEntries
<1>7. DOnce'
  <2> SUFFICES ASSUME NEW t \in DTypes, NEW m \in DriverMonth, <<t, m>> \notin marred
               PROVE  /\ \A e, f \in D!OfMonth(t, m)' : e = f
                      /\ \A q, o \in Three : DWriting(q, t, m)' /\ DWriting(o, t, m)' => q = o
                      /\ \A q \in Three, e \in D!OfMonth(t, m)' :
                           DWriting(q, t, m)' => hand'[q].entry = e.id
    BY <1>1 DEF DOnce
  <2>1. \A q \in Three : DWriting(q, t, m)' => DWriting(q, t, m) /\ hand'[q] = hand[q]
    BY <1>2 DEF DWriting, DPlaces
  <2>2. /\ \A e, f \in D!OfMonth(t, m) : e = f
        /\ \A q, o \in Three : DWriting(q, t, m) /\ DWriting(o, t, m) => q = o
        /\ \A q \in Three, e \in D!OfMonth(t, m) : DWriting(q, t, m) => hand[q].entry = e.id
    BY DEF DInv, DOnce
  <2>3. \A e \in D!OfMonth(t, m)' :
          \/ \E f \in D!OfMonth(t, m) : f.id = e.id
          \/ /\ e.id = r /\ r \in Three /\ pc[r] = "write" /\ pc'[r] = "done"
             /\ DWriting(r, t, m) /\ hand[r].entry = nothing
    BY DEF D!OfMonth
  <2>4. \A f \in D!OfMonth(t, m) : f.id \in Three
    BY DEF D!OfMonth, DInv, DEntries
  <2>5. \A e, f \in D!OfMonth(t, m)' : e.id = f.id => e = f
    BY DEF D!OfMonth
  <2>6. (\E f \in D!OfMonth(t, m) : TRUE) /\ r \in Three /\ DWriting(r, t, m) => hand[r].entry # nothing
    BY <2>2, <2>4, OfficeDrivers
  <2>7. \A e, f \in D!OfMonth(t, m)' : e = f
    BY <2>2, <2>3, <2>5, <2>6
  <2>8. ASSUME NEW q \in Three, NEW e \in D!OfMonth(t, m)', DWriting(q, t, m)'
        PROVE  hand'[q].entry = e.id
    <3>1. CASE \E f \in D!OfMonth(t, m) : f.id = e.id
      BY <2>1, <2>2, <2>8, <3>1
    <3>2. CASE /\ e.id = r /\ r \in Three /\ pc[r] = "write" /\ pc'[r] = "done"
               /\ DWriting(r, t, m) /\ hand[r].entry = nothing
      <4>1. q = r
        BY <2>1, <2>2, <2>8, <3>2
      <4>2. pc'[r] = "write"
        BY <2>8, <4>1 DEF DWriting
      <4> QED
        BY <3>2, <4>2
    <3> QED
      BY <2>3, <3>1, <3>2
  <2> QED
    BY <2>1, <2>2, <2>7, <2>8
<1>8. D!PastSalaryKept
  BY <1>1 DEF D!PastSalaryKept
<1> QED
  BY <1>3, <1>4, <1>5, <1>6, <1>7, <1>8 DEF DInv

(* An entry that is written, or written anew.                              *)
LEMMA DriversEntry ==
  ASSUME NEW id \in Three \cup DriverManual, NEW day \in D!Day, NEW type \in DTypes \cup {"advance"},
         NEW amount \in Nat, NEW source \in {"system", "manual"}
  PROVE  /\ D!Entry(id, day, type, amount, source) \in DEntry
         /\ D!Entry(id, day, type, amount, source).id = id
         /\ D!Entry(id, day, type, amount, source).type = type
         /\ D!Entry(id, day, type, amount, source).source = source
         /\ D!Entry(id, day, type, amount, source).month = D!MonthOf(day)
<1>1. D!MonthOf(day) \in Nat
  BY DriversDays
<1> QED
  BY <1>1 DEF D!Entry, DEntry

LEMMA DriversWrite ==
  ASSUME DInv, NEW r \in Three, D!Write(r)
  PROVE  DInv' /\ D!PastSalaryKept
<1> DEFINE h == hand[r]
           fresh(id) == D!Entry(id, D!LastDay(h.month), h.type, h.amount, "system")
           F(e) == IF e.id = h.entry THEN fresh(e.id) ELSE e
<1>1. /\ pc[r] = "write" /\ pc' = [pc EXCEPT ![r] = "done"]
      /\ hand' = [hand EXCEPT ![r] = nothing] /\ UNCHANGED <<v1, v3, marred>>
  BY DEF D!Write, D!Finish, D!Goto
<1>2. /\ h.amount = 0 => v2' = {e \in v2 : e.id # h.entry}
      /\ h.amount # 0 /\ h.entry = nothing => v2' = v2 \cup {fresh(r)}
      /\ h.amount # 0 /\ h.entry # nothing => v2' = {F(e) : e \in v2}
  BY DEF D!Write
<1>3. /\ h \in DPosted /\ pc'[r] = "done"
      /\ h.type \in DTypes /\ h.month \in DriverMonth /\ h.amount \in Nat
      /\ h.entry \in Three \cup {nothing}
  BY <1>1 DEF DInv, DTyped, DHeld, DPosted
<1>4. \A id \in Three : /\ fresh(id) \in DEntry /\ fresh(id).id = id /\ fresh(id).type = h.type
                        /\ fresh(id).source = "system" /\ fresh(id).month = h.month
  <2> SUFFICES ASSUME NEW id \in Three
               PROVE  /\ fresh(id) \in DEntry /\ fresh(id).id = id /\ fresh(id).type = h.type
                      /\ fresh(id).source = "system" /\ fresh(id).month = h.month
    OBVIOUS
  <2>1. D!LastDay(h.month) \in D!Day /\ D!MonthOf(D!LastDay(h.month)) = h.month
    BY <1>3, DriversDays
  <2> HIDE DEF h
  <2> QED
    BY <1>3, <2>1, DriversEntry
<1> HIDE DEF fresh
<1>5. /\ \A e, f \in v2 : e.id = f.id => e = f
      /\ v2 \in SUBSET DEntry /\ IsFiniteSet(v2)
      /\ \A e \in v2 : e.source = "manual" => e.id \in DriverManual
      /\ \A e \in v2 : e.source = "system" => e.id \in Three /\ pc[e.id] = "done"
  BY DEF DInv, DTyped, DEntries
<1>6. DWriting(r, h.type, h.month)
  BY <1>1 DEF DWriting
<1>7. CASE h.amount = 0
  <2>1. v2' \subseteq v2
    BY <1>2, <1>7
  <2>2. IsFiniteSet(v2')
    BY <1>5, <2>1, FS_Subset
  <2> QED
    BY <1>1, <1>5, <2>1, <2>2, DriversPost
<1>8. CASE h.amount # 0 /\ h.entry = nothing
  <2>1. v2' = v2 \cup {fresh(r)}
    BY <1>2, <1>8
  <2>2. IsFiniteSet(v2') /\ v2' \in SUBSET DEntry
    BY <1>4, <1>5, <2>1, FS_AddElement
  <2>3. \A e \in v2 : e.id # r
    <3>1. \A e \in v2 : e.source = "system" \/ e.source = "manual"
      BY <1>5 DEF DEntry
    <3> QED
      BY <1>1, <1>5, <3>1, OfficeDrivers
  <2>4. \A e, f \in v2' : e.id = f.id => e = f
    BY <1>4, <1>5, <2>1, <2>3
  <2>5. \A e \in v2' : e.source = "system" =>
           \/ \E f \in v2 : f.source = "system" /\ f.id = e.id /\ f.type = e.type /\ f.month = e.month
           \/ /\ e.id = r /\ r \in Three /\ pc[r] = "write" /\ pc'[r] = "done"
              /\ DWriting(r, e.type, e.month) /\ hand[r].entry = nothing
    BY <1>1, <1>3, <1>4, <1>6, <1>8, <2>1
  <2>6. \A e \in v2' : e.source = "manual" => e.id \in DriverManual
    BY <1>4, <1>5, <2>1
  <2> QED
    BY <1>1, <2>2, <2>4, <2>5, <2>6, DriversPost
<1>9. CASE h.amount # 0 /\ h.entry # nothing
  <2>1. v2' = {F(e) : e \in v2}
    BY <1>2, <1>9
  <2>2. \A e \in v2 : e.id = h.entry => e.source = "system" /\ e.type = h.type /\ e.month = h.month
    BY <1>1, <1>9 DEF DInv, DEntries
  <2>3. \A e \in v2 : /\ F(e) \in DEntry /\ F(e).id = e.id /\ F(e).type = e.type
                      /\ F(e).source = e.source /\ F(e).month = e.month
    BY <1>3, <1>4, <1>5, <1>9, <2>2
  <2> HIDE DEF F
  <2>4. IsFiniteSet(v2')
    <3> DEFINE f == [e \in v2 |-> F(e)]
    <3>1. v2' = {f[e] : e \in v2}
      BY <2>1
    <3>2. f \in Surjection(v2, v2')
      BY <3>1 DEF Surjection
    <3> QED
      BY <1>5, <3>2, FS_Surjection
  <2>5. v2' \in SUBSET DEntry
    BY <2>1, <2>3
  <2>6. \A e, f \in v2' : e.id = f.id => e = f
    BY <1>5, <2>1, <2>3
  <2>7. \A e \in v2' : e.source = "system" =>
          \E f \in v2 : f.source = "system" /\ f.id = e.id /\ f.type = e.type /\ f.month = e.month
    BY <2>1, <2>3
  <2>8. \A e \in v2' : e.source = "manual" => e.id \in DriverManual
    BY <1>5, <2>1, <2>3
  <2> QED
    BY <1>1, <2>4, <2>5, <2>6, <2>7, <2>8, DriversPost
<1> QED
  BY <1>7, <1>8, <1>9

(* Entries by hand.                                                        *)
LEMMA DriversManual ==
  ASSUME DInv,
         \/ \E i \in DriverManual, d \in D!Day, t \in D!ManualTypes : D!AddManual(i, d, t)
         \/ \E e \in v2 : D!DeleteManual(e)
  PROVE  DInv' /\ D!PastSalaryKept
<1>1. /\ \A e, f \in v2 : e.id = f.id => e = f
      /\ v2 \in SUBSET DEntry /\ IsFiniteSet(v2)
      /\ \A e \in v2 : e.source = "manual" => e.id \in DriverManual
  BY DEF DInv, DTyped, DEntries
<1>2. ASSUME NEW i \in DriverManual, NEW d \in D!Day, NEW t \in D!ManualTypes, D!AddManual(i, d, t)
      PROVE  DInv' /\ D!PastSalaryKept
  <2>1. PICK new : new = D!Entry(i, d, t, 3, "manual")
    OBVIOUS
  <2>2. /\ UNCHANGED <<v1, v3, marred, pc, hand>> /\ v2' = v2 \cup {new}
        /\ \A e \in v2 : e.id # i
    BY <1>2, <2>1 DEF D!AddManual
  <2>3. new \in DEntry /\ new.id = i /\ new.source = "manual"
    <3>1. t \in DTypes \cup {"advance"}
      BY DEF D!ManualTypes, DTypes
    <3> QED
      BY <2>1, <3>1, DriversEntry
  <2>4. IsFiniteSet(v2') /\ v2' \in SUBSET DEntry
    BY <1>1, <2>2, <2>3, FS_AddElement
  <2>5. \A e, f \in v2' : e.id = f.id => e = f
    BY <1>1, <2>2, <2>3
  <2>6. /\ \A e \in v2' : e.source = "system" => e \in v2
        /\ \A e \in v2' : e.source = "manual" => e.id \in DriverManual
    BY <1>1, <2>2, <2>3
  <2> QED
    BY <2>2, <2>4, <2>5, <2>6, DriversPost
<1>3. ASSUME NEW e \in v2, D!DeleteManual(e)
      PROVE  DInv' /\ D!PastSalaryKept
  <2>1. UNCHANGED <<v1, v3, marred, pc, hand>> /\ v2' \subseteq v2
    BY <1>3 DEF D!DeleteManual
  <2>2. IsFiniteSet(v2')
    BY <1>1, <2>1, FS_Subset
  <2> QED
    BY <1>1, <2>1, <2>2, DriversPost
<1> QED
  BY <1>2, <1>3

LEMMA DriversKept ==
  ASSUME DInv, D!Next
  PROVE  DInv' /\ D!PastSalaryKept
<1>1. ASSUME NEW r \in Three, NEW from \in DriverStart, NEW to \in {D!Open, D!Horizon},
             NEW salary \in DriverSalary, D!MasterFind(r, from, to, salary)
      PROVE  DInv' /\ D!PastSalaryKept
  BY <1>1, DriversFind
<1>2. ASSUME NEW r \in Three, D!SalaryLook(r)
      PROVE  DInv' /\ D!PastSalaryKept
  <2>1. pc[r] = "look" /\ D!Look(r, "salary", hand[r].month, hand[r].amount)
    BY <1>2 DEF D!SalaryLook
  <2>2. hand[r].month \in DriverMonth /\ hand[r].amount \in Nat /\ "salary" \in DTypes
    BY <2>1 DEF DInv, DTyped, DHeld, DWanted, DTypes
  <2> QED
    BY <2>1, <2>2, DriversLook
<1>3. ASSUME NEW r \in Three, NEW m \in DriverMonth, NEW paid \in DriverPaid, D!SettleLook(r, m, paid)
      PROVE  DInv' /\ D!PastSalaryKept
  <2>1. pc[r] = "idle" /\ D!Look(r, "settlement", m, paid)
    BY <1>3 DEF D!SettleLook
  <2>2. paid \in Nat /\ "settlement" \in DTypes
    BY OfficeDrivers DEF DTypes
  <2> QED
    BY <2>1, <2>2, DriversLook
<1> QED
  BY <1>1, <1>2, <1>3, DriversClose, DriversCount, DriversInsert, DriversResolve, DriversWrite,
     DriversDie, DriversManual DEF D!Next

LEMMA DriversBegin ==
  ASSUME D!Init
  PROVE  DInv
<1>1. /\ v1 = {} /\ v2 = {} /\ pc = [r \in Three |-> "idle"] /\ hand = [r \in Three |-> nothing]
      /\ marred = {} /\ v3 = FALSE
  BY DEF D!Init
<1>2. IsFiniteSet({})
  BY FS_EmptySet
<1>3. DTyped
  BY <1>1, <1>2 DEF DTyped, DHeld, DPlaces
<1>4. DMasters /\ DCovered /\ DEntries
  BY <1>1 DEF DMasters, DCovered, DEntries
<1>5. DOnce
  BY <1>1 DEF DOnce, DWriting, D!OfMonth
<1> QED
  BY <1>3, <1>4, <1>5 DEF DInv

LEMMA DriversStand ==
  ASSUME DInv, UNCHANGED <<v1, v2, v3, pc, hand, marred>>
  PROVE  DInv'
<1>1. \A r \in Three : DHeld(r)' = DHeld(r)
  BY DEF DHeld
<1>2. \A t, m : D!OfMonth(t, m)' = D!OfMonth(t, m)
  BY DEF D!OfMonth
<1>3. \A t, m : \A r \in Three : DWriting(r, t, m)' = DWriting(r, t, m)
  BY DEF DWriting
<1>4. \A k, x : DComing(k, x)' = DComing(k, x)
  BY DEF DComing
<1>5. DTyped' /\ DMasters' /\ DEntries'
  BY <1>1 DEF DInv, DTyped, DMasters, DEntries
<1>6. DCovered'
  BY <1>4 DEF DInv, DCovered
<1>7. DOnce'
  BY <1>2, <1>3 DEF DInv, DOnce
<1> QED
  BY <1>5, <1>6, <1>7 DEF DInv

(* What the screens sum up.                                                *)
LEMMA DriversSumFunction ==
  ASSUME NEW fun
  PROVE  D!SumFunction(fun) = SumFunctionOnSet(fun, DOMAIN fun)
BY DEF D!SumFunction, D!SumFunctionOnSet, D!FoldFunctionOnSet, D!MapThenFoldSet,
  SumFunctionOnSet, FoldFunctionOnSet, MapThenFoldSet

DSign == [e \in v2 |-> D!Signed(e)]
DSum(set) == SumFunctionOnSet(DSign, set)

LEMMA DriversSigned ==
  ASSUME DTyped
  PROVE  DSign \in [v2 -> Int]
BY DEF DTyped, DEntry, DSign, D!Signed

LEMMA DriversSum ==
  ASSUME DTyped, NEW set \in SUBSET v2
  PROVE  /\ D!SumFunction([e \in set |-> D!Signed(e)]) = DSum(set)
         /\ DSum(set) \in Int /\ (set = {} => DSum(set) = 0)
<1> DEFINE fun == [e \in set |-> D!Signed(e)]
<1>1. IsFiniteSet(set)
  BY FS_Subset DEF DTyped
<1>2. DSign \in [v2 -> Int] /\ \A e \in set : DSign[e] = D!Signed(e)
  BY DriversSigned DEF DSign
<1>3. fun \in [set -> Int] /\ DOMAIN fun = set /\ \A e \in set : fun[e] = DSign[e]
  BY <1>2
<1> HIDE DEF fun
<1>4. D!SumFunction(fun) = SumFunctionOnSet(fun, set)
  BY <1>3, DriversSumFunction
<1>5. SumFunctionOnSet(fun, set) = SumFunctionOnSet(DSign, set)
  BY <1>1, <1>2, <1>3, SumSame
<1>6. SumFunctionOnSet(DSign, set) \in Int /\ (set = {} => SumFunctionOnSet(DSign, set) = 0)
  BY <1>1, <1>2, SumRest
<1> QED
  BY <1>4, <1>5, <1>6 DEF DSum, fun

LEMMA DriversBalance ==
  ASSUME DTyped, NEW d \in 0 .. D!Open
  PROVE  /\ D!ClosingOf(1, d) = DSum({e \in v2 : e.day <= d})
         /\ D!OpeningBefore(d + 1) = DSum({e \in v2 : e.day <= d})
<1>1. \A e \in v2 : e.day \in Nat /\ e.day >= 1
  BY DriversDays DEF DTyped, DEntry
<1>2. d \in Nat
  BY DriversDays
<1> DEFINE none == {e \in v2 : e.day < 1}
           upto == {e \in v2 : 1 <= e.day /\ e.day <= d}
           below == {e \in v2 : e.day < d + 1}
           all == {e \in v2 : e.day <= d}
<1>3. none = {} /\ upto = all /\ below = all /\ all \in SUBSET v2
  BY <1>1, <1>2
<1>4. D!ClosingOf(1, d) = D!SumFunction([e \in none |-> D!Signed(e)])
                            + D!SumFunction([e \in upto |-> D!Signed(e)])
  BY DEF D!ClosingOf, D!OpeningBefore, D!Sum
<1>5. D!OpeningBefore(d + 1) = D!SumFunction([e \in below |-> D!Signed(e)])
  BY DEF D!OpeningBefore, D!Sum
<1> HIDE DEF none, upto, below, all
<1>6. D!SumFunction([e \in none |-> D!Signed(e)]) = 0
  BY <1>3, DriversSum
<1>7. /\ D!SumFunction([e \in all |-> D!Signed(e)]) = DSum(all)
      /\ DSum(all) \in Int
  BY <1>3, DriversSum
<1>8. D!ClosingOf(1, d) = DSum(all) /\ D!OpeningBefore(d + 1) = DSum(all)
  BY <1>3, <1>4, <1>5, <1>6, <1>7
<1> QED
  BY <1>8 DEF all

(* The months make up the whole.                                           *)
LEMMA DriversRollup ==
  ASSUME DTyped
  PROVE  D!Sum(DOMAIN D!Rollup, D!NetChange) = D!ClosingOf(1, D!Open)
<1> DEFINE months == {e.month : e \in v2}
           key == [e \in v2 |-> e.month]
           part(m) == {e \in v2 : e.month = m}
           byMonth == [m \in months |-> SumFunctionOnSet(DSign, {e \in v2 : key[e] = m})]
           net == [m \in months |-> D!NetChange(m)]
<1>1. D!Sum(DOMAIN D!Rollup, D!NetChange) = D!SumFunction(net)
  <2>1. DOMAIN D!Rollup = months
    BY DEF D!Rollup
  <2> QED
    BY <2>1 DEF D!Sum
<1>2. \A m \in months : D!NetChange(m) = SumFunctionOnSet(DSign, {e \in v2 : key[e] = m})
  <2> SUFFICES ASSUME NEW m \in months
               PROVE  D!NetChange(m) = SumFunctionOnSet(DSign, {e \in v2 : key[e] = m})
    OBVIOUS
  <2>1. D!NetChange(m) = D!SumFunction([e \in part(m) |-> D!Signed(e)])
    BY DEF D!NetChange, D!Sum
  <2>2. part(m) \in SUBSET v2 /\ {e \in v2 : key[e] = m} = part(m)
    OBVIOUS
  <2> HIDE DEF part, key
  <2>3. D!SumFunction([e \in part(m) |-> D!Signed(e)]) = DSum(part(m))
    BY <2>2, DriversSum
  <2> QED
    BY <2>1, <2>2, <2>3 DEF DSum
<1>3. net = byMonth
  BY <1>2
<1>4. IsFiniteSet(months) /\ key \in [v2 -> months] /\ IsFiniteSet(v2)
  <2>1. key \in Surjection(v2, months)
    BY DEF Surjection
  <2> QED
    BY <2>1, FS_Surjection DEF DTyped, Surjection
<1>5. {e \in v2 : key[e] \in months} = v2 /\ DOMAIN net = months
  OBVIOUS
<1>6. D!SumFunction(net) = SumFunctionOnSet(net, months)
  <2> HIDE DEF net
  <2> QED
    BY <1>5, DriversSumFunction
<1>7. SumFunctionOnSet(byMonth, months) = DSum(v2)
  <2> HIDE DEF key, months
  <2>1. DSign \in [v2 -> Int] /\ v2 \in SUBSET v2 /\ months \in SUBSET months
    BY DriversSigned
  <2>2. SumFunctionOnSet(byMonth, months) = SumFunctionOnSet(DSign, {e \in v2 : key[e] \in months})
    BY <1>4, <2>1, SumParts
  <2> QED
    BY <1>5, <2>2 DEF DSum
<1>8. D!ClosingOf(1, D!Open) = DSum(v2)
  <2>1. D!Open \in 0 .. D!Open
    BY DriversDays
  <2>2. {e \in v2 : e.day <= D!Open} = v2
    BY DriversDays DEF DTyped, DEntry
  <2> QED
    BY <2>1, <2>2, DriversBalance
<1> QED
  BY <1>1, <1>3, <1>6, <1>7, <1>8

(* Somewhere a salary applies, the latest one can be found.                *)
LEMMA DriversFound ==
  ASSUME DTyped, NEW m \in DriverMonth, NEW k \in v1, D!Applies(k, D!LastDay(m))
  PROVE  D!Resolved(v1, m) # {}
<1> DEFINE some == {n \in v1 : D!Applies(n, D!LastDay(m))}
           froms == {n.from : n \in some}
<1>1. IsFiniteSet(v1) /\ IsFiniteSet(some) /\ k \in some
  BY FS_Subset DEF DTyped
<1>2. \A n \in v1 : n.from \in Nat /\ n.version \in Nat
  BY DriversDays DEF DTyped, DMaster
<1>3. IsFiniteSet(froms) /\ froms \in SUBSET Nat /\ froms # {}
  <2> DEFINE f == [n \in some |-> n.from]
  <2>1. f \in Surjection(some, froms)
    BY DEF Surjection
  <2> QED
    BY <1>1, <1>2, <2>1, FS_Surjection
<1> HIDE DEF froms
<1>4. PICK x \in froms : \A y \in froms : y <= x
  BY <1>3, LargestNat
<1> DEFINE last == {n \in some : n.from = x}
           versions == {n.version : n \in last}
<1>5. IsFiniteSet(versions) /\ versions \in SUBSET Nat /\ versions # {}
  <2> DEFINE f == [n \in last |-> n.version]
  <2>1. f \in Surjection(last, versions)
    BY DEF Surjection
  <2>2. IsFiniteSet(last)
    BY <1>1, FS_Subset
  <2>3. last # {}
    BY <1>4 DEF froms
  <2> QED
    BY <1>2, <2>1, <2>2, <2>3, FS_Surjection
<1> HIDE DEF versions
<1>6. PICK v \in versions : \A y \in versions : y <= v
  BY <1>5, LargestNat
<1>7. PICK n \in last : n.version = v
  BY <1>6 DEF versions
<1>8. \A o \in some : o.from < n.from \/ (o.from = n.from /\ o.version <= n.version)
  <2> SUFFICES ASSUME NEW o \in some
               PROVE  o.from < n.from \/ (o.from = n.from /\ o.version <= n.version)
    OBVIOUS
  <2>1. n.from = x /\ n.version = v /\ o \in v1 /\ x \in Nat
    BY <1>3, <1>7
  <2>2. o.from <= x
    BY <1>4 DEF froms
  <2>3. o.from = x => o.version <= v
    <3>1. o.from = x => o.version \in versions
      BY DEF versions
    <3> QED
      BY <1>6, <3>1
  <2>4. o.from \in Nat
    BY <1>2, <2>1
  <2> HIDE DEF last, some
  <2> QED
    BY <2>1, <2>2, <2>3, <2>4
<1>9. n \in D!Resolved(v1, m)
  BY <1>7, <1>8 DEF D!Resolved
<1> QED
  BY <1>9

LEMMA DriversMean ==
  ASSUME DInv
  PROVE  D!DriverBooks
<1>1. ASSUME NEW t \in {"salary", "settlement"}, NEW m \in DriverMonth, <<t, m>> \notin marred
      PROVE  D!Cardinality(D!OfMonth(t, m)) <= 1
  <2>1. \A e, f \in D!OfMonth(t, m) : e = f
    BY <1>1 DEF DInv, DOnce, DTypes
  <2>2. D!OfMonth(t, m) = {} \/ \E e : D!OfMonth(t, m) = {e}
    BY <2>1
  <2>3. Cardinality(D!OfMonth(t, m)) <= 1
    <3>1. \A set : set = {} => Cardinality(set) = 0
      BY FS_EmptySet
    <3>2. \A set : (\E e : set = {e}) => Cardinality(set) = 1
      BY FS_Singleton
    <3> QED
      BY <2>2, <3>1, <3>2
  <2> QED
    BY <2>3 DEF D!Cardinality, Cardinality
<1>2. ASSUME ~v3, NEW k \in v1, NEW m \in DriverMonth, k.from <= D!LastDay(m),
             ~D!Coming(m, {"count", "insert"})
      PROVE  D!Resolved(v1, m) # {}
  <2>1. D!LastDay(m) \in D!Day /\ D!LastDay(m) \in Nat /\ k.to \in Nat /\ DTyped
    BY DriversDays DEF DInv, DTyped, DMaster
  <2>2. CASE D!LastDay(m) <= k.to
    BY <1>2, <2>1, <2>2, DriversFound DEF D!Applies
  <2>3. CASE k.to < D!LastDay(m)
    <3>1. ~DComing(k, D!LastDay(m))
      BY <1>2 DEF DComing, D!Coming
    <3>2. PICK n \in v1 : n.from <= D!LastDay(m) /\ D!LastDay(m) <= n.to
      BY <1>2, <2>1, <2>3, <3>1 DEF DInv, DCovered, DAfter
    <3> QED
      BY <2>1, <3>2, DriversFound DEF D!Applies
  <2> QED
    BY <2>1, <2>2, <2>3
<1>3. \A d \in D!Day : D!ClosingOf(1, d) = D!OpeningBefore(d + 1)
  <2>1. \A d \in D!Day : d \in 0 .. D!Open
    BY DriversDays
  <2> QED
    BY <2>1, DriversBalance DEF DInv
<1>4. D!Sum(DOMAIN D!Rollup, D!NetChange) = D!ClosingOf(1, D!Open)
  BY DriversRollup DEF DInv
<1> QED
  BY <1>1, <1>2, <1>3, <1>4 DEF D!DriverBooks

-----------------------------------------------------------------------------
(* The lorry receipts.                                                     *)

ZSteps == {"new", "sheets", "counter", "taken", "number", "form", "settings", "done", "refused"}
ZPrints == {"print", "share", "many", "archive"}
ZRecord ==
  [status : {"new", "draft", "live", "gone"}, company : ReceiptCompany \cup {"none"},
   customer : BOOLEAN, number : Nat, typed : BOOLEAN]
ZSeen == {<<>>} \cup UNION {[set -> Nat] : set \in SUBSET ReceiptTrip}
ZHand ==
  [kind : {"none", "create", "form", "settings"} \cup ZPrints,
   trip : ReceiptTrip \cup {"none"}, company : ReceiptCompany \cup {"none"}, seen : ZSeen,
   todo : SUBSET ReceiptTrip, asked : SUBSET ReceiptTrip, skipped : SUBSET ReceiptTrip,
   number : Nat, typed : BOOLEAN]
ZTyped ==
  /\ v1 \in [ReceiptTrip -> ZRecord]
  /\ v2 \in [ReceiptCompany -> Nat \ {0}]
  /\ pc \in [Two -> ZSteps]
  /\ hand \in [Two -> ZHand]
  /\ v3 \subseteq [trip : ReceiptTrip, number : Nat \ {0}, by : Two]

(* A trip that has been created, for good; a request that is taking a      *)
(* number, and one that prints; the trips a request has printed, and those *)
(* it has to print in all.                                                 *)
ZOld(t) == v1[t].status \in {"live", "gone"}
ZTaking(r) == pc[r] \in {"counter", "taken", "number"}
ZPrinting(r) == pc[r] = "sheets" \/ (ZTaking(r) /\ hand[r].kind # "create")
ZPrinted(r) == {p.trip : p \in {q \in v3 : q.by = r}}
ZWanted(r) == hand[r].asked \ hand[r].skipped

ZTrips ==
  \A t \in ReceiptTrip :
    /\ v1[t].status \in {"new", "draft"} => ~v1[t].typed
    /\ v1[t].status # "new" => v1[t].company \in ReceiptCompany

ZTakes(r) ==
  /\ hand[r].trip \in ReceiptTrip /\ hand[r].company \in ReceiptCompany
  /\ hand[r].company = v1[hand[r].trip].company
  /\ hand[r].kind = "create" => v1[hand[r].trip].status = "draft"
  /\ hand[r].kind # "create" => hand[r].trip \in hand[r].todo /\ hand[r].seen[hand[r].trip] = 0

(* What a request knows of a trip is true, or the trip is marked.          *)
ZKnows(r, t) ==
  /\ ZOld(t) /\ hand[r].seen[t] \in Nat
  /\ v1[t].status = "live" /\ t \notin marred /\ hand[r].seen[t] # 0 =>
       hand[r].seen[t] = v1[t].number

ZPacks(r) ==
  /\ hand[r].todo \subseteq ZWanted(r) /\ ZPrinted(r) = ZWanted(r) \ hand[r].todo
  /\ \A t \in ZWanted(r) : ZOld(t) /\ v1[t].customer
  /\ \A t, u \in ZWanted(r) : v1[t].company = v1[u].company

ZHolds(r) ==
  /\ pc[r] = "new" => hand[r].kind = "none" /\ ZPrinted(r) = {}
  /\ ZTaking(r) => ZTakes(r) /\ hand[r].kind \in ZPrints \cup {"create"}
  /\ pc[r] \in {"taken", "number"} => hand[r].number # 0
  /\ pc[r] = "form" => hand[r].kind = "form" /\ hand[r].trip \in ReceiptTrip /\ ZOld(hand[r].trip)
  /\ pc[r] = "settings" =>
       hand[r].kind = "settings" /\ hand[r].company \in ReceiptCompany /\ hand[r].number # 0
  /\ pc[r] = "sheets" => hand[r].kind \in ZPrints
  /\ ZPrinting(r) => \A t \in hand[r].todo : ZKnows(r, t)
  /\ hand[r].kind = "archive" /\ (ZPrinting(r) \/ pc[r] = "done") => ZPacks(r)
  /\ hand[r].kind = "archive" /\ pc[r] = "done" => hand[r].todo = {}
ZHeld == \A r \in Two : ZHolds(r)

(* Two requests never create one trip.                                     *)
ZCreating(r) == ZTaking(r) /\ hand[r].kind = "create"
ZApart == \A r, s \in Two : ZCreating(r) /\ ZCreating(s) /\ r # s => hand[r].trip # hand[s].trip

ZPapers == (\A p \in v3 : ZOld(p.trip)) /\ Z!PapersBearTheNumber

(* A trip has a claim to the number it bears, and to a number that a       *)
(* request holds for it.  No two trips of a company claim one number, and  *)
(* all claims are below the counter.                                       *)
ZClaims(t, n) ==
  /\ n # 0
  /\ \/ v1[t].status = "live" /\ v1[t].number = n
     \/ \E r \in Two : pc[r] \in {"form", "number"} /\ hand[r].trip = t /\ hand[r].number = n
ZCounted(t) == ~v1[t].typed /\ v1[t].company \notin marred
ZBelow ==
  \A t \in ReceiptTrip, n \in Nat : ZClaims(t, n) /\ ZCounted(t) => n < v2[v1[t].company]
ZUnique ==
  \A t, u \in ReceiptTrip, n \in Nat :
    ZClaims(t, n) /\ ZClaims(u, n) /\ ZCounted(t) /\ ZCounted(u)
    /\ v1[t].company = v1[u].company => t = u

ZInv == ZTyped /\ ZTrips /\ ZHeld /\ ZApart /\ ZPapers /\ ZBelow /\ ZUnique

(* A request finds what it has to print.                                   *)
ZFinds(r) ==
  \E kind \in ZPrints, asked, set \in SUBSET ReceiptTrip :
    /\ pc[r] = "new"
    /\ pc' = [pc EXCEPT ![r] = "sheets"] \/ pc' = [pc EXCEPT ![r] = "refused"]
    /\ Z!Found(r, kind, set, asked)
    /\ set \subseteq asked /\ \A t \in set : v1[t].status = "live"
    /\ kind = "archive" =>
         /\ \A t \in set : v1[t].customer
         /\ \A t, u \in set : v1[t].company = v1[u].company

ZPrintsOne(r) == \E t \in ReceiptTrip : \E out \in Z!Uploads(r) : Z!PrintSheet(r, t, out)
ZBackfills(r) == \E out \in Z!Uploads(r) : Z!Backfill(r, out)

(* What a request does, operation by operation.                            *)
ZStep(r) ==
  \/ \E t \in ReceiptTrip, c \in ReceiptCompany :
       Z!CreateTrip(r, t, c) \/ \E n \in ReceiptTyped : Z!CreateTyped(r, t, c, n)
  \/ \E s, t \in ReceiptTrip : Z!CopyTrip(r, s, t)
  \/ ZFinds(r)
  \/ ZPrintsOne(r)
  \/ \E t \in ReceiptTrip : Z!TakeNumber(r, t) \/ Z!OpenForm(r, t)
  \/ Z!ReadCounter(r) \/ Z!WriteCounter(r) \/ Z!InsertTrip(r) \/ ZBackfills(r)
  \/ Z!SaveForm(r) \/ Z!SaveSettings(r)
  \/ \E c \in ReceiptCompany : Z!OpenSettings(r, c)

LEMMA ReceiptsNext ==
  ASSUME Z!Next
  PROVE  (\E r \in Two : ZStep(r)) \/ (\E t \in ReceiptTrip : Z!DeleteTrip(t))
<1>1. ASSUME NEW r \in Two, NEW t \in ReceiptTrip, NEW kind \in {"print", "share"}, Z!PrintOne(r, t, kind)
      PROVE  ZFinds(r)
  <2> DEFINE set == {t} \cap Z!Live
  <2>1. set \in SUBSET ReceiptTrip /\ set \subseteq {t} /\ \A u \in set : v1[u].status = "live"
    BY DEF Z!Live
  <2>2. kind \in ZPrints /\ kind # "archive" /\ {t} \in SUBSET ReceiptTrip
    BY DEF ZPrints
  <2>3. /\ pc[r] = "new" /\ Z!Found(r, kind, set, {t})
        /\ pc' = [pc EXCEPT ![r] = "sheets"] \/ pc' = [pc EXCEPT ![r] = "refused"]
    BY <1>1 DEF Z!PrintOne
  <2> HIDE DEF set
  <2> QED
    BY <2>1, <2>2, <2>3 DEF ZFinds
<1>2. ASSUME NEW r \in Two, NEW asked \in SUBSET ReceiptTrip, Z!PrintMany(r, asked)
      PROVE  ZFinds(r)
  <2> DEFINE set == asked \cap Z!Live
  <2>1. set \in SUBSET ReceiptTrip /\ set \subseteq asked /\ \A u \in set : v1[u].status = "live"
    BY DEF Z!Live
  <2>2. "many" \in ZPrints /\ "many" # "archive"
    BY DEF ZPrints
  <2>3. /\ pc[r] = "new" /\ Z!Found(r, "many", set, asked)
        /\ pc' = [pc EXCEPT ![r] = "sheets"] \/ pc' = [pc EXCEPT ![r] = "refused"]
    BY <1>2 DEF Z!PrintMany
  <2> HIDE DEF set
  <2> QED
    BY <2>1, <2>2, <2>3 DEF ZFinds
<1>3. ASSUME NEW r \in Two, NEW asked \in SUBSET ReceiptTrip, NEW c \in ReceiptCompany, Z!Archive(r, c, asked)
      PROVE  ZFinds(r)
  <2> DEFINE set == {t \in asked : Z!Reason(t, c) = "none"}
  <2>1. \A t \in set : v1[t].status = "live" /\ v1[t].company = c /\ v1[t].customer
    BY DEF Z!Reason, Z!Live
  <2>2. set \in SUBSET ReceiptTrip /\ set \subseteq asked /\ "archive" \in ZPrints
    BY DEF ZPrints
  <2>3. /\ pc[r] = "new" /\ Z!Found(r, "archive", set, asked)
        /\ pc' = [pc EXCEPT ![r] = "sheets"] \/ pc' = [pc EXCEPT ![r] = "refused"]
    BY <1>3 DEF Z!Archive
  <2> HIDE DEF set
  <2> QED
    BY <2>1, <2>2, <2>3 DEF ZFinds
<1>4. ASSUME NEW r \in Two, NEW asked \in SUBSET ReceiptTrip, NEW c \in ReceiptCompany,
             Z!ArchiveMatching(r, c, asked)
      PROVE  ZFinds(r)
  BY <1>3, <1>4 DEF Z!ArchiveMatching
<1> QED
  BY <1>1, <1>2, <1>3, <1>4 DEF Z!Next, ZStep, ZPrintsOne, ZBackfills

(* What changes of other requests, of the papers and of the marks.         *)
LEMMA ReceiptsMove ==
  ASSUME ZTyped, NEW r \in Two, ZStep(r)
  PROVE  /\ \A q \in Two : q # r => pc'[q] = pc[q] /\ hand'[q] = hand[q]
         /\ marred \subseteq marred'
         /\ v3 \subseteq v3' /\ \A p \in v3' : p \in v3 \/ p.by = r
<1>t. pc \in [Two -> ZSteps] /\ hand \in [Two -> ZHand]
  BY DEF ZTyped
<1>1. \A q \in Two : q # r => pc'[q] = pc[q] /\ hand'[q] = hand[q]
  BY <1>t DEF ZStep, ZFinds, ZPrintsOne, ZBackfills, Z!CreateTrip, Z!CreateTyped, Z!CopyTrip, Z!Found,
    Z!PrintSheet, Z!Render, Z!TakeNumber, Z!OpenForm, Z!ReadCounter, Z!WriteCounter, Z!InsertTrip,
    Z!Backfill, Z!SaveForm, Z!SaveSettings, Z!OpenSettings
<1>2. marred \subseteq marred'
  BY DEF ZStep, ZFinds, ZPrintsOne, ZBackfills, Z!CreateTrip, Z!CreateTyped, Z!CopyTrip, Z!Found,
    Z!PrintSheet, Z!Render, Z!TakeNumber, Z!OpenForm, Z!ReadCounter, Z!WriteCounter, Z!InsertTrip,
    Z!Backfill, Z!SaveForm, Z!SaveSettings, Z!OpenSettings
<1>3. v3 \subseteq v3' /\ \A p \in v3' : p \in v3 \/ p.by = r
  <2>1. \/ UNCHANGED v3
        \/ \E t, n, out : v3' = IF out THEN v3 \cup {[trip |-> t, number |-> n, by |-> r]} ELSE v3
    <3>1. CASE ZPrintsOne(r) \/ ZBackfills(r)
      BY <3>1 DEF ZPrintsOne, ZBackfills, Z!PrintSheet, Z!Backfill, Z!Render
    <3>2. CASE ~ZPrintsOne(r) /\ ~ZBackfills(r)
      BY <3>2 DEF ZStep, ZFinds, Z!CreateTrip, Z!CreateTyped, Z!CopyTrip, Z!Found,
        Z!TakeNumber, Z!OpenForm, Z!ReadCounter, Z!WriteCounter, Z!InsertTrip,
        Z!SaveForm, Z!SaveSettings, Z!OpenSettings
    <3> QED
      BY <3>1, <3>2
  <2>2. ASSUME NEW t, NEW n, v3' = v3 \cup {[trip |-> t, number |-> n, by |-> r]}
        PROVE  v3 \subseteq v3' /\ \A p \in v3' : p \in v3 \/ p.by = r
    BY <2>2
  <2> QED
    BY <2>1, <2>2
<1> QED
  BY <1>1, <1>2, <1>3

(* The same steps by what they do to the request that takes them, which    *)
(* goes to the place at and holds y then, and to the rest.                 *)
ZPuts(t, d) == t \in ReceiptTrip /\ d \in ZRecord /\ v1' = [v1 EXCEPT ![t] = d]
ZLike(d, e) ==
  d.status = e.status /\ d.company = e.company /\ d.customer = e.customer /\ d.typed = e.typed
ZAlike(y, x) ==
  y.kind = x.kind /\ y.seen = x.seen /\ y.asked = x.asked /\ y.skipped = x.skipped

ZMakes(r, at, y) ==
  /\ pc[r] = "new" /\ at = "done" /\ y = hand[r] /\ UNCHANGED <<v2, v3, marred>>
  /\ \E t \in ReceiptTrip, d \in ZRecord :
       /\ v1[t].status = "new" /\ ZPuts(t, d)
       /\ d.status = "live" /\ d.company \in ReceiptCompany /\ (d.typed \/ d.number = 0)
ZDrafts(r, at, y) ==
  /\ pc[r] = "new" /\ at = "counter" /\ UNCHANGED <<v2, v3, marred>>
  /\ y.kind = "create" /\ y.company \in ReceiptCompany /\ y.trip \in ReceiptTrip
  /\ v1[y.trip].status = "new"
  /\ \E d \in ZRecord :
       /\ ZPuts(y.trip, d)
       /\ d.status = "draft" /\ d.company = y.company /\ d.typed = v1[y.trip].typed
ZInserts(r, at, y) ==
  /\ pc[r] = "number" /\ hand[r].kind = "create" /\ at = "done" /\ y = hand[r]
  /\ UNCHANGED <<v2, v3, marred>>
  /\ \E d \in ZRecord :
       /\ ZPuts(y.trip, d)
       /\ d.status = "live" /\ d.company = y.company /\ d.number = y.number /\ ~d.typed
ZLooks(r, at, y) ==
  /\ pc[r] = "new" /\ at \in {"sheets", "refused"} /\ UNCHANGED <<v1, v2, v3, marred>>
  /\ y.kind \in ZPrints /\ y.todo \subseteq y.asked /\ y.skipped = y.asked \ y.todo
  /\ \A t \in y.todo : v1[t].status = "live" /\ y.seen[t] = v1[t].number
  /\ y.kind = "archive" =>
       /\ \A t \in y.todo : v1[t].customer
       /\ \A t, u \in y.todo : v1[t].company = v1[u].company
ZOpens(r, at, y) ==
  /\ pc[r] = "new" /\ UNCHANGED <<v1, v2, v3, marred>>
  /\ \/ /\ at = "form" /\ y.kind = "form" /\ y.trip \in ReceiptTrip
        /\ v1[y.trip].status = "live" /\ y.number = v1[y.trip].number
     \/ /\ at = "settings" /\ y.kind = "settings"
        /\ y.company \in ReceiptCompany /\ y.number = v2[y.company]
ZAsks(r, at, y) ==
  /\ pc[r] = "sheets" /\ at = "counter" /\ UNCHANGED <<v1, v2, v3, marred>>
  /\ ZAlike(y, hand[r]) /\ y.todo = hand[r].todo
  /\ y.trip \in y.todo /\ y.seen[y.trip] = 0 /\ y.company = v1[y.trip].company
ZReads(r, at, y) ==
  /\ pc[r] = "counter" /\ at = "taken" /\ UNCHANGED <<v1, v2, v3, marred>>
  /\ ZAlike(y, hand[r]) /\ y.todo = hand[r].todo
  /\ y.trip = hand[r].trip /\ y.company = hand[r].company /\ y.number = v2[y.company]
ZCounts(r, at, y) ==
  /\ pc[r] = "taken" /\ at = "number" /\ y = hand[r] /\ UNCHANGED <<v1, v3>>
  /\ v2' = [v2 EXCEPT ![y.company] = y.number + 1]
  /\ marred' = IF v2[y.company] # y.number THEN marred \cup {y.company} ELSE marred
ZHandsOut(r, at, y, t, n) ==
  /\ t \in hand[r].todo /\ n \in Nat \ {0} /\ UNCHANGED v2
  /\ ZAlike(y, hand[r]) /\ y.todo = hand[r].todo \ {t}
  /\ at = IF y.todo = {} THEN "done" ELSE "sheets"
  /\ \/ v3' = v3 \cup {[trip |-> t, number |-> n, by |-> r]}
     \/ v3' = v3 /\ y.kind # "archive"
ZPrintsIt(r, at, y) ==
  \E t \in ReceiptTrip, n \in Nat :
    /\ ZHandsOut(r, at, y, t, n)
    /\ pc[r] = "sheets" /\ hand[r].seen[t] = n /\ UNCHANGED <<v1, marred>>
ZFills(r, at, y) ==
  \E t \in ReceiptTrip, n \in Nat :
    /\ ZHandsOut(r, at, y, t, n)
    /\ pc[r] = "number" /\ hand[r].kind # "create" /\ t = hand[r].trip /\ n = hand[r].number
    /\ \/ v1[t].status = "live" /\ \E d \in ZRecord : ZPuts(t, d) /\ ZLike(d, v1[t]) /\ d.number = n
       \/ v1[t].status # "live" /\ UNCHANGED v1
    /\ marred' = IF v1[t].number # 0 THEN marred \cup {t} ELSE marred
ZSaves(r, at, y) ==
  /\ pc[r] = "form" /\ at \in {"done", "refused"} /\ y = hand[r] /\ UNCHANGED <<v2, v3>>
  /\ \/ UNCHANGED <<v1, marred>>
     \/ /\ v1[y.trip].status = "live"
        /\ \E d \in ZRecord : ZPuts(y.trip, d) /\ ZLike(d, v1[y.trip]) /\ d.number = y.number
        /\ marred' = IF v1[y.trip].number # y.number THEN marred \cup {y.trip} ELSE marred
ZSets(r, at, y) ==
  /\ pc[r] = "settings" /\ at = "done" /\ y = hand[r] /\ UNCHANGED <<v1, v3>>
  /\ v2' = [v2 EXCEPT ![y.company] = y.number]
  /\ marred' = IF v2[y.company] # y.number THEN marred \cup {y.company} ELSE marred

ZDoes(r, at, y) ==
  \/ ZMakes(r, at, y) \/ ZDrafts(r, at, y) \/ ZInserts(r, at, y)
  \/ ZLooks(r, at, y) \/ ZOpens(r, at, y) \/ ZAsks(r, at, y) \/ ZReads(r, at, y) \/ ZCounts(r, at, y)
  \/ ZPrintsIt(r, at, y) \/ ZFills(r, at, y) \/ ZSaves(r, at, y) \/ ZSets(r, at, y)

ZGoes(r, at, y) ==
  at \in ZSteps /\ y \in ZHand /\ pc' = [pc EXCEPT ![r] = at] /\ hand' = [hand EXCEPT ![r] = y]

LEMMA ReceiptsIdle == Z!Idle \in ZHand
BY DEF Z!Idle, Z!None, ZHand, ZSeen

LEMMA ReceiptsDo ==
  ASSUME ZTyped, ZTrips, ZHeld, NEW r \in Two, ZStep(r)
  PROVE  \E at \in ZSteps, y \in ZHand : ZGoes(r, at, y) /\ ZDoes(r, at, y)
<1> DEFINE Goal == \E at \in ZSteps, y \in ZHand : ZGoes(r, at, y) /\ ZDoes(r, at, y)
<1> SUFFICES Goal
  OBVIOUS
<1>t. /\ v1 \in [ReceiptTrip -> ZRecord] /\ v2 \in [ReceiptCompany -> Nat \ {0}]
      /\ pc \in [Two -> ZSteps] /\ hand \in [Two -> ZHand]
      /\ hand[r] \in ZHand /\ ZHolds(r) /\ hand[r].number \in Nat
  BY DEF ZTyped, ZHeld, ZHand
<1>1. ASSUME NEW t \in ReceiptTrip, NEW c \in ReceiptCompany, Z!CreateTrip(r, t, c)
      PROVE  Goal
  <2> DEFINE y == [Z!Idle EXCEPT !.kind = "create", !.trip = t, !.company = c]
             d == [v1[t] EXCEPT !.status = "draft", !.company = c]
  <2>1. y \in ZHand /\ y.kind = "create" /\ y.trip = t /\ y.company = c
    BY ReceiptsIdle DEF ZHand
  <2>2. d \in ZRecord /\ d.status = "draft" /\ d.company = c /\ d.typed = v1[t].typed
    <3>1. v1[t] \in ZRecord
      BY <1>t
    <3> QED
      BY <3>1 DEF ZRecord
  <2>3. v1' = [v1 EXCEPT ![t] = d]
    BY <1>t, <1>1 DEF Z!CreateTrip
  <2>4. /\ pc' = [pc EXCEPT ![r] = "counter"] /\ hand' = [hand EXCEPT ![r] = y] /\ "counter" \in ZSteps
        /\ pc[r] = "new" /\ v1[t].status = "new" /\ UNCHANGED <<v2, v3, marred>>
    BY <1>1 DEF Z!CreateTrip, ZSteps
  <2> HIDE DEF y, d
  <2>5. ZDrafts(r, "counter", y)
    BY <2>1, <2>2, <2>3, <2>4 DEF ZDrafts, ZPuts
  <2> QED
    BY <2>1, <2>4, <2>5 DEF ZGoes, ZDoes
<1>2. ASSUME NEW t \in ReceiptTrip, NEW c \in ReceiptCompany, NEW n \in ReceiptTyped, Z!CreateTyped(r, t, c, n)
      PROVE  Goal
  <2> DEFINE d == [status |-> "live", company |-> c, customer |-> TRUE, number |-> n, typed |-> TRUE]
  <2>1. d \in ZRecord /\ d.status = "live" /\ d.company = c /\ d.typed
    BY OfficeReceipts DEF ZRecord
  <2>2. v1' = [v1 EXCEPT ![t] = d]
    BY <1>2 DEF Z!CreateTyped, Z!Insert
  <2>3. /\ pc' = [pc EXCEPT ![r] = "done"] /\ hand' = [hand EXCEPT ![r] = hand[r]] /\ "done" \in ZSteps
        /\ pc[r] = "new" /\ v1[t].status = "new" /\ UNCHANGED <<v2, v3, marred>>
    BY <1>t, <1>2 DEF Z!CreateTyped, ZSteps
  <2> HIDE DEF d
  <2>4. ZMakes(r, "done", hand[r])
    BY <2>1, <2>2, <2>3 DEF ZMakes, ZPuts
  <2> QED
    BY <1>t, <2>3, <2>4 DEF ZGoes, ZDoes
<1>3. ASSUME NEW s \in ReceiptTrip, NEW t \in ReceiptTrip, Z!CopyTrip(r, s, t)
      PROVE  Goal
  <2> DEFINE d == [v1[s] EXCEPT !.number = 0, !.typed = FALSE]
  <2>1. v1[s] \in ZRecord /\ v1[s].status = "live" /\ v1[s].company \in ReceiptCompany
    BY <1>t, <1>3 DEF Z!CopyTrip, Z!Live, ZTrips
  <2>2. d \in ZRecord /\ d.status = "live" /\ d.company \in ReceiptCompany /\ d.number = 0
    BY <2>1 DEF ZRecord
  <2>3. /\ v1' = [v1 EXCEPT ![t] = d]
        /\ pc' = [pc EXCEPT ![r] = "done"] /\ hand' = [hand EXCEPT ![r] = hand[r]] /\ "done" \in ZSteps
        /\ pc[r] = "new" /\ v1[t].status = "new" /\ UNCHANGED <<v2, v3, marred>>
    BY <1>t, <1>3 DEF Z!CopyTrip, Z!None, ZSteps
  <2> HIDE DEF d
  <2>4. ZMakes(r, "done", hand[r])
    BY <2>2, <2>3 DEF ZMakes, ZPuts
  <2> QED
    BY <1>t, <2>3, <2>4 DEF ZGoes, ZDoes
<1>4. CASE ZFinds(r)
  <2>1. PICK kind \in ZPrints, asked \in SUBSET ReceiptTrip, set \in SUBSET ReceiptTrip :
          /\ pc[r] = "new"
          /\ pc' = [pc EXCEPT ![r] = "sheets"] \/ pc' = [pc EXCEPT ![r] = "refused"]
          /\ Z!Found(r, kind, set, asked)
          /\ set \subseteq asked /\ \A t \in set : v1[t].status = "live"
          /\ kind = "archive" =>
               /\ \A t \in set : v1[t].customer
               /\ \A t, u \in set : v1[t].company = v1[u].company
    BY <1>4 DEF ZFinds
  <2> DEFINE seen == [t \in set |-> v1[t].number]
             y == [Z!Idle EXCEPT !.kind = kind, !.todo = set, !.asked = asked,
                                 !.skipped = asked \ set, !.seen = seen]
  <2>2. seen \in ZSeen /\ \A t \in set : seen[t] = v1[t].number
    <3>1. \A t \in set : v1[t].number \in Nat
      BY <1>t DEF ZRecord
    <3>2. seen \in [set -> Nat]
      BY <3>1
    <3> QED
      BY <3>2 DEF ZSeen
  <2>3. hand' = [hand EXCEPT ![r] = y] /\ UNCHANGED <<v1, v2, v3, marred>>
    BY <2>1 DEF Z!Found
  <2> HIDE DEF seen
  <2>4. /\ y \in ZHand /\ y.kind = kind /\ y.todo = set /\ y.asked = asked
        /\ y.skipped = asked \ set /\ y.seen = seen
    BY <2>2, ReceiptsIdle DEF ZHand
  <2> HIDE DEF y
  <2>5. PICK at \in {"sheets", "refused"} : pc' = [pc EXCEPT ![r] = at]
    BY <2>1
  <2>6. at \in ZSteps
    BY DEF ZSteps
  <2>7. ZLooks(r, at, y)
    BY <2>1, <2>2, <2>3, <2>4 DEF ZLooks
  <2> QED
    BY <2>3, <2>4, <2>5, <2>6, <2>7 DEF ZGoes, ZDoes
<1>5. ASSUME NEW t \in ReceiptTrip, Z!OpenForm(r, t)
      PROVE  Goal
  <2> DEFINE y == [Z!Idle EXCEPT !.kind = "form", !.trip = t, !.number = v1[t].number]
  <2>1. v1[t].number \in Nat
    BY <1>t DEF ZRecord
  <2>2. y \in ZHand /\ y.kind = "form" /\ y.trip = t /\ y.number = v1[t].number
    BY <2>1, ReceiptsIdle DEF ZHand
  <2>3. /\ pc' = [pc EXCEPT ![r] = "form"] /\ hand' = [hand EXCEPT ![r] = y] /\ "form" \in ZSteps
        /\ pc[r] = "new" /\ v1[t].status = "live" /\ UNCHANGED <<v1, v2, v3, marred>>
    BY <1>5 DEF Z!OpenForm, Z!Live, ZSteps
  <2> HIDE DEF y
  <2>4. ZOpens(r, "form", y)
    BY <2>2, <2>3 DEF ZOpens
  <2> QED
    BY <2>2, <2>3, <2>4 DEF ZGoes, ZDoes
<1>6. ASSUME NEW c \in ReceiptCompany, Z!OpenSettings(r, c)
      PROVE  Goal
  <2> DEFINE y == [Z!Idle EXCEPT !.kind = "settings", !.company = c, !.number = v2[c]]
  <2>1. v2[c] \in Nat
    BY <1>t
  <2>2. y \in ZHand /\ y.kind = "settings" /\ y.company = c /\ y.number = v2[c]
    BY <2>1, ReceiptsIdle DEF ZHand
  <2>3. /\ pc' = [pc EXCEPT ![r] = "settings"] /\ hand' = [hand EXCEPT ![r] = y] /\ "settings" \in ZSteps
        /\ pc[r] = "new" /\ UNCHANGED <<v1, v2, v3, marred>>
    BY <1>6 DEF Z!OpenSettings, ZSteps
  <2> HIDE DEF y
  <2>4. ZOpens(r, "settings", y)
    BY <2>2, <2>3 DEF ZOpens
  <2> QED
    BY <2>2, <2>3, <2>4 DEF ZGoes, ZDoes
<1>7. ASSUME NEW t \in ReceiptTrip, Z!TakeNumber(r, t)
      PROVE  Goal
  <2>0. t \in hand[r].todo /\ hand[r].seen[t] = 0 /\ pc[r] = "sheets" /\ v1[t].company \in ReceiptCompany
    <3>1. t \in hand[r].todo /\ hand[r].seen[t] = 0 /\ pc[r] = "sheets"
      BY <1>7 DEF Z!TakeNumber, Z!LacksNumber, Z!None
    <3>2. ZOld(t)
      BY <1>t, <3>1 DEF ZHolds, ZPrinting, ZKnows
    <3> QED
      BY <3>1, <3>2 DEF ZTrips, ZOld
  <2>c. PICK c \in ReceiptCompany : c = v1[t].company
    BY <2>0
  <2> DEFINE y == [hand[r] EXCEPT !.trip = t, !.company = c]
  <2>1. y \in ZHand /\ y.trip = t /\ y.company = c /\ ZAlike(y, hand[r]) /\ y.todo = hand[r].todo
    BY <1>t DEF ZHand, ZAlike
  <2>2. /\ pc' = [pc EXCEPT ![r] = "counter"] /\ hand' = [hand EXCEPT ![r] = y] /\ "counter" \in ZSteps
        /\ UNCHANGED <<v1, v2, v3, marred>>
    BY <1>t, <1>7, <2>c DEF Z!TakeNumber, ZSteps
  <2> HIDE DEF y
  <2>3. y.seen = hand[r].seen
    BY <2>1 DEF ZAlike
  <2>4. ZAsks(r, "counter", y)
    BY <2>0, <2>c, <2>1, <2>2, <2>3 DEF ZAsks
  <2> QED
    BY <2>1, <2>2, <2>4 DEF ZGoes, ZDoes
<1>8. CASE Z!ReadCounter(r)
  <2>0. pc[r] = "counter" /\ hand[r].company \in ReceiptCompany
    BY <1>t, <1>8 DEF Z!ReadCounter, ZHolds, ZTaking, ZTakes
  <2>c. PICK n \in Nat : n = v2[hand[r].company]
    BY <1>t, <2>0
  <2> DEFINE y == [hand[r] EXCEPT !.number = n]
  <2>1. /\ y \in ZHand /\ y.number = n /\ ZAlike(y, hand[r]) /\ y.todo = hand[r].todo
        /\ y.trip = hand[r].trip /\ y.company = hand[r].company
    BY <1>t DEF ZHand, ZAlike
  <2>2. /\ pc' = [pc EXCEPT ![r] = "taken"] /\ hand' = [hand EXCEPT ![r] = y] /\ "taken" \in ZSteps
        /\ UNCHANGED <<v1, v2, v3, marred>>
    BY <1>t, <1>8, <2>c DEF Z!ReadCounter, ZSteps
  <2> HIDE DEF y
  <2>3. ZReads(r, "taken", y)
    BY <2>0, <2>c, <2>1, <2>2 DEF ZReads
  <2> QED
    BY <2>1, <2>2, <2>3 DEF ZGoes, ZDoes
<1>9. CASE Z!WriteCounter(r)
  <2>1. /\ pc' = [pc EXCEPT ![r] = "number"] /\ hand' = [hand EXCEPT ![r] = hand[r]] /\ "number" \in ZSteps
    BY <1>t, <1>9 DEF Z!WriteCounter, ZSteps
  <2>2. ZCounts(r, "number", hand[r])
    BY <1>9 DEF Z!WriteCounter, ZCounts
  <2> QED
    BY <1>t, <2>1, <2>2 DEF ZGoes, ZDoes
<1>10. CASE Z!InsertTrip(r)
  <2>0. /\ pc[r] = "number" /\ hand[r].kind = "create" /\ hand[r].trip \in ReceiptTrip
        /\ hand[r].company \in ReceiptCompany
    BY <1>t, <1>10 DEF Z!InsertTrip, ZHolds, ZTaking, ZTakes
  <2> DEFINE d == [status |-> "live", company |-> hand[r].company, customer |-> TRUE,
                   number |-> hand[r].number, typed |-> FALSE]
  <2>1. /\ d \in ZRecord /\ d.status = "live" /\ d.company = hand[r].company
        /\ d.number = hand[r].number /\ ~d.typed
    BY <1>t, <2>0 DEF ZRecord
  <2>2. /\ v1' = [v1 EXCEPT ![hand[r].trip] = d] /\ UNCHANGED <<v2, v3, marred>>
        /\ pc' = [pc EXCEPT ![r] = "done"] /\ hand' = [hand EXCEPT ![r] = hand[r]] /\ "done" \in ZSteps
    BY <1>t, <1>10 DEF Z!InsertTrip, Z!Insert, ZSteps
  <2> HIDE DEF d
  <2>3. ZInserts(r, "done", hand[r])
    BY <2>0, <2>1, <2>2 DEF ZInserts, ZPuts
  <2> QED
    BY <1>t, <2>2, <2>3 DEF ZGoes, ZDoes
<1>11. ASSUME NEW t \in hand[r].todo, NEW n, NEW out \in Z!Uploads(r), Z!Render(r, t, n, out),
              hand' = [hand EXCEPT ![r].todo = @ \ {t}], n \in Nat \ {0}, UNCHANGED v2
       PROVE  \E at \in ZSteps, y \in ZHand : ZGoes(r, at, y) /\ ZHandsOut(r, at, y, t, n)
  <2>s. PICK set \in SUBSET ReceiptTrip : set = hand[r].todo \ {t}
    BY <1>t DEF ZHand
  <2> DEFINE y == [hand[r] EXCEPT !.todo = set]
             at == IF set = {} THEN "done" ELSE "sheets"
  <2>1. y \in ZHand /\ y.todo = set /\ ZAlike(y, hand[r])
    BY <1>t DEF ZHand, ZAlike
  <2>2. hand' = [hand EXCEPT ![r] = y] /\ pc' = [pc EXCEPT ![r] = at] /\ at \in ZSteps
    BY <1>t, <1>11, <2>s DEF Z!Render, ZSteps
  <2>3. \/ v3' = v3 \cup {[trip |-> t, number |-> n, by |-> r]}
        \/ v3' = v3 /\ y.kind # "archive"
    <3>1. CASE out
      BY <1>11, <3>1 DEF Z!Render
    <3>2. CASE ~out
      <4>1. hand[r].kind # "archive"
        BY <1>11, <3>2 DEF Z!Uploads
      <4> QED
        BY <1>11, <2>1, <3>2, <4>1 DEF Z!Render, ZAlike
    <3>3. out \in BOOLEAN
      BY <1>11 DEF Z!Uploads
    <3> QED
      BY <3>1, <3>2, <3>3
  <2> HIDE DEF y
  <2>4. ZHandsOut(r, at, y, t, n)
    BY <1>11, <2>s, <2>1, <2>3 DEF ZHandsOut
  <2> HIDE DEF at
  <2> QED
    BY <2>1, <2>2, <2>4 DEF ZGoes
<1>12. CASE ZPrintsOne(r)
  <2>1. PICK t \in ReceiptTrip, out \in Z!Uploads(r) : Z!PrintSheet(r, t, out)
    BY <1>12 DEF ZPrintsOne
  <2>2. PICK n : n = hand[r].seen[t]
    OBVIOUS
  <2>3. pc[r] = "sheets" /\ t \in hand[r].todo /\ n # 0 /\ Z!Render(r, t, n, out)
        /\ hand' = [hand EXCEPT ![r].todo = @ \ {t}] /\ UNCHANGED <<v1, v2, marred>>
    BY <2>1, <2>2 DEF Z!PrintSheet, Z!None
  <2>4. n \in Nat \ {0}
    BY <1>t, <2>2, <2>3 DEF ZHolds, ZPrinting, ZKnows
  <2>5. PICK at \in ZSteps, y \in ZHand : ZGoes(r, at, y) /\ ZHandsOut(r, at, y, t, n)
    BY <1>11, <2>3, <2>4
  <2>6. ZPrintsIt(r, at, y)
    BY <2>2, <2>3, <2>4, <2>5 DEF ZPrintsIt
  <2> QED
    BY <2>5, <2>6 DEF ZDoes
<1>13. CASE ZBackfills(r)
  <2>1. PICK out \in Z!Uploads(r) : Z!Backfill(r, out)
    BY <1>13 DEF ZBackfills
  <2>2. PICK t, n : t = hand[r].trip /\ n = hand[r].number
    OBVIOUS
  <2>3. /\ pc[r] = "number" /\ hand[r].kind # "create" /\ Z!Render(r, t, n, out)
        /\ hand' = [hand EXCEPT ![r].todo = @ \ {t}] /\ UNCHANGED v2
        /\ v1' = IF t \in Z!Live THEN [v1 EXCEPT ![t].number = n] ELSE v1
        /\ marred' = IF v1[t].number # hand[r].seen[t] THEN marred \cup {t} ELSE marred
    BY <2>1, <2>2 DEF Z!Backfill
  <2>4. /\ t \in hand[r].todo /\ hand[r].seen[t] = 0 /\ n \in Nat \ {0} /\ t \in ReceiptTrip
        /\ v1[t] \in ZRecord
    BY <1>t, <2>2, <2>3 DEF ZHolds, ZTaking, ZTakes
  <2>5. PICK at \in ZSteps, y \in ZHand : ZGoes(r, at, y) /\ ZHandsOut(r, at, y, t, n)
    BY <1>11, <2>3, <2>4
  <2>6. \/ v1[t].status = "live" /\ \E d \in ZRecord : ZPuts(t, d) /\ ZLike(d, v1[t]) /\ d.number = n
        \/ v1[t].status # "live" /\ UNCHANGED v1
    <3> DEFINE d == [v1[t] EXCEPT !.number = n]
    <3>1. d \in ZRecord /\ ZLike(d, v1[t]) /\ d.number = n
      BY <2>4 DEF ZRecord, ZLike
    <3>2. CASE v1[t].status = "live"
      <4>1. v1' = [v1 EXCEPT ![t] = d]
        BY <1>t, <2>3, <2>4, <3>2 DEF Z!Live
      <4> HIDE DEF d
      <4> QED
        BY <2>4, <3>1, <3>2, <4>1 DEF ZPuts
    <3>3. CASE v1[t].status # "live"
      BY <2>3, <3>3 DEF Z!Live
    <3> QED
      BY <3>2, <3>3
  <2>7. ZFills(r, at, y)
    BY <2>2, <2>3, <2>4, <2>5, <2>6 DEF ZFills
  <2> QED
    BY <2>5, <2>7 DEF ZDoes
<1>14. CASE Z!SaveForm(r)
  <2>1. pc[r] = "form" /\ hand[r].trip \in ReceiptTrip /\ v1[hand[r].trip] \in ZRecord
    BY <1>t, <1>14 DEF Z!SaveForm, ZHolds
  <2>t. PICK t \in ReceiptTrip : t = hand[r].trip
    BY <2>1
  <2>2. CASE t \in Z!Live
    <3> DEFINE d == [v1[t] EXCEPT !.number = hand[r].number]
    <3>1. d \in ZRecord /\ ZLike(d, v1[t]) /\ d.number = hand[r].number
      BY <1>t, <2>1, <2>t DEF ZRecord, ZLike
    <3>2. /\ v1' = [v1 EXCEPT ![t] = d] /\ UNCHANGED <<v2, v3>>
          /\ marred' = IF v1[t].number # hand[r].number THEN marred \cup {t} ELSE marred
          /\ pc' = [pc EXCEPT ![r] = "done"] /\ hand' = [hand EXCEPT ![r] = hand[r]] /\ "done" \in ZSteps
      BY <1>t, <1>14, <2>t, <2>2 DEF Z!SaveForm, ZSteps
    <3> HIDE DEF d
    <3>3. v1[t].status = "live"
      BY <2>2 DEF Z!Live
    <3>4. ZSaves(r, "done", hand[r])
      BY <2>1, <2>t, <3>1, <3>2, <3>3 DEF ZSaves, ZPuts
    <3> QED
      BY <1>t, <3>2, <3>4 DEF ZGoes, ZDoes
  <2>3. CASE t \notin Z!Live
    <3>1. /\ UNCHANGED <<v1, v2, v3, marred>>
          /\ pc' = [pc EXCEPT ![r] = "refused"] /\ hand' = [hand EXCEPT ![r] = hand[r]] /\ "refused" \in ZSteps
      BY <1>t, <1>14, <2>t, <2>3 DEF Z!SaveForm, ZSteps
    <3>2. ZSaves(r, "refused", hand[r])
      BY <2>1, <3>1 DEF ZSaves
    <3> QED
      BY <1>t, <3>1, <3>2 DEF ZGoes, ZDoes
  <2> QED
    BY <2>2, <2>3
<1>15. CASE Z!SaveSettings(r)
  <2>1. /\ pc' = [pc EXCEPT ![r] = "done"] /\ hand' = [hand EXCEPT ![r] = hand[r]] /\ "done" \in ZSteps
    BY <1>t, <1>15 DEF Z!SaveSettings, ZSteps
  <2>2. ZSets(r, "done", hand[r])
    BY <1>15 DEF Z!SaveSettings, ZSets
  <2> QED
    BY <1>t, <2>1, <2>2 DEF ZGoes, ZDoes
<1> HIDE DEF Goal
<1> QED
  BY <1>1, <1>2, <1>3, <1>4, <1>5, <1>6, <1>7, <1>8, <1>9, <1>10, <1>12, <1>13, <1>14, <1>15 DEF ZStep

LEMMA ReceiptsTyped ==
  ASSUME ZTyped, ZHeld, NEW r \in Two, NEW at, NEW y, ZGoes(r, at, y), ZDoes(r, at, y)
  PROVE  ZTyped'
<1>t. /\ v1 \in [ReceiptTrip -> ZRecord] /\ v2 \in [ReceiptCompany -> Nat \ {0}]
      /\ pc \in [Two -> ZSteps] /\ hand \in [Two -> ZHand]
      /\ v3 \subseteq [trip : ReceiptTrip, number : Nat \ {0}, by : Two]
      /\ hand[r] \in ZHand /\ ZHolds(r) /\ hand[r].number \in Nat
  BY DEF ZTyped, ZHeld, ZHand
<1>1. pc' \in [Two -> ZSteps] /\ hand' \in [Two -> ZHand]
  BY <1>t DEF ZGoes
<1>2. v1' \in [ReceiptTrip -> ZRecord]
  <2>1. UNCHANGED v1 \/ \E t, d : ZPuts(t, d)
    BY DEF ZDoes, ZMakes, ZDrafts, ZInserts, ZLooks, ZOpens, ZAsks, ZReads, ZCounts, ZPrintsIt,
      ZFills, ZSaves, ZSets
  <2> QED
    BY <1>t, <2>1 DEF ZPuts
<1>3. v2' \in [ReceiptCompany -> Nat \ {0}]
  <2>1. UNCHANGED v2 \/ \E c, n : v2' = [v2 EXCEPT ![c] = n] /\ n \in Nat \ {0}
    <3>1. CASE ZCounts(r, at, y)
      <4>1. hand[r].number + 1 \in Nat \ {0}
        BY <1>t
      <4> QED
        BY <3>1, <4>1 DEF ZCounts
    <3>2. CASE ZSets(r, at, y)
      BY <1>t, <3>2 DEF ZSets, ZHolds
    <3>3. CASE ~ZCounts(r, at, y) /\ ~ZSets(r, at, y)
      BY <3>3 DEF ZDoes, ZMakes, ZDrafts, ZInserts, ZLooks, ZOpens, ZAsks, ZReads, ZPrintsIt,
        ZFills, ZSaves, ZHandsOut
    <3> QED
      BY <3>1, <3>2, <3>3
  <2> QED
    BY <1>t, <2>1
<1>4. v3' \subseteq [trip : ReceiptTrip, number : Nat \ {0}, by : Two]
  <2>1. UNCHANGED v3 \/ \E t \in ReceiptTrip, n \in Nat : ZHandsOut(r, at, y, t, n)
    BY DEF ZDoes, ZMakes, ZDrafts, ZInserts, ZLooks, ZOpens, ZAsks, ZReads, ZCounts, ZPrintsIt,
      ZFills, ZSaves, ZSets
  <2>2. ASSUME NEW t \in ReceiptTrip, NEW n \in Nat, ZHandsOut(r, at, y, t, n)
        PROVE  v3' \subseteq [trip : ReceiptTrip, number : Nat \ {0}, by : Two]
    BY <1>t, <2>2 DEF ZHandsOut
  <2> QED
    BY <1>t, <2>1, <2>2
<1> QED
  BY <1>1, <1>2, <1>3, <1>4 DEF ZTyped

(* What a step does to a trip: one that is old keeps all but its number,   *)
(* and that changes only if there was none or the trip is marked; a draft  *)
(* becomes a trip by its own request.                                      *)
LEMMA ReceiptsTrip ==
  ASSUME ZTyped, ZHeld, NEW r \in Two, NEW at, NEW y, ZGoes(r, at, y), ZDoes(r, at, y),
         NEW t \in ReceiptTrip
  PROVE  /\ ZOld(t) => /\ ZLike(v1'[t], v1[t])
                       /\ v1'[t].number = v1[t].number \/ v1[t].number = 0 \/ t \in marred'
         /\ v1[t].status = "draft" =>
              \/ v1'[t] = v1[t]
              \/ ZInserts(r, at, y) /\ y.trip = t
         /\ v1[t].status = "new" => v1'[t] = v1[t] \/ ZMakes(r, at, y) \/ ZDrafts(r, at, y)
         /\ v1'[t].status = "new" => v1'[t] = v1[t]
         /\ v1'[t].status = "live" => v1[t].status = "live" \/ ZMakes(r, at, y) \/ ZInserts(r, at, y)
<1>t. /\ v1 \in [ReceiptTrip -> ZRecord] /\ ZHolds(r)
  BY DEF ZTyped, ZHeld
<1>p. \A u, d : ZPuts(u, d) => v1'[t] = IF t = u THEN d ELSE v1[t]
  BY <1>t DEF ZPuts
<1>s. v1[t].status \in {"new", "draft", "live", "gone"}
  BY <1>t DEF ZRecord
<1>1. CASE UNCHANGED v1
  BY <1>1 DEF ZLike, ZOld
<1>2. CASE ZMakes(r, at, y)
  <2>1. PICK u, d : ZPuts(u, d) /\ v1[u].status = "new" /\ d.status = "live"
    BY <1>2 DEF ZMakes
  <2> QED
    BY <1>p, <1>2, <2>1 DEF ZOld, ZLike
<1>3. CASE ZDrafts(r, at, y)
  <2>1. PICK u, d : ZPuts(u, d) /\ v1[u].status = "new" /\ d.status = "draft"
    BY <1>3 DEF ZDrafts
  <2> QED
    BY <1>p, <1>3, <2>1 DEF ZOld, ZLike
<1>4. CASE ZInserts(r, at, y)
  <2>1. v1[y.trip].status = "draft"
    BY <1>t, <1>4 DEF ZInserts, ZHolds, ZTaking, ZTakes
  <2>2. PICK d : ZPuts(y.trip, d) /\ d.status = "live"
    BY <1>4 DEF ZInserts
  <2> QED
    BY <1>p, <1>4, <2>1, <2>2 DEF ZOld, ZLike
<1>5. CASE ZFills(r, at, y) \/ ZSaves(r, at, y)
  <2>1. CASE UNCHANGED v1
    BY <1>1, <2>1
  <2>2. CASE ~UNCHANGED v1
    <3>1. PICK u, d : /\ ZPuts(u, d) /\ ZLike(d, v1[u]) /\ v1[u].status = "live"
                      /\ d.number = v1[u].number \/ v1[u].number = 0 \/ u \in marred'
      <4>1. CASE ZFills(r, at, y)
        BY <2>2, <4>1 DEF ZFills
      <4>2. CASE ZSaves(r, at, y)
        BY <2>2, <4>2 DEF ZSaves
      <4> QED
        BY <1>5, <4>1, <4>2
    <3> QED
      BY <1>p, <3>1 DEF ZOld, ZLike
  <2> QED
    BY <2>1, <2>2
<1> QED
  BY <1>1, <1>2, <1>3, <1>4, <1>5 DEF ZDoes, ZLooks, ZOpens, ZAsks, ZReads, ZCounts, ZPrintsIt, ZSets

(* What one knows of a trip stays true.                                    *)
LEMMA ReceiptsKnow ==
  ASSUME ZTyped, ZHeld, NEW r \in Two, NEW at, NEW y, ZGoes(r, at, y), ZDoes(r, at, y),
         marred \subseteq marred',
         NEW t \in ReceiptTrip, NEW q \in Two, ZKnows(q, t), hand'[q].seen = hand[q].seen
  PROVE  ZKnows(q, t)'
<1>1. /\ ZLike(v1'[t], v1[t])
      /\ v1'[t].number = v1[t].number \/ v1[t].number = 0 \/ t \in marred'
  BY ReceiptsTrip DEF ZKnows
<1>2. v1'[t].status = v1[t].status
  BY <1>1 DEF ZLike
<1> QED
  BY <1>1, <1>2 DEF ZKnows, ZOld

(* So does what is said of the trips of an archive.                        *)
LEMMA ReceiptsPack ==
  ASSUME ZTyped, ZHeld, NEW r \in Two, NEW at, NEW y, ZGoes(r, at, y), ZDoes(r, at, y),
         NEW set \in SUBSET ReceiptTrip,
         \A t \in set : ZOld(t) /\ v1[t].customer,
         \A t, u \in set : v1[t].company = v1[u].company
  PROVE  /\ \A t \in set : ZOld(t)' /\ v1'[t].customer
         /\ \A t, u \in set : v1'[t].company = v1'[u].company
<1>1. \A t \in set : ZLike(v1'[t], v1[t])
  BY ReceiptsTrip
<1> QED
  BY <1>1 DEF ZLike, ZOld

LEMMA ReceiptsOthers ==
  ASSUME ZTyped, ZHeld, ZApart, NEW r \in Two, NEW at, NEW y, ZGoes(r, at, y), ZDoes(r, at, y),
         marred \subseteq marred', \A p \in v3' : p \in v3 \/ p.by = r, v3 \subseteq v3',
         NEW q \in Two, q # r
  PROVE  ZHolds(q)'
<1>t. /\ pc \in [Two -> ZSteps] /\ hand \in [Two -> ZHand] /\ ZHolds(q) /\ hand[q] \in ZHand
  BY DEF ZTyped, ZHeld
<1>1. pc'[q] = pc[q] /\ hand'[q] = hand[q]
  BY <1>t DEF ZGoes
<1>2. ZPrinted(q)' = ZPrinted(q)
  BY DEF ZPrinted
<1>3. ZTaking(q) => ZTakes(q)'
  <2> SUFFICES ASSUME ZTaking(q) PROVE ZTakes(q)'
    OBVIOUS
  <2>1. ZTakes(q)
    BY <1>t DEF ZHolds
  <2>2. hand[q].kind = "create" => v1'[hand[q].trip] = v1[hand[q].trip]
    <3>1. ASSUME hand[q].kind = "create", ZInserts(r, at, y), y.trip = hand[q].trip
          PROVE  FALSE
      <4>1. ZCreating(r) /\ y = hand[r]
        BY <3>1 DEF ZInserts, ZCreating, ZTaking
      <4>2. ZCreating(q)
        BY <3>1 DEF ZCreating
      <4> QED
        BY <3>1, <4>1, <4>2 DEF ZApart
    <3> QED
      BY <2>1, <3>1, ReceiptsTrip DEF ZTakes
  <2>3. hand[q].kind # "create" => v1'[hand[q].trip].company = v1[hand[q].trip].company
    <3>1. ASSUME hand[q].kind # "create" PROVE ZOld(hand[q].trip)
      BY <1>t, <2>1, <3>1 DEF ZHolds, ZTakes, ZPrinting, ZKnows
    <3> QED
      BY <2>1, <3>1, ReceiptsTrip DEF ZTakes, ZLike
  <2> QED
    BY <1>1, <2>1, <2>2, <2>3 DEF ZTakes
<1>4. pc[q] = "form" => ZOld(hand[q].trip)'
  <2>1. pc[q] = "form" => ZOld(hand[q].trip) /\ hand[q].trip \in ReceiptTrip
    BY <1>t DEF ZHolds
  <2> QED
    BY <1>1, <2>1, ReceiptsTrip DEF ZOld, ZLike
<1>5. ZPrinting(q) => \A t \in hand[q].todo : ZKnows(q, t)'
  <2>1. hand[q].todo \subseteq ReceiptTrip
    BY <1>t DEF ZHand
  <2> QED
    BY <1>t, <1>1, <2>1, ReceiptsKnow DEF ZHolds
<1>6. ZPacks(q) => ZPacks(q)'
  <2>1. ZWanted(q)' = ZWanted(q) /\ ZWanted(q) \in SUBSET ReceiptTrip
    BY <1>t, <1>1 DEF ZWanted, ZHand
  <2> QED
    BY <1>1, <1>2, <2>1, ReceiptsPack DEF ZPacks
<1>7. ZTaking(q)' = ZTaking(q) /\ ZPrinting(q)' = ZPrinting(q)
  BY <1>1 DEF ZTaking, ZPrinting
<1> HIDE DEF ZTaking, ZPrinting, ZTakes, ZKnows, ZPacks
<1> QED
  BY <1>t, <1>1, <1>2, <1>3, <1>4, <1>5, <1>6, <1>7 DEF ZHolds

LEMMA ReceiptsSelf ==
  ASSUME ZTyped, ZTrips, ZHeld, NEW r \in Two, NEW at, NEW y, ZGoes(r, at, y), ZDoes(r, at, y),
         marred \subseteq marred'
  PROVE  ZHolds(r)'
<1>t. /\ pc \in [Two -> ZSteps] /\ hand \in [Two -> ZHand] /\ ZHolds(r) /\ hand[r] \in ZHand
      /\ v1 \in [ReceiptTrip -> ZRecord] /\ v2 \in [ReceiptCompany -> Nat \ {0}]
      /\ y \in ZHand /\ hand[r].todo \subseteq ReceiptTrip /\ y.todo \subseteq ReceiptTrip
  BY DEF ZTyped, ZHeld, ZGoes, ZHand
<1>g. pc'[r] = at /\ hand'[r] = y
  BY <1>t DEF ZGoes
<1>1. CASE ZMakes(r, at, y)
  <2>1. at = "done" /\ y.kind = "none"
    BY <1>t, <1>1 DEF ZMakes, ZHolds
  <2> QED
    BY <1>g, <2>1 DEF ZHolds, ZTaking, ZPrinting
<1>2. CASE ZDrafts(r, at, y)
  <2>1. at = "counter" /\ y.kind = "create" /\ y.trip \in ReceiptTrip /\ y.company \in ReceiptCompany
    BY <1>2 DEF ZDrafts
  <2>2. v1'[y.trip].status = "draft" /\ v1'[y.trip].company = y.company
    BY <1>t, <1>2 DEF ZDrafts, ZPuts
  <2>3. ZTakes(r)'
    BY <1>g, <2>1, <2>2 DEF ZTakes
  <2> QED
    BY <1>g, <2>1, <2>3 DEF ZHolds, ZTaking, ZPrinting
<1>3. CASE ZInserts(r, at, y)
  <2>1. at = "done" /\ y.kind = "create"
    BY <1>3 DEF ZInserts
  <2> QED
    BY <1>g, <2>1 DEF ZHolds, ZTaking, ZPrinting
<1>4. CASE ZLooks(r, at, y)
  <2>1. /\ at \in {"sheets", "refused"} /\ y.kind \in ZPrints /\ y.todo \subseteq y.asked
        /\ y.skipped = y.asked \ y.todo /\ UNCHANGED <<v1, v3, marred>>
        /\ \A t \in y.todo : v1[t].status = "live" /\ y.seen[t] = v1[t].number
        /\ y.kind = "archive" =>
             /\ \A t \in y.todo : v1[t].customer
             /\ \A t, u \in y.todo : v1[t].company = v1[u].company
    BY <1>4 DEF ZLooks
  <2>2. \A t \in y.todo : ZKnows(r, t)'
    <3>1. \A t \in y.todo : v1[t].number \in Nat
      BY <1>t DEF ZRecord
    <3> QED
      BY <1>g, <2>1, <3>1 DEF ZKnows, ZOld
  <2>3. ZPrinted(r)' = {}
    BY <1>t, <1>4, <2>1 DEF ZLooks, ZHolds, ZPrinted
  <2>4. ZWanted(r)' = y.todo
    BY <1>g, <2>1 DEF ZWanted
  <2>5. y.kind = "archive" => ZPacks(r)'
    BY <1>g, <2>1, <2>3, <2>4 DEF ZPacks, ZOld
  <2> QED
    BY <1>g, <2>1, <2>2, <2>5 DEF ZHolds, ZTaking, ZPrinting
<1>5. CASE ZOpens(r, at, y)
  <2>1. UNCHANGED <<v1, v2>>
    BY <1>5 DEF ZOpens
  <2>2. CASE at = "form" /\ y.kind = "form" /\ y.trip \in ReceiptTrip /\ v1[y.trip].status = "live"
    BY <1>g, <2>1, <2>2 DEF ZHolds, ZTaking, ZPrinting, ZOld
  <2>3. CASE at = "settings" /\ y.kind = "settings" /\ y.company \in ReceiptCompany /\ y.number = v2[y.company]
    <3>1. y.number # 0
      BY <1>t, <2>3
    <3> QED
      BY <1>g, <2>3, <3>1 DEF ZHolds, ZTaking, ZPrinting
  <2> QED
    BY <1>5, <2>2, <2>3 DEF ZOpens
<1>6. CASE ZAsks(r, at, y) \/ ZReads(r, at, y) \/ ZCounts(r, at, y)
  <2>1. /\ at \in {"counter", "taken", "number"} /\ UNCHANGED <<v1, v3>>
        /\ y.kind = hand[r].kind /\ y.seen = hand[r].seen /\ y.asked = hand[r].asked
        /\ y.skipped = hand[r].skipped /\ y.todo = hand[r].todo
        /\ at \in {"taken", "number"} => ZReads(r, at, y) \/ ZCounts(r, at, y)
    BY <1>6 DEF ZAsks, ZReads, ZCounts, ZAlike
  <2>2. hand[r].kind \in ZPrints \cup {"create"}
    BY <1>t, <1>6 DEF ZAsks, ZReads, ZCounts, ZHolds, ZTaking
  <2>3. ZTakes(r)'
    <3>1. CASE ZAsks(r, at, y)
      <4>1. hand[r].kind # "create" /\ ZOld(y.trip) /\ y.trip \in ReceiptTrip
        BY <1>t, <2>1, <3>1 DEF ZAsks, ZHolds, ZPrints, ZPrinting, ZKnows
      <4>2. v1[y.trip].company \in ReceiptCompany
        BY <4>1 DEF ZTrips, ZOld
      <4> QED
        BY <1>g, <2>1, <3>1, <4>1, <4>2 DEF ZAsks, ZTakes
    <3>2. CASE ZReads(r, at, y) \/ ZCounts(r, at, y)
      <4>1. ZTakes(r) /\ y.trip = hand[r].trip /\ y.company = hand[r].company
        BY <1>t, <3>2 DEF ZReads, ZCounts, ZHolds, ZTaking
      <4> QED
        BY <1>g, <2>1, <4>1 DEF ZTakes
    <3> QED
      BY <1>6, <3>1, <3>2
  <2>4. at \in {"taken", "number"} => y.number # 0
    <3>1. CASE ZReads(r, at, y)
      <4>1. y.company \in ReceiptCompany
        BY <1>t, <3>1 DEF ZReads, ZHolds, ZTaking, ZTakes
      <4> QED
        BY <1>t, <3>1, <4>1 DEF ZReads
    <3>2. CASE ZCounts(r, at, y)
      BY <1>t, <3>2 DEF ZCounts, ZHolds
    <3> QED
      BY <2>1, <3>1, <3>2
  <2>5. y.kind # "create" => ZPrinting(r)
    BY <1>6, <2>1 DEF ZAsks, ZReads, ZCounts, ZPrinting, ZTaking
  <2>6. y.kind # "create" => \A t \in y.todo : ZKnows(r, t)'
    BY <1>t, <1>g, <2>1, <2>5 DEF ZHolds, ZKnows, ZOld
  <2>7. y.kind = "archive" => ZPacks(r)'
    <3>1. ZPrinted(r)' = ZPrinted(r) /\ ZWanted(r)' = ZWanted(r)
      BY <1>g, <2>1 DEF ZPrinted, ZWanted
    <3>2. y.kind = "archive" => ZPacks(r)
      BY <1>t, <2>1, <2>5 DEF ZHolds
    <3> QED
      BY <1>g, <2>1, <3>1, <3>2 DEF ZPacks, ZOld
  <2> QED
    BY <1>g, <2>1, <2>2, <2>3, <2>4, <2>6, <2>7 DEF ZHolds, ZTaking, ZPrinting
<1>7. CASE ZPrintsIt(r, at, y) \/ ZFills(r, at, y)
  <2>1. PICK t \in ReceiptTrip, n \in Nat : ZHandsOut(r, at, y, t, n)
    BY <1>7 DEF ZPrintsIt, ZFills
  <2>2. /\ y.kind = hand[r].kind /\ y.seen = hand[r].seen /\ y.asked = hand[r].asked
        /\ y.skipped = hand[r].skipped /\ y.todo = hand[r].todo \ {t} /\ t \in hand[r].todo
        /\ at = IF y.todo = {} THEN "done" ELSE "sheets"
        /\ \/ v3' = v3 \cup {[trip |-> t, number |-> n, by |-> r]}
           \/ v3' = v3 /\ y.kind # "archive"
    BY <2>1 DEF ZHandsOut, ZAlike
  <2>3. hand[r].kind \in ZPrints /\ ZPrinting(r)
    BY <1>t, <1>7 DEF ZPrintsIt, ZFills, ZHolds, ZPrinting, ZTaking
  <2>4. \A u \in y.todo : ZKnows(r, u)'
    BY <1>t, <1>g, <2>2, <2>3, ReceiptsKnow DEF ZHolds
  <2>5. y.kind = "archive" => ZPacks(r)'
    <3> SUFFICES ASSUME y.kind = "archive" PROVE ZPacks(r)'
      OBVIOUS
    <3>1. ZPacks(r)
      BY <1>t, <2>2, <2>3 DEF ZHolds
    <3>2. ZPrinted(r)' = ZPrinted(r) \cup {t}
      <4>1. PICK p : p = [trip |-> t, number |-> n, by |-> r]
        OBVIOUS
      <4>2. p.trip = t /\ p.by = r /\ v3' = v3 \cup {p}
        BY <2>2, <4>1
      <4> QED
        BY <4>2 DEF ZPrinted
    <3>3. ZWanted(r)' = ZWanted(r) /\ ZWanted(r) \in SUBSET ReceiptTrip
      BY <1>t, <1>g, <2>2 DEF ZWanted, ZHand
    <3>4. /\ \A u \in ZWanted(r) : ZOld(u)' /\ v1'[u].customer
          /\ \A u, w \in ZWanted(r) : v1'[u].company = v1'[w].company
      BY <3>1, <3>3, ReceiptsPack DEF ZPacks
    <3>5. y.todo \subseteq ZWanted(r) /\ ZPrinted(r) \cup {t} = ZWanted(r) \ y.todo
      BY <2>2, <3>1 DEF ZPacks
    <3> QED
      BY <1>g, <3>2, <3>3, <3>4, <3>5 DEF ZPacks
  <2>6. at \in {"done", "sheets"} /\ (at = "done" => y.todo = {})
    BY <2>2
  <2> QED
    BY <1>g, <2>2, <2>3, <2>4, <2>5, <2>6 DEF ZHolds, ZTaking
<1>8. CASE ZSaves(r, at, y) \/ ZSets(r, at, y)
  <2>1. at \in {"done", "refused"} /\ y.kind \in {"form", "settings"}
    BY <1>t, <1>8 DEF ZSaves, ZSets, ZHolds
  <2> QED
    BY <1>g, <2>1 DEF ZHolds, ZTaking, ZPrinting
<1> QED
  BY <1>1, <1>2, <1>3, <1>4, <1>5, <1>6, <1>7, <1>8 DEF ZDoes

LEMMA ReceiptsApart ==
  ASSUME ZTyped, ZHeld, ZApart, NEW r \in Two, NEW at, NEW y, ZGoes(r, at, y), ZDoes(r, at, y)
  PROVE  ZApart'
<1>t. pc \in [Two -> ZSteps] /\ hand \in [Two -> ZHand]
  BY DEF ZTyped
<1>g. pc'[r] = at /\ hand'[r] = y /\ \A q \in Two : q # r => pc'[q] = pc[q] /\ hand'[q] = hand[q]
  BY <1>t DEF ZGoes
<1>1. \A q \in Two : q # r => ZCreating(q)' = ZCreating(q)
  BY <1>g DEF ZCreating, ZTaking
<1>2. ZCreating(r)' => (ZCreating(r) /\ y.trip = hand[r].trip) \/ v1[y.trip].status = "new"
  <2> SUFFICES ASSUME ZCreating(r)'
               PROVE  (ZCreating(r) /\ y.trip = hand[r].trip) \/ v1[y.trip].status = "new"
    OBVIOUS
  <2>1. at \in {"counter", "taken", "number"} /\ y.kind = "create"
    BY <1>g DEF ZCreating, ZTaking
  <2>2. CASE ZDrafts(r, at, y)
    BY <2>2 DEF ZDrafts
  <2>3. CASE ZReads(r, at, y) \/ ZCounts(r, at, y)
    BY <2>1, <2>3 DEF ZReads, ZCounts, ZAlike, ZCreating, ZTaking
  <2>4. CASE ZAsks(r, at, y)
    BY <2>1, <2>4 DEF ZAsks, ZAlike, ZHeld, ZHolds, ZPrints
  <2>5. CASE ZLooks(r, at, y) \/ ZMakes(r, at, y) \/ ZInserts(r, at, y) \/ ZOpens(r, at, y)
             \/ ZSaves(r, at, y) \/ ZSets(r, at, y)
    BY <2>1, <2>5 DEF ZLooks, ZMakes, ZInserts, ZOpens, ZSaves, ZSets
  <2>6. CASE ZPrintsIt(r, at, y) \/ ZFills(r, at, y)
    <3>1. at \in {"done", "sheets"}
      BY <2>6 DEF ZPrintsIt, ZFills, ZHandsOut
    <3> QED
      BY <2>1, <3>1
  <2> QED
    BY <2>2, <2>3, <2>4, <2>5, <2>6 DEF ZDoes
<1>3. \A q \in Two : ZCreating(q) => v1[hand[q].trip].status = "draft"
  BY DEF ZHeld, ZHolds, ZCreating, ZTakes
<1>4. \A q \in Two : q # r /\ ZCreating(q) /\ ZCreating(r)' => hand[q].trip # y.trip
  BY <1>2, <1>3 DEF ZApart
<1> QED
  BY <1>g, <1>1, <1>4 DEF ZApart

LEMMA ReceiptsTrips ==
  ASSUME ZTyped, ZTyped', ZTrips, ZHeld, NEW r \in Two, NEW at, NEW y, ZGoes(r, at, y), ZDoes(r, at, y)
  PROVE  ZTrips'
<1>1. SUFFICES ASSUME NEW t \in ReceiptTrip
               PROVE  /\ v1'[t].status \in {"new", "draft"} => ~v1'[t].typed
                      /\ v1'[t].status # "new" => v1'[t].company \in ReceiptCompany
  BY DEF ZTrips
<1>t. /\ v1 \in [ReceiptTrip -> ZRecord] /\ ZHolds(r)
      /\ v1[t].status \in {"new", "draft", "live", "gone"}
  BY DEF ZTyped, ZHeld, ZRecord
<1>h. /\ v1[t].status \in {"new", "draft"} => ~v1[t].typed
      /\ v1[t].status # "new" => v1[t].company \in ReceiptCompany
  BY DEF ZTrips
<1>p. \A u, d : ZPuts(u, d) => v1'[t] = IF t = u THEN d ELSE v1[t]
  BY <1>t DEF ZPuts
<1>2. CASE ZOld(t)
  BY <1>2, <1>h, ReceiptsTrip DEF ZOld, ZLike
<1>3. CASE v1[t].status = "draft"
  <2>1. CASE v1'[t] = v1[t]
    BY <1>h, <2>1
  <2>2. CASE ZInserts(r, at, y) /\ y.trip = t
    <3>1. y.company \in ReceiptCompany
      BY <1>t, <2>2 DEF ZInserts, ZHolds, ZTaking, ZTakes
    <3>2. PICK d : ZPuts(t, d) /\ d.status = "live" /\ d.company = y.company
      BY <2>2 DEF ZInserts
    <3> QED
      BY <1>p, <3>1, <3>2
  <2> QED
    BY <1>3, <2>1, <2>2, ReceiptsTrip
<1>4. CASE v1[t].status = "new"
  <2>1. CASE v1'[t] = v1[t]
    BY <1>h, <2>1
  <2>2. CASE ZMakes(r, at, y)
    <3>1. PICK u, d : ZPuts(u, d) /\ d.status = "live" /\ d.company \in ReceiptCompany
      BY <2>2 DEF ZMakes
    <3> QED
      BY <1>p, <1>h, <3>1
  <2>3. CASE ZDrafts(r, at, y)
    <3>1. PICK d : ZPuts(y.trip, d) /\ d.company \in ReceiptCompany /\ d.typed = v1[y.trip].typed
      BY <2>3 DEF ZDrafts
    <3> QED
      BY <1>4, <1>p, <1>h, <3>1
  <2> QED
    BY <1>4, <2>1, <2>2, <2>3, ReceiptsTrip
<1> QED
  BY <1>t, <1>2, <1>3, <1>4 DEF ZOld

LEMMA ReceiptsPapers ==
  ASSUME ZTyped, ZHeld, ZPapers, NEW r \in Two, NEW at, NEW y, ZGoes(r, at, y), ZDoes(r, at, y),
         marred \subseteq marred'
  PROVE  ZPapers'
<1>t. /\ v1 \in [ReceiptTrip -> ZRecord] /\ ZHolds(r)
      /\ v3 \subseteq [trip : ReceiptTrip, number : Nat \ {0}, by : Two]
      /\ hand[r] \in ZHand /\ hand[r].todo \subseteq ReceiptTrip
  BY DEF ZTyped, ZHeld, ZHand
<1> DEFINE Fine(p) == /\ ZOld(p.trip)'
                      /\ v1'[p.trip].status = "live" /\ p.trip \notin marred'
                           => p.number = v1'[p.trip].number
<1>1. ASSUME NEW p \in v3
      PROVE  Fine(p)
  <2>1. p.trip \in ReceiptTrip /\ p.number # 0
    BY <1>t
  <2>2. /\ ZOld(p.trip)
        /\ v1[p.trip].status = "live" /\ p.trip \notin marred => p.number = v1[p.trip].number
    BY DEF ZPapers, Z!PapersBearTheNumber
  <2>3. /\ ZLike(v1'[p.trip], v1[p.trip])
        /\ v1'[p.trip].number = v1[p.trip].number \/ v1[p.trip].number = 0 \/ p.trip \in marred'
    BY <2>1, <2>2, ReceiptsTrip
  <2> QED
    BY <2>1, <2>2, <2>3 DEF ZOld, ZLike
<1>2. ASSUME ZPrintsIt(r, at, y), NEW p \in v3', p \notin v3
      PROVE  Fine(p)
  <2>1. PICK t \in ReceiptTrip, n \in Nat :
          /\ ZHandsOut(r, at, y, t, n)
          /\ pc[r] = "sheets" /\ hand[r].seen[t] = n /\ UNCHANGED <<v1, marred>>
    BY <1>2 DEF ZPrintsIt
  <2>2. p = [trip |-> t, number |-> n, by |-> r] /\ t \in hand[r].todo /\ n # 0
    BY <1>2, <2>1 DEF ZHandsOut
  <2>3. ZKnows(r, t)
    BY <1>t, <2>1, <2>2 DEF ZHolds, ZPrinting
  <2>4. p.trip = t /\ p.number = n
    BY <2>2
  <2> QED
    BY <2>1, <2>2, <2>3, <2>4 DEF ZKnows, ZOld
<1>3. ASSUME ZFills(r, at, y), NEW p \in v3', p \notin v3
      PROVE  Fine(p)
  <2>1. PICK t \in ReceiptTrip, n \in Nat :
          /\ ZHandsOut(r, at, y, t, n)
          /\ pc[r] = "number" /\ hand[r].kind # "create" /\ t = hand[r].trip
          /\ \/ v1[t].status = "live" /\ \E d \in ZRecord : ZPuts(t, d) /\ ZLike(d, v1[t]) /\ d.number = n
             \/ v1[t].status # "live" /\ UNCHANGED v1
    BY <1>3 DEF ZFills
  <2>2. p = [trip |-> t, number |-> n, by |-> r] /\ t \in hand[r].todo
    BY <1>3, <2>1 DEF ZHandsOut
  <2>3. ZOld(t)
    BY <1>t, <2>1, <2>2 DEF ZHolds, ZPrinting, ZTaking, ZKnows
  <2>4. p.trip = t /\ p.number = n
    BY <2>2
  <2>5. CASE v1[t].status # "live" /\ UNCHANGED v1
    BY <2>3, <2>4, <2>5 DEF ZOld
  <2>6. ASSUME NEW d \in ZRecord, ZPuts(t, d), ZLike(d, v1[t]), d.number = n
        PROVE  Fine(p)
    <3>1. v1'[t] = d
      BY <1>t, <2>6 DEF ZPuts
    <3> QED
      BY <2>3, <2>4, <2>6, <3>1 DEF ZOld, ZLike
  <2> QED
    BY <2>1, <2>5, <2>6
<1>4. ASSUME NEW p \in v3'
      PROVE  Fine(p)
  <2>1. p \in v3 \/ ZPrintsIt(r, at, y) \/ ZFills(r, at, y)
    BY <1>4 DEF ZDoes, ZMakes, ZDrafts, ZInserts, ZLooks, ZOpens, ZAsks, ZReads, ZCounts, ZSaves, ZSets
  <2> HIDE DEF Fine
  <2> QED
    BY <1>1, <1>2, <1>3, <2>1
<1> QED
  BY <1>4 DEF ZPapers, Z!PapersBearTheNumber

(* A trip that has been begun keeps its company, and whether its number    *)
(* was typed.                                                              *)
LEMMA ReceiptsFixed ==
  ASSUME ZTyped, ZTrips, ZHeld, NEW r \in Two, NEW at, NEW y, ZGoes(r, at, y), ZDoes(r, at, y),
         NEW t \in ReceiptTrip, v1[t].status # "new"
  PROVE  v1'[t].company = v1[t].company /\ v1'[t].typed = v1[t].typed
<1>t. /\ v1 \in [ReceiptTrip -> ZRecord] /\ ZHolds(r)
      /\ v1[t].status \in {"new", "draft", "live", "gone"} /\ v1[t].typed \in BOOLEAN
  BY DEF ZTyped, ZHeld, ZRecord
<1>1. CASE ZOld(t)
  BY <1>1, ReceiptsTrip DEF ZLike
<1>2. CASE v1[t].status = "draft"
  <2>1. CASE ZInserts(r, at, y) /\ y.trip = t
    <3>1. v1[t].company = y.company
      BY <1>t, <2>1 DEF ZInserts, ZHolds, ZTaking, ZTakes
    <3>2. PICK d \in ZRecord : ZPuts(t, d) /\ d.company = y.company /\ ~d.typed
      BY <2>1 DEF ZInserts
    <3>3. v1'[t] = d
      BY <1>t, <3>2 DEF ZPuts
    <3>4. d.typed \in BOOLEAN /\ ~v1[t].typed
      BY <1>2, <3>2 DEF ZRecord, ZTrips
    <3>5. d.typed = v1[t].typed
      BY <1>t, <3>2, <3>4
    <3> QED
      BY <3>1, <3>2, <3>3, <3>5
  <2> QED
    BY <1>2, <2>1, ReceiptsTrip
<1> QED
  BY <1>t, <1>1, <1>2 DEF ZOld

LEMMA ReceiptsBegun ==
  ASSUME ZHeld, NEW t \in ReceiptTrip, NEW n, ZClaims(t, n)
  PROVE  v1[t].status # "new"
<1>1. ASSUME NEW q \in Two, pc[q] \in {"form", "number"}, hand[q].trip = t
      PROVE  v1[t].status # "new"
  <2>1. ZHolds(q)
    BY DEF ZHeld
  <2>2. CASE pc[q] = "form"
    BY <1>1, <2>1, <2>2 DEF ZHolds, ZOld
  <2>3. CASE pc[q] = "number"
    BY <1>1, <2>1, <2>3 DEF ZHolds, ZTaking, ZTakes, ZPrinting, ZKnows, ZOld
  <2> QED
    BY <1>1, <2>2, <2>3
<1> QED
  BY <1>1 DEF ZClaims

(* Who claims a number has claimed it before, or has just counted it, or   *)
(* somebody has typed it.                                                  *)
LEMMA ReceiptsClaim ==
  ASSUME ZTyped, ZHeld, NEW r \in Two, NEW at, NEW y, ZGoes(r, at, y), ZDoes(r, at, y),
         NEW t \in ReceiptTrip, NEW n \in Nat, ZClaims(t, n)', ~v1'[t].typed
  PROVE  ZClaims(t, n) \/ (ZCounts(r, at, y) /\ t = y.trip /\ n = y.number)
<1>t. /\ v1 \in [ReceiptTrip -> ZRecord] /\ ZHolds(r)
      /\ pc \in [Two -> ZSteps] /\ hand \in [Two -> ZHand]
  BY DEF ZTyped, ZHeld
<1>g. pc'[r] = at /\ hand'[r] = y /\ \A q \in Two : q # r => pc'[q] = pc[q] /\ hand'[q] = hand[q]
  BY <1>t DEF ZGoes
<1>p. \A u, d : ZPuts(u, d) => v1'[t] = IF t = u THEN d ELSE v1[t]
  BY <1>t DEF ZPuts
<1>n. n # 0
  BY DEF ZClaims
<1>1. ASSUME NEW q \in Two, q # r, pc'[q] \in {"form", "number"}, hand'[q].trip = t, hand'[q].number = n
      PROVE  ZClaims(t, n)
  BY <1>g, <1>n, <1>1 DEF ZClaims
<1>2. ASSUME at \in {"form", "number"}, y.trip = t, y.number = n
      PROVE  ZClaims(t, n) \/ ZCounts(r, at, y)
  <2>1. CASE ZOpens(r, at, y)
    BY <1>2, <1>n, <2>1 DEF ZOpens, ZClaims
  <2>2. CASE ~ZOpens(r, at, y)
    BY <1>2, <2>2 DEF ZDoes, ZMakes, ZDrafts, ZInserts, ZLooks, ZAsks, ZReads, ZPrintsIt, ZFills,
      ZHandsOut, ZSaves, ZSets
  <2> QED
    BY <2>1, <2>2
<1>3. ASSUME v1'[t].status = "live", v1'[t].number = n
      PROVE  ZClaims(t, n)
  <2>1. CASE v1'[t] = v1[t]
    BY <1>3, <1>n, <2>1 DEF ZClaims
  <2>2. CASE ZMakes(r, at, y)
    <3>1. PICK u, d : ZPuts(u, d) /\ (d.typed \/ d.number = 0)
      BY <2>2 DEF ZMakes
    <3> QED
      BY <1>3, <1>n, <1>p, <2>1, <3>1
  <2>3. CASE ZDrafts(r, at, y)
    <3>1. PICK u, d : ZPuts(u, d) /\ d.status = "draft"
      BY <2>3 DEF ZDrafts
    <3> QED
      BY <1>3, <1>p, <2>1, <3>1
  <2>4. CASE ZInserts(r, at, y)
    <3>1. PICK d : ZPuts(y.trip, d) /\ d.number = y.number /\ pc[r] = "number" /\ y = hand[r]
      BY <2>4 DEF ZInserts
    <3>2. CASE t = y.trip
      BY <1>3, <1>n, <1>p, <3>1, <3>2 DEF ZClaims
    <3> QED
      BY <1>p, <2>1, <3>1, <3>2
  <2>5. CASE ZFills(r, at, y)
    <3>1. CASE UNCHANGED v1
      BY <2>1, <3>1
    <3>2. ASSUME NEW u, NEW d, ZPuts(u, d), d.number = hand[r].number, u = hand[r].trip, pc[r] = "number"
          PROVE  ZClaims(t, n)
      <4>1. CASE t = u
        BY <1>3, <1>n, <1>p, <3>2, <4>1 DEF ZClaims
      <4> QED
        BY <1>p, <2>1, <3>2, <4>1
    <3> QED
      BY <2>5, <3>1, <3>2 DEF ZFills
  <2>6. CASE ZSaves(r, at, y)
    <3>1. CASE UNCHANGED v1
      BY <2>1, <3>1
    <3>2. ASSUME NEW u, NEW d, ZPuts(u, d), d.number = hand[r].number, u = hand[r].trip, pc[r] = "form"
          PROVE  ZClaims(t, n)
      <4>1. CASE t = u
        BY <1>3, <1>n, <1>p, <3>2, <4>1 DEF ZClaims
      <4> QED
        BY <1>p, <2>1, <3>2, <4>1
    <3> QED
      BY <2>6, <3>1, <3>2 DEF ZSaves
  <2>7. CASE UNCHANGED v1
    BY <2>1, <2>7
  <2> QED
    BY <2>2, <2>3, <2>4, <2>5, <2>6, <2>7 DEF ZDoes, ZLooks, ZOpens, ZAsks, ZReads, ZCounts,
      ZPrintsIt, ZSets
<1> QED
  BY <1>g, <1>1, <1>2, <1>3 DEF ZClaims

LEMMA ReceiptsCount ==
  ASSUME ZTyped, ZTyped', ZTrips, ZHeld, ZBelow, ZUnique, marred \subseteq marred',
         NEW r \in Two, NEW at, NEW y, ZGoes(r, at, y), ZDoes(r, at, y)
  PROVE  ZBelow' /\ ZUnique'
<1>t. /\ v2 \in [ReceiptCompany -> Nat \ {0}] /\ v2' \in [ReceiptCompany -> Nat \ {0}] /\ ZHolds(r)
      /\ hand[r] \in ZHand /\ hand[r].number \in Nat
  BY DEF ZTyped, ZHeld, ZHand
<1>1. ASSUME NEW c \in ReceiptCompany, c \notin marred'
      PROVE  v2[c] <= v2'[c] /\ (ZCounts(r, at, y) /\ y.company = c => v2[c] = y.number /\ v2'[c] = y.number + 1)
  <2>1. CASE ZCounts(r, at, y)
    <3>1. /\ y = hand[r] /\ v2' = [v2 EXCEPT ![y.company] = y.number + 1]
          /\ v2[y.company] # y.number => y.company \in marred'
      BY <2>1 DEF ZCounts
    <3> QED
      BY <1>t, <1>1, <3>1
  <2>2. CASE ZSets(r, at, y)
    <3>1. /\ y = hand[r] /\ v2' = [v2 EXCEPT ![y.company] = y.number]
          /\ v2[y.company] # y.number => y.company \in marred'
      BY <2>2 DEF ZSets
    <3>2. ~ZCounts(r, at, y)
      BY <2>2 DEF ZSets, ZCounts
    <3> QED
      BY <1>t, <1>1, <3>1, <3>2
  <2>3. CASE ~ZCounts(r, at, y) /\ ~ZSets(r, at, y)
    <3>1. UNCHANGED v2
      BY <2>3 DEF ZDoes, ZMakes, ZDrafts, ZInserts, ZLooks, ZOpens, ZAsks, ZReads, ZPrintsIt,
        ZFills, ZHandsOut, ZSaves
    <3> QED
      BY <1>t, <1>1, <2>3, <3>1
  <2> QED
    BY <2>1, <2>2, <2>3
<1>2. ASSUME NEW t \in ReceiptTrip, NEW n \in Nat, ZClaims(t, n)', ZCounted(t)'
      PROVE  /\ v1'[t].company = v1[t].company /\ ZCounted(t)
             /\ v1[t].company \in ReceiptCompany /\ v1[t].company \notin marred'
             /\ \/ ZClaims(t, n) /\ n < v2[v1[t].company]
                \/ /\ ZCounts(r, at, y) /\ t = y.trip /\ n = y.number
                   /\ v1[t].company = y.company
  <2>1. ZClaims(t, n) \/ (ZCounts(r, at, y) /\ t = y.trip /\ n = y.number)
    BY <1>2, ReceiptsClaim DEF ZCounted
  <2>2. ZCounts(r, at, y) /\ t = y.trip =>
          v1[t].status # "new" /\ v1[t].company = y.company
    BY <1>t DEF ZCounts, ZHolds, ZTaking, ZTakes, ZPrinting, ZKnows, ZOld
  <2>3. v1[t].status # "new"
    BY <2>1, <2>2, ReceiptsBegun
  <2>4. /\ v1'[t].company = v1[t].company /\ v1'[t].typed = v1[t].typed
        /\ v1[t].company \in ReceiptCompany
    BY <2>3, ReceiptsFixed DEF ZTrips
  <2>5. ZCounted(t) /\ v1[t].company \notin marred'
    BY <1>2, <2>4 DEF ZCounted
  <2>6. ZClaims(t, n) => n < v2[v1[t].company]
    BY <2>5 DEF ZBelow
  <2> QED
    BY <2>1, <2>2, <2>4, <2>5, <2>6
<1>3. ZBelow'
  <2> SUFFICES ASSUME NEW t \in ReceiptTrip, NEW n \in Nat, ZClaims(t, n)', ZCounted(t)'
               PROVE  n < v2'[v1'[t].company]
    BY DEF ZBelow
  <2>1. PICK c \in ReceiptCompany : c = v1[t].company
    BY <1>2
  <2>2. /\ c \notin marred' /\ v1'[t].company = c
        /\ \/ n < v2[c]
           \/ ZCounts(r, at, y) /\ n = y.number /\ y.company = c
    BY <1>2, <2>1
  <2>3. v2[c] <= v2'[c] /\ (ZCounts(r, at, y) /\ y.company = c => v2'[c] = y.number + 1)
    BY <1>1, <2>2
  <2>4. v2[c] \in Nat /\ v2'[c] \in Nat
    BY <1>t
  <2> QED
    BY <2>2, <2>3, <2>4
<1>4. ZUnique'
  <2> SUFFICES ASSUME NEW t \in ReceiptTrip, NEW u \in ReceiptTrip, NEW n \in Nat,
                      ZClaims(t, n)', ZClaims(u, n)', ZCounted(t)', ZCounted(u)',
                      v1'[t].company = v1'[u].company
               PROVE  t = u
    BY DEF ZUnique
  <2>1. PICK c \in ReceiptCompany : c = v1[t].company
    BY <1>2
  <2>2. /\ c \notin marred' /\ c = v1[u].company /\ ZCounted(t) /\ ZCounted(u)
        /\ \/ ZClaims(t, n) /\ n < v2[c]
           \/ ZCounts(r, at, y) /\ t = y.trip /\ n = y.number /\ y.company = c
        /\ \/ ZClaims(u, n) /\ n < v2[c]
           \/ ZCounts(r, at, y) /\ u = y.trip /\ n = y.number /\ y.company = c
    BY <1>2, <2>1
  <2>3. ZCounts(r, at, y) /\ y.company = c => v2[c] = y.number
    BY <1>1, <2>2
  <2>4. v2[c] \in Nat
    BY <1>t
  <2>5. CASE ZClaims(t, n) /\ ZClaims(u, n)
    BY <2>1, <2>2, <2>5 DEF ZUnique
  <2> QED
    BY <2>2, <2>3, <2>4, <2>5
<1> QED
  BY <1>3, <1>4

(* A trip that is deleted.                                                 *)
LEMMA ReceiptsDelete ==
  ASSUME ZInv, NEW t \in ReceiptTrip, Z!DeleteTrip(t)
  PROVE  ZInv'
<1>t. /\ v1 \in [ReceiptTrip -> ZRecord] /\ v1[t] \in ZRecord
      /\ v1[t].status = "live" /\ UNCHANGED <<v2, pc, hand, v3, marred>>
  BY DEF ZInv, ZTyped, Z!DeleteTrip, Z!Live
<1>1. PICK d \in ZRecord : /\ v1' = [v1 EXCEPT ![t] = d] /\ d.status = "gone"
                           /\ d.company = v1[t].company /\ d.typed = v1[t].typed
                           /\ d.customer = v1[t].customer /\ d.number = v1[t].number
  <2> DEFINE d == [v1[t] EXCEPT !.status = "gone"]
  <2>1. /\ d \in ZRecord /\ d.status = "gone"
        /\ d.company = v1[t].company /\ d.typed = v1[t].typed
        /\ d.customer = v1[t].customer /\ d.number = v1[t].number
    BY <1>t DEF ZRecord
  <2>2. v1' = [v1 EXCEPT ![t] = d]
    BY DEF Z!DeleteTrip
  <2> HIDE DEF d
  <2> QED
    BY <2>1, <2>2
<1>2. \A u \in ReceiptTrip :
        /\ v1'[u].company = v1[u].company /\ v1'[u].typed = v1[u].typed
        /\ v1'[u].customer = v1[u].customer /\ v1'[u].number = v1[u].number
        /\ v1'[u].status = v1[u].status \/ (v1[u].status = "live" /\ v1'[u].status = "gone")
  BY <1>t, <1>1
<1>3. ZTyped' /\ ZTrips'
  BY <1>t, <1>1, <1>2 DEF ZInv, ZTyped, ZTrips
<1>4. \A u \in ReceiptTrip : ZOld(u) => ZOld(u)'
  BY <1>2 DEF ZOld
<1>5. ZHeld'
  <2> SUFFICES ASSUME NEW q \in Two PROVE ZHolds(q)'
    BY DEF ZHeld
  <2>0. ZHolds(q) /\ hand[q] \in ZHand
    BY DEF ZInv, ZHeld, ZTyped
  <2>1. ZTaking(q) /\ ZTakes(q) => ZTakes(q)'
    <3>1. ZTakes(q) /\ hand[q].kind = "create" => v1'[hand[q].trip].status = "draft"
      BY <1>2 DEF ZTakes
    <3> QED
      BY <1>t, <1>2, <3>1 DEF ZTakes
  <2>2. \A u \in ReceiptTrip : ZKnows(q, u) => ZKnows(q, u)'
    BY <1>t, <1>2, <1>4 DEF ZKnows
  <2>3. ZPacks(q) => ZPacks(q)'
    <3>1. ZWanted(q) \subseteq ReceiptTrip
      BY <2>0 DEF ZWanted, ZHand
    <3>2. ZWanted(q)' = ZWanted(q) /\ ZPrinted(q)' = ZPrinted(q)
      BY <1>t DEF ZWanted, ZPrinted
    <3> QED
      BY <1>t, <1>2, <1>4, <3>1, <3>2 DEF ZPacks
  <2>4. hand[q].todo \subseteq ReceiptTrip
    BY <2>0 DEF ZHand
  <2>5. /\ ZTaking(q)' = ZTaking(q) /\ ZPrinting(q)' = ZPrinting(q) /\ ZPrinted(q)' = ZPrinted(q)
        /\ pc'[q] = pc[q] /\ hand'[q] = hand[q]
    BY <1>t DEF ZTaking, ZPrinting, ZPrinted
  <2>6. pc[q] = "form" => ZOld(hand[q].trip)'
    <3>1. pc[q] = "form" => ZOld(hand[q].trip) /\ hand[q].trip \in ReceiptTrip
      BY <2>0 DEF ZHolds
    <3>2. hand' = hand
      BY <1>t
    <3> HIDE DEF ZOld
    <3> QED
      <4>1. PICK u : u = hand[q].trip
        OBVIOUS
      <4>2. hand[q].trip' = u
        BY <4>1, <3>2
      <4> QED
        BY <4>1, <4>2, <3>1, <3>2, <1>4
  <2> HIDE DEF ZTaking, ZPrinting, ZTakes, ZKnows, ZPacks, ZPrinted
  <2> QED
    BY <2>0, <2>1, <2>2, <2>3, <2>4, <2>5, <2>6 DEF ZHolds
<1>6. ZApart'
  BY <1>t DEF ZInv, ZApart, ZCreating, ZTaking
<1>7. ZPapers'
  <2>1. \A p \in v3 : p.trip \in ReceiptTrip
    BY DEF ZInv, ZTyped
  <2> QED
    BY <1>t, <1>2, <1>4, <2>1 DEF ZInv, ZPapers, Z!PapersBearTheNumber
<1>8. \A u \in ReceiptTrip, n \in Nat : ZClaims(u, n)' => ZClaims(u, n)
  BY <1>t, <1>2 DEF ZClaims
<1>9. \A u \in ReceiptTrip : ZCounted(u)' = ZCounted(u) /\ v1'[u].company = v1[u].company
  BY <1>t, <1>2 DEF ZCounted
<1>10. ZBelow'
  <2>1. ZBelow
    BY DEF ZInv
  <2> QED
    BY <1>t, <1>8, <1>9, <2>1 DEF ZBelow
<1>11. ZUnique'
  <2>1. ZUnique
    BY DEF ZInv
  <2> QED
    BY <1>8, <1>9, <2>1 DEF ZUnique
<1> QED
  BY <1>3, <1>5, <1>6, <1>7, <1>10, <1>11 DEF ZInv

LEMMA ReceiptsKept ==
  ASSUME ZInv, Z!Next
  PROVE  ZInv'
<1>1. ASSUME NEW r \in Two, ZStep(r)
      PROVE  ZInv'
  <2>0. ZTyped /\ ZTrips /\ ZHeld /\ ZApart /\ ZPapers /\ ZBelow /\ ZUnique
    BY DEF ZInv
  <2>1. PICK at \in ZSteps, y \in ZHand : ZGoes(r, at, y) /\ ZDoes(r, at, y)
    BY <1>1, <2>0, ReceiptsDo
  <2>2. marred \subseteq marred' /\ v3 \subseteq v3' /\ \A p \in v3' : p \in v3 \/ p.by = r
    BY <1>1, <2>0, ReceiptsMove
  <2>3. ZTyped'
    BY <2>0, <2>1, ReceiptsTyped
  <2>4. ZHeld'
    BY <2>0, <2>1, <2>2, ReceiptsOthers, ReceiptsSelf DEF ZHeld
  <2>5. ZTrips' /\ ZApart' /\ ZPapers'
    BY <2>0, <2>1, <2>2, <2>3, ReceiptsTrips, ReceiptsApart, ReceiptsPapers
  <2>6. ZBelow' /\ ZUnique'
    BY <2>0, <2>1, <2>2, <2>3, ReceiptsCount
  <2> QED
    BY <2>3, <2>4, <2>5, <2>6 DEF ZInv
<1> QED
  BY <1>1, ReceiptsNext, ReceiptsDelete

LEMMA ReceiptsBegin ==
  ASSUME Z!Init
  PROVE  ZInv
<1>1. v1 \in [ReceiptTrip -> ZRecord] /\ ZTrips
  <2>1. ASSUME NEW t \in ReceiptTrip
        PROVE  /\ v1[t] \in ZRecord /\ v1[t].status \in {"new", "live"} /\ ~v1[t].typed
               /\ v1[t].number = 0 /\ (v1[t].status = "live" => v1[t].company \in ReceiptCompany)
    <3>1. CASE t \in DOMAIN ReceiptFirst
      <4>1. v1[t] = [Z!Blank EXCEPT !.status = "live", !.company = ReceiptFirst[t].company,
                                    !.customer = ReceiptFirst[t].customer]
        BY <3>1 DEF Z!Init
      <4>2. ReceiptFirst[t].company \in ReceiptCompany /\ ReceiptFirst[t].customer \in BOOLEAN
        BY <3>1, OfficeReceipts
      <4>3. PICK c \in ReceiptCompany, b \in BOOLEAN :
              ReceiptFirst[t].company = c /\ ReceiptFirst[t].customer = b
        BY <4>2
      <4>4. v1[t] = [status |-> "live", company |-> c, customer |-> b, number |-> 0, typed |-> FALSE]
        BY <4>1, <4>3 DEF Z!Blank, Z!None
      <4> QED
        BY <4>4 DEF ZRecord
    <3>2. CASE t \notin DOMAIN ReceiptFirst
      <4>1. v1[t] = Z!Blank
        BY <3>2 DEF Z!Init
      <4> QED
        BY <4>1 DEF Z!Blank, Z!None, ZRecord
    <3> QED
      BY <3>1, <3>2
  <2>2. v1 = [t \in ReceiptTrip |-> v1[t]]
    BY DEF Z!Init
  <2> QED
    BY <2>1, <2>2 DEF ZTrips
<1>2. \A r \in Two : pc[r] = "new" /\ hand[r] = Z!Idle
  BY DEF Z!Init
<1>3. v3 = {} /\ \A t \in ReceiptTrip : v1[t].number = 0
  BY DEF Z!Init, Z!Blank, Z!None
<1>4. ZTyped
  <2>1. pc \in [Two -> ZSteps]
    BY DEF Z!Init, ZSteps
  <2>2. hand \in [Two -> ZHand]
    BY ReceiptsIdle DEF Z!Init
  <2>3. v2 \in [ReceiptCompany -> Nat \ {0}]
    <3>1. v2 = [c \in ReceiptCompany |-> 1]
      BY DEF Z!Init
    <3>2. 1 \in Nat \ {0}
      OBVIOUS
    <3> QED
      BY <3>1, <3>2
  <2> QED
    BY <1>1, <1>3, <2>1, <2>2, <2>3 DEF ZTyped
<1>5. ZHeld
  <2>1. \A r \in Two : hand[r].kind = "none" /\ ZPrinted(r) = {}
    BY <1>2, <1>3 DEF Z!Idle, ZPrinted
  <2> QED
    BY <1>2, <2>1 DEF ZHeld, ZHolds, ZTaking, ZPrinting
<1>6. ZApart /\ ZPapers
  BY <1>2, <1>3 DEF ZApart, ZCreating, ZTaking, ZPapers, Z!PapersBearTheNumber
<1>7. \A t \in ReceiptTrip, n \in Nat : ~ZClaims(t, n)
  BY <1>2, <1>3 DEF ZClaims
<1>8. ZBelow /\ ZUnique
  BY <1>7 DEF ZBelow, ZUnique
<1> QED
  BY <1>1, <1>4, <1>5, <1>6, <1>8 DEF ZInv

LEMMA ReceiptsMean ==
  ASSUME ZInv
  PROVE  Z!ReceiptsAgree
<1>1. Z!PapersBearTheNumber
  BY DEF ZInv, ZPapers
<1>2. Z!ReceiptNumbersUnique
  <2> SUFFICES ASSUME NEW t \in ReceiptTrip, NEW u \in ReceiptTrip,
                      v1[t].status = "live", v1[u].status = "live", t # u,
                      v1[t].number # 0, v1[t].number = v1[u].number,
                      v1[t].company = v1[u].company,
                      ~v1[t].typed, ~v1[u].typed, v1[t].company \notin marred
               PROVE  FALSE
    BY DEF Z!ReceiptNumbersUnique, Z!Live, Z!None
  <2>1. PICK n \in Nat : n = v1[t].number
    BY DEF ZInv, ZTyped, ZRecord
  <2>2. ZClaims(t, n) /\ ZClaims(u, n) /\ ZCounted(t) /\ ZCounted(u)
    BY <2>1 DEF ZClaims, ZCounted
  <2> QED
    BY <2>2 DEF ZInv, ZUnique
<1>3. Z!ArchiveIsComplete
  <2> SUFFICES ASSUME NEW r \in Two, pc[r] = "done", hand[r].kind = "archive"
               PROVE  /\ ZPrinted(r) = hand[r].asked \ hand[r].skipped
                      /\ \A t \in ZPrinted(r) : v1[t].customer
                      /\ \A t, u \in ZPrinted(r) : v1[t].company = v1[u].company
    BY DEF Z!ArchiveIsComplete, ZPrinted
  <2>1. ZPacks(r) /\ hand[r].todo = {}
    BY DEF ZInv, ZHeld, ZHolds
  <2> QED
    BY <2>1 DEF ZPacks, ZWanted
<1> QED
  BY <1>1, <1>2, <1>3 DEF Z!ReceiptsAgree

-----------------------------------------------------------------------------
(* The tax returns: what the reports are made of.                          *)

GStates == {"draft", "issued", "cancelled"}
GNote(n) ==
  /\ n.party \in DOMAIN TaxState /\ n.kind \in {"credit", "debit"}
  /\ n.date \in Nat /\ n.amount \in Int /\ n.cancelled \in Nat
  /\ n.gst \in BOOLEAN /\ n.igst \in BOOLEAN /\ n.status \in GStates
GNotes(set) == IsFiniteSet(set) /\ \A n \in set : GNote(n)
GPriced(set) == IsFiniteSet(set) /\ \A x \in set : x.amount \in Int

GFun(set) == [x \in set |-> x.amount]
GSum(set, sub) == SumFunctionOnSet(GFun(set), sub)

LEMMA ReturnsSumFunction ==
  ASSUME NEW fun
  PROVE  G!SumFunction(fun) = SumFunctionOnSet(fun, DOMAIN fun)
BY DEF G!SumFunction, G!SumFunctionOnSet, G!FoldFunctionOnSet, G!MapThenFoldSet,
  SumFunctionOnSet, FoldFunctionOnSet, MapThenFoldSet

LEMMA ReturnsSum ==
  ASSUME NEW set, GPriced(set), NEW sub \in SUBSET set
  PROVE  /\ IsFiniteSet(sub) /\ GFun(set) \in [set -> Int]
         /\ G!Amounts(sub) = GSum(set, sub) /\ G!Amounts(sub) \in Int
<1>1. IsFiniteSet(sub) /\ GPriced(sub)
  BY FS_Subset DEF GPriced
<1>2. /\ GFun(set) \in [set -> Int] /\ GFun(sub) \in [sub -> Int]
      /\ \A x \in sub : GFun(set)[x] = GFun(sub)[x]
  BY <1>1 DEF GPriced, GFun
<1>3. G!Amounts(sub) = G!SumFunction(GFun(sub)) /\ DOMAIN GFun(sub) = sub
  BY DEF G!Amounts, G!Sum, GFun
<1>4. G!Amounts(sub) = SumFunctionOnSet(GFun(sub), sub)
  BY <1>3, ReturnsSumFunction
<1>5. SumFunctionOnSet(GFun(sub), sub) = SumFunctionOnSet(GFun(set), sub)
  BY <1>1, <1>2, SumSame
<1>6. SumFunctionOnSet(GFun(sub), sub) \in Int
  BY <1>1, <1>2, SumRest
<1> QED
  BY <1>1, <1>2, <1>4, <1>5, <1>6 DEF GSum

LEMMA ReturnsUnion ==
  ASSUME NEW set, GPriced(set), NEW x \in SUBSET set, NEW y \in SUBSET set, x \cap y = {}
  PROVE  G!Amounts(x \cup y) = G!Amounts(x) + G!Amounts(y)
<1>1. GSum(set, x \cup y) = GSum(set, x) + GSum(set, y)
  BY ReturnsSum, SumUnion DEF GSum
<1> QED
  BY <1>1, ReturnsSum

(* Amounts by the value of a field add up to the whole.                    *)
LEMMA ReturnsGroups ==
  ASSUME NEW set, GPriced(set), NEW key, DOMAIN key = set
  PROVE  LET keys == {key[x] : x \in set}
             part(k) == {x \in set : key[x] = k}
         IN  /\ IsFiniteSet(keys)
             /\ SumFunctionOnSet([k \in keys |-> G!Amounts(part(k))], keys) = G!Amounts(set)
<1> DEFINE keys == {key[x] : x \in set}
           part(k) == {x \in set : key[x] = k}
           own == [x \in set |-> key[x]]
           sums == [k \in keys |-> GSum(set, {x \in set : own[x] = k})]
<1>1. own \in [set -> keys] /\ own \in Surjection(set, keys)
  BY DEF Surjection
<1>2. IsFiniteSet(keys)
  <2> HIDE DEF own, keys
  <2> QED
    BY <1>1, FS_Surjection DEF GPriced
<1>3. SumFunctionOnSet(sums, keys) = GSum(set, {x \in set : own[x] \in keys})
  <2>1. GFun(set) \in [set -> Int] /\ IsFiniteSet(set) /\ set \in SUBSET set
    BY ReturnsSum DEF GPriced
  <2> HIDE DEF own, keys
  <2> QED
    BY <1>1, <1>2, <2>1, SumParts DEF GSum
<1>4. {x \in set : own[x] \in keys} = set
  OBVIOUS
<1>5. sums = [k \in keys |-> G!Amounts(part(k))]
  <2>1. \A k : {x \in set : own[x] = k} = part(k) /\ part(k) \in SUBSET set
    OBVIOUS
  <2>2. \A k \in keys : GSum(set, {x \in set : own[x] = k}) = G!Amounts(part(k))
    <3> HIDE DEF own, part
    <3> QED
      BY <2>1, ReturnsSum
  <2> QED
    BY <2>2
<1>6. G!Amounts(set) = GSum(set, set)
  BY ReturnsSum
<1> HIDE DEF sums
<1> QED
  BY <1>2, <1>3, <1>4, <1>5, <1>6

(* The credits and debits of notes.                                        *)
LEMMA ReturnsSplit ==
  ASSUME NEW set, GNotes(set)
  PROVE  /\ GPriced(set) /\ G!Split(set).debit \in Int /\ G!Split(set).credit \in Int
         /\ G!Split(set).debit + G!Split(set).credit = G!Amounts(set)
<1> DEFINE debits == {n \in set : n.kind = "debit"}
           credits == {n \in set : n.kind = "credit"}
<1>1. GPriced(set)
  BY DEF GNotes, GNote, GPriced
<1>2. /\ debits \in SUBSET set /\ credits \in SUBSET set
      /\ debits \cup credits = set /\ debits \cap credits = {}
  BY DEF GNotes, GNote
<1>3. G!Split(set).debit = G!Amounts(debits) /\ G!Split(set).credit = G!Amounts(credits)
  BY DEF G!Split
<1> HIDE DEF debits, credits
<1>4. G!Amounts(set) = G!Amounts(debits) + G!Amounts(credits)
  BY <1>1, <1>2, ReturnsUnion
<1> QED
  BY <1>1, <1>2, <1>3, <1>4, ReturnsSum

GTables == {"cdnr", "cdnur", "b2cs", "commercial", "amended", "dropped"}

(* Every note is in the table that it belongs to.                          *)
LEMMA ReturnsTables ==
  ASSUME NEW docs, \A n \in docs : n.status \in {"issued", "cancelled"}, NEW month, NEW gstins
  PROVE  LET tables == G!Tables(docs, month, gstins)
         IN  /\ \A t \in GTables : tables[t] = {n \in docs : G!Table(n, month, gstins) = t}
             /\ docs = G!Listed(tables) \cup tables["amended"] \cup tables["dropped"]
             /\ G!Taxed(tables) \cap tables["commercial"] = {}
             /\ \A n \in docs : /\ n.status = "issued" => n \in G!Listed(tables)
                                /\ n.status = "cancelled" /\ G!Amends(n, month)
                                     => n \in tables["amended"]
<1> DEFINE tables == G!Tables(docs, month, gstins)
<1>1. \A t \in GTables : tables[t] = {n \in docs : G!Table(n, month, gstins) = t}
  BY DEF G!Tables, GTables
<1>2. \A n \in docs : /\ n.status = "issued" =>
                           G!Table(n, month, gstins) \in {"cdnr", "cdnur", "b2cs", "commercial"}
                      /\ n.status = "cancelled" =>
                           G!Table(n, month, gstins)
                             = IF G!Amends(n, month) THEN "amended" ELSE "dropped"
  <2> SUFFICES ASSUME NEW n \in docs
               PROVE  /\ n.status = "issued" =>
                           G!Table(n, month, gstins) \in {"cdnr", "cdnur", "b2cs", "commercial"}
                      /\ n.status = "cancelled" =>
                           G!Table(n, month, gstins)
                             = IF G!Amends(n, month) THEN "amended" ELSE "dropped"
    OBVIOUS
  <2>1. CASE n.status = "cancelled"
    BY <2>1 DEF G!Table
  <2>2. CASE n.status = "issued"
    BY <2>2 DEF G!Table
  <2> QED
    BY <2>1, <2>2
<1> HIDE DEF tables
<1>3. /\ G!Taxed(tables) = tables["cdnr"] \cup tables["cdnur"] \cup tables["b2cs"]
      /\ G!Listed(tables) = G!Taxed(tables) \cup tables["commercial"]
  BY DEF G!Taxed, G!Listed
<1>4. \A n \in docs : G!Table(n, month, gstins) \in GTables
  BY <1>2 DEF GTables
<1>5. docs = G!Listed(tables) \cup tables["amended"] \cup tables["dropped"]
  BY <1>1, <1>3, <1>4 DEF GTables
<1>6. G!Taxed(tables) \cap tables["commercial"] = {}
  BY <1>1, <1>3 DEF GTables
<1>7. \A n \in docs : /\ n.status = "issued" => n \in G!Listed(tables)
                      /\ n.status = "cancelled" /\ G!Amends(n, month) => n \in tables["amended"]
  BY <1>1, <1>2, <1>3 DEF GTables
<1> QED
  BY <1>1, <1>5, <1>6, <1>7 DEF tables

(* A return that reconciles comes to what the register of the issued notes *)
(* comes to.                                                               *)
LEMMA ReturnsReconciled ==
  ASSUME NEW docs, GNotes(docs), \A n \in docs : n.status \in {"issued", "cancelled"},
         NEW truth, GNotes(truth), NEW month, NEW gstins,
         NEW tables, tables = G!Tables(docs, month, gstins), G!Reconciles(tables, truth)
  PROVE  LET kpis == G!RegisterKpis({n \in truth : n.status = "issued"})
         IN  /\ G!Amounts(G!Taxed(tables)) = kpis.applied
             /\ G!Amounts(tables["commercial"]) = kpis.excluded
             /\ G!Split(G!Listed(tables)).debit + G!Split(G!Listed(tables)).credit = kpis.total
<1> DEFINE issued == {n \in truth : n.status = "issued"}
           with == {n \in issued : n.gst}
           without == {n \in issued : ~n.gst}
<1>1. G!Amounts(G!Taxed(tables)) = G!Amounts(with)
      /\ G!Amounts(tables["commercial"]) = G!Amounts(without)
  BY DEF G!Reconciles
<1>2. /\ G!RegisterKpis(issued).applied = G!Amounts(with)
      /\ G!RegisterKpis(issued).excluded = G!Amounts(without)
      /\ G!RegisterKpis(issued).total = G!Amounts(issued)
  BY DEF G!RegisterKpis
<1>3. /\ GPriced(issued) /\ with \in SUBSET issued /\ without \in SUBSET issued
      /\ with \cup without = issued /\ with \cap without = {}
  <2>1. IsFiniteSet(issued)
    BY FS_Subset DEF GNotes
  <2> QED
    BY <2>1 DEF GNotes, GNote, GPriced
<1> HIDE DEF issued, with, without
<1>4. G!Amounts(issued) = G!Amounts(with) + G!Amounts(without)
  BY <1>3, ReturnsUnion
<1>5. /\ docs = G!Listed(tables) \cup tables["amended"] \cup tables["dropped"]
      /\ G!Taxed(tables) \cap tables["commercial"] = {}
      /\ G!Listed(tables) = G!Taxed(tables) \cup tables["commercial"]
  BY ReturnsTables DEF G!Listed
<1>6. GNotes(G!Listed(tables))
  BY <1>5, FS_Subset DEF GNotes
<1>7. /\ G!Split(G!Listed(tables)).debit + G!Split(G!Listed(tables)).credit
           = G!Amounts(G!Listed(tables))
      /\ GPriced(G!Listed(tables))
  BY <1>6, ReturnsSplit
<1>8. G!Amounts(G!Listed(tables)) = G!Amounts(G!Taxed(tables)) + G!Amounts(tables["commercial"])
  <2>1. /\ G!Taxed(tables) \in SUBSET G!Listed(tables)
        /\ tables["commercial"] \in SUBSET G!Listed(tables)
    BY <1>5
  <2>2. G!Amounts(G!Taxed(tables) \cup tables["commercial"])
          = G!Amounts(G!Taxed(tables)) + G!Amounts(tables["commercial"])
    <3>1. \A x, y \in SUBSET G!Listed(tables) :
            x \cap y = {} => G!Amounts(x \cup y) = G!Amounts(x) + G!Amounts(y)
      BY <1>7, ReturnsUnion
    <3> QED
      BY <1>5, <2>1, <3>1
  <2> QED
    BY <1>5, <2>2
<1> QED
  BY <1>1, <1>2, <1>4, <1>7, <1>8 DEF issued

(* Of those with one key, one is kept.                                     *)
LEMMA ReturnsKeyed ==
  ASSUME NEW key
  PROVE  /\ G!Keyed(key) \subseteq DOMAIN key
         /\ \A n, m \in G!Keyed(key) : key[n] = key[m] => n = m
<1> DEFINE one(m) == CHOOSE n \in DOMAIN key : key[n] = key[m]
<1>1. \A m \in DOMAIN key : one(m) \in DOMAIN key /\ key[one(m)] = key[m]
  OBVIOUS
<1>2. G!Keyed(key) = {one(m) : m \in DOMAIN key}
  BY DEF G!Keyed
<1>3. ASSUME NEW m \in DOMAIN key, NEW n \in DOMAIN key, key[one(m)] = key[one(n)]
      PROVE  one(m) = one(n)
  <2>1. key[m] = key[n]
    BY <1>1, <1>3
  <2> QED
    BY <2>1
<1> HIDE DEF one
<1> QED
  BY <1>1, <1>2, <1>3

(* The file for the portal has every note or accounts for it, and passes.  *)
LEMMA ReturnsFile ==
  ASSUME NEW tables
  PROVE  LET file == G!Offline(tables)
         IN  /\ file.cdnr \cup file.cdnur \cup file.gaps \cup file.excluded = G!Listed(tables)
             /\ G!Problems(file) = {}
<1> DEFINE some == [n \in G!Fitting(tables["cdnr"]) |-> <<n.party, n.number>>]
           placed == {n \in tables["cdnur"] : TaxState[n.party] # "none"}
           others == [n \in G!Fitting(placed) |-> n.number]
           file == G!Offline(tables)
<1>1. /\ file.cdnr = G!Keyed(some) /\ file.cdnur = G!Keyed(others)
      /\ file.gaps = (tables["cdnr"] \cup tables["cdnur"]) \ (file.cdnr \cup file.cdnur)
      /\ file.excluded = tables["commercial"] \cup tables["b2cs"]
  BY DEF G!Offline
<1>2. DOMAIN some = G!Fitting(tables["cdnr"]) /\ DOMAIN others = G!Fitting(placed)
  OBVIOUS
<1>3. /\ file.cdnr \subseteq G!Fitting(tables["cdnr"]) /\ file.cdnur \subseteq G!Fitting(placed)
      /\ \A n, m \in file.cdnr : some[n] = some[m] => n = m
      /\ \A n, m \in file.cdnur : others[n] = others[m] => n = m
  <2> HIDE DEF some, others, file
  <2>1. /\ G!Keyed(some) \subseteq DOMAIN some
        /\ \A n, m \in G!Keyed(some) : some[n] = some[m] => n = m
    BY ReturnsKeyed
  <2>2. /\ G!Keyed(others) \subseteq DOMAIN others
        /\ \A n, m \in G!Keyed(others) : others[n] = others[m] => n = m
    BY ReturnsKeyed
  <2> QED
    BY <1>1, <1>2, <2>1, <2>2
<1>4. /\ \A n \in file.cdnr : n \in tables["cdnr"] /\ n.number # "none" /\ n.fits
      /\ \A n \in file.cdnur : /\ n \in tables["cdnur"] /\ n.number # "none" /\ n.fits
                               /\ TaxState[n.party] # "none"
  <2> HIDE DEF file
  <2> QED
    BY <1>3 DEF G!Fitting
<1>5. /\ \A n, m \in file.cdnr : n.party = m.party /\ n.number = m.number => n = m
      /\ \A n, m \in file.cdnur : n.number = m.number => n = m
  <2> HIDE DEF file
  <2>1. /\ \A n \in file.cdnr : some[n] = <<n.party, n.number>>
        /\ \A n \in file.cdnur : others[n] = n.number
    BY <1>3
  <2> QED
    BY <1>3, <2>1
<1> HIDE DEF file
<1>6. G!Problems(file) = {}
  BY <1>4, <1>5 DEF G!Problems
<1>7. file.cdnr \cup file.cdnur \cup file.gaps \cup file.excluded = G!Listed(tables)
  BY <1>1, <1>4 DEF G!Listed, G!Taxed
<1> QED
  BY <1>6, <1>7 DEF file

(* The sales of a month, by the state of the customer.                     *)
LEMMA ReturnsSales ==
  ASSUME NEW docs \in SUBSET TaxBill, NEW gstins \in SUBSET TaxCustomer
  PROVE  LET by == G!ByCustomer(docs, gstins)
         IN  /\ G!Sum(DOMAIN by.states, LAMBDA s : by.states[s]) = by.total
             /\ by.missing \subseteq by.b2c
             /\ G!Amounts(by.b2b \cup by.b2c) = G!Amounts(docs)
<1> DEFINE by == G!ByCustomer(docs, gstins)
           key == [i \in docs |-> IF i.party \in DOMAIN TaxState THEN TaxState[i.party] ELSE "none"]
           keys == {key[i] : i \in docs}
           sums == [k \in keys |-> G!Amounts({i \in docs : key[i] = k})]
<1>1. GPriced(docs)
  BY OfficeReturns, FS_Subset DEF GPriced
<1>2. SumFunctionOnSet(sums, keys) = G!Amounts(docs)
  <2>1. DOMAIN key = docs
    OBVIOUS
  <2> HIDE DEF key
  <2> QED
    BY <1>1, <2>1, ReturnsGroups
<1>3. by.states = sums /\ by.total = G!Amounts(docs)
  <2>1. keys = {IF i.party \in DOMAIN TaxState THEN TaxState[i.party] ELSE "none" : i \in docs}
    OBVIOUS
  <2>2. \A k : {i \in docs : key[i] = k}
                 = {i \in docs : (IF i.party \in DOMAIN TaxState THEN TaxState[i.party] ELSE "none") = k}
    OBVIOUS
  <2> HIDE DEF key, keys
  <2> QED
    BY <2>1, <2>2 DEF G!ByCustomer
<1>4. G!Sum(DOMAIN by.states, LAMBDA s : by.states[s]) = SumFunctionOnSet(sums, keys)
  <2>1. G!Sum(DOMAIN by.states, LAMBDA s : by.states[s])
          = G!SumFunction([s \in DOMAIN by.states |-> by.states[s]])
    BY DEF G!Sum
  <2>2. DOMAIN by.states = keys /\ [s \in DOMAIN by.states |-> by.states[s]] = sums /\ DOMAIN sums = keys
    BY <1>3
  <2> HIDE DEF by, sums, keys
  <2> QED
    BY <2>1, <2>2, ReturnsSumFunction
<1>5. by.missing \subseteq by.b2c /\ by.b2b \cup by.b2c = docs
  BY OfficeReturns DEF G!ByCustomer
<1> HIDE DEF by, sums, keys
<1> QED
  BY <1>2, <1>3, <1>4, <1>5 DEF by

(* Debits less credits, customer by customer, come to those of all.        *)
LEMMA ReturnsCustomers ==
  ASSUME NEW docs, GNotes(docs)
  PROVE  LET own == G!RegisterKpis(docs)
         IN  G!Sum(DOMAIN own.customers, LAMBDA c : own.customers[c]) = own.net
<1> DEFINE own == G!RegisterKpis(docs)
           key == [n \in docs |-> n.party]
           keys == {n.party : n \in docs}
           debits == {n \in docs : n.kind = "debit"}
           credits == {n \in docs : n.kind = "credit"}
           plus == [k \in keys |-> GSum(docs, {n \in debits : key[n] = k})]
           minus == [k \in keys |-> GSum(docs, {n \in credits : key[n] = k})]
           both == [k \in keys |-> plus[k] - minus[k]]
<1>1. GPriced(docs)
  BY ReturnsSplit
<1>2. key \in [docs -> keys] /\ key \in Surjection(docs, keys)
  BY DEF Surjection
<1>3. IsFiniteSet(keys)
  <2> HIDE DEF key, keys
  <2> QED
    BY <1>1, <1>2, FS_Surjection DEF GPriced
<1>4. debits \in SUBSET docs /\ credits \in SUBSET docs
      /\ {n \in debits : key[n] \in keys} = debits /\ {n \in credits : key[n] \in keys} = credits
  OBVIOUS
<1>5. /\ IsFiniteSet(debits) /\ IsFiniteSet(credits) /\ GFun(docs) \in [docs -> Int]
      /\ G!Amounts(debits) = GSum(docs, debits) /\ G!Amounts(credits) = GSum(docs, credits)
      /\ G!Amounts(debits) \in Int /\ G!Amounts(credits) \in Int
  <2> HIDE DEF debits, credits
  <2> QED
    BY <1>1, <1>4, ReturnsSum
<1>6. /\ SumFunctionOnSet(plus, keys) = GSum(docs, debits)
      /\ SumFunctionOnSet(minus, keys) = GSum(docs, credits)
  <2>1. ASSUME NEW set \in SUBSET docs, IsFiniteSet(set), {n \in set : key[n] \in keys} = set
        PROVE  SumFunctionOnSet([k \in keys |-> SumFunctionOnSet(GFun(docs), {n \in set : key[n] = k})], keys)
                 = SumFunctionOnSet(GFun(docs), set)
    <3>1. GFun(docs) \in [docs -> Int] /\ key \in [docs -> keys] /\ keys \in SUBSET keys
      BY <1>2, <1>5
    <3> HIDE DEF key, keys
    <3>2. SumFunctionOnSet([k \in keys |-> SumFunctionOnSet(GFun(docs), {n \in set : key[n] = k})], keys)
            = SumFunctionOnSet(GFun(docs), {n \in set : key[n] \in keys})
      BY <1>3, <2>1, <3>1, SumParts
    <3> QED
      BY <2>1, <3>2
  <2>2. SumFunctionOnSet(plus, keys) = SumFunctionOnSet(GFun(docs), debits)
    <3> HIDE DEF debits, key, keys
    <3> QED
      BY <1>4, <1>5, <2>1 DEF GSum
  <2>3. SumFunctionOnSet(minus, keys) = SumFunctionOnSet(GFun(docs), credits)
    <3> HIDE DEF credits, key, keys
    <3> QED
      BY <1>4, <1>5, <2>1 DEF GSum
  <2> QED
    BY <2>2, <2>3 DEF GSum
<1>7. \A k : /\ GSum(docs, {n \in debits : key[n] = k}) = G!Amounts({n \in debits : key[n] = k})
             /\ GSum(docs, {n \in credits : key[n] = k}) = G!Amounts({n \in credits : key[n] = k})
             /\ GSum(docs, {n \in debits : key[n] = k}) \in Int
             /\ GSum(docs, {n \in credits : key[n] = k}) \in Int
  <2>1. \A k : /\ {n \in debits : key[n] = k} \in SUBSET docs
               /\ {n \in credits : key[n] = k} \in SUBSET docs
    OBVIOUS
  <2> HIDE DEF debits, credits, key
  <2> QED
    BY <1>1, <2>1, ReturnsSum
<1>8. plus \in [keys -> Int] /\ minus \in [keys -> Int] /\ both \in [keys -> Int]
  <2> HIDE DEF debits, credits, key, keys
  <2>1. plus \in [keys -> Int]
    BY <1>7
  <2>2. minus \in [keys -> Int]
    BY <1>7
  <2>3. both \in [keys -> Int]
    <3> HIDE DEF plus, minus
    <3> QED
      BY <2>1, <2>2
  <2> QED
    BY <2>1, <2>2, <2>3
<1>9. SumFunctionOnSet(both, keys) = SumFunctionOnSet(plus, keys) - SumFunctionOnSet(minus, keys)
  <2>1. \A k \in keys : both[k] = plus[k] - minus[k]
    OBVIOUS
  <2> HIDE DEF plus, minus, both, keys
  <2> QED
    BY <1>3, <1>8, <2>1, SumMinus
<1>10. own.net = G!Amounts(debits) - G!Amounts(credits)
  BY DEF G!RegisterKpis, G!Split
<1>11. own.customers = both
  <2>1. \A k \in keys :
          /\ {n \in {m \in docs : m.party = k} : n.kind = "debit"} = {n \in debits : key[n] = k}
          /\ {n \in {m \in docs : m.party = k} : n.kind = "credit"} = {n \in credits : key[n] = k}
    OBVIOUS
  <2>2. own.customers
          = [k \in keys |-> G!Amounts({n \in {m \in docs : m.party = k} : n.kind = "debit"})
                            - G!Amounts({n \in {m \in docs : m.party = k} : n.kind = "credit"})]
    BY DEF G!RegisterKpis, G!Split
  <2>3. \A k \in keys :
          both[k] = G!Amounts({n \in {m \in docs : m.party = k} : n.kind = "debit"})
                      - G!Amounts({n \in {m \in docs : m.party = k} : n.kind = "credit"})
    <3> SUFFICES ASSUME NEW k \in keys
                 PROVE  both[k] = G!Amounts({n \in {m \in docs : m.party = k} : n.kind = "debit"})
                          - G!Amounts({n \in {m \in docs : m.party = k} : n.kind = "credit"})
      OBVIOUS
    <3>1. both[k] = GSum(docs, {n \in debits : key[n] = k}) - GSum(docs, {n \in credits : key[n] = k})
      OBVIOUS
    <3>2. GSum(docs, {n \in debits : key[n] = k}) = G!Amounts({n \in debits : key[n] = k})
          /\ GSum(docs, {n \in credits : key[n] = k}) = G!Amounts({n \in credits : key[n] = k})
      <4> HIDE DEF debits, credits, key, keys, both, plus, minus
      <4> QED
        BY <1>7
    <3>3. /\ {n \in {m \in docs : m.party = k} : n.kind = "debit"} = {n \in debits : key[n] = k}
          /\ {n \in {m \in docs : m.party = k} : n.kind = "credit"} = {n \in credits : key[n] = k}
      <4> HIDE DEF debits, credits, key, keys, both, plus, minus
      <4> QED
        BY <2>1
    <3> HIDE DEF debits, credits, key, keys, both, plus, minus
    <3> QED
      BY <3>1, <3>2, <3>3
  <2>4. both = [k \in keys |-> both[k]]
    OBVIOUS
  <2> HIDE DEF both, own, keys
  <2> QED
    BY <2>2, <2>3, <2>4
<1>12. G!Sum(DOMAIN own.customers, LAMBDA c : own.customers[c]) = SumFunctionOnSet(both, keys)
  <2>1. G!Sum(DOMAIN own.customers, LAMBDA c : own.customers[c])
          = G!SumFunction([c \in DOMAIN own.customers |-> own.customers[c]])
    BY DEF G!Sum
  <2>2. DOMAIN both = keys /\ both = [k \in keys |-> both[k]]
    OBVIOUS
  <2> HIDE DEF own, both, keys
  <2>3. [c \in DOMAIN own.customers |-> own.customers[c]] = both
    BY <1>11, <2>2
  <2> QED
    BY <2>1, <2>2, <2>3, ReturnsSumFunction
<1> HIDE DEF own, both, plus, minus, debits, credits, keys
<1> QED
  BY <1>5, <1>6, <1>9, <1>10, <1>12 DEF own

(* The register comes to the same by customer, by reason and by tax.       *)
LEMMA ReturnsRegister ==
  ASSUME NEW docs, GNotes(docs)
  PROVE  LET own == G!RegisterKpis(docs)
         IN  /\ own.applied + own.excluded = own.total
             /\ G!Sum(DOMAIN own.reasons, LAMBDA b : own.reasons[b]) = own.total
<1> DEFINE own == G!RegisterKpis(docs)
           with == {n \in docs : n.gst}
           without == {n \in docs : ~n.gst}
           key == [n \in docs |-> n.reason]
           keys == {key[n] : n \in docs}
           sums == [k \in keys |-> G!Amounts({n \in docs : key[n] = k})]
<1>1. GPriced(docs)
  BY ReturnsSplit
<1>2. own.applied = G!Amounts(with) /\ own.excluded = G!Amounts(without) /\ own.total = G!Amounts(docs)
  BY DEF G!RegisterKpis
<1>3. G!Amounts(docs) = G!Amounts(with) + G!Amounts(without)
  <2>1. /\ with \in SUBSET docs /\ without \in SUBSET docs
        /\ with \cup without = docs /\ with \cap without = {}
    BY DEF GNotes, GNote
  <2> HIDE DEF with, without
  <2> QED
    BY <1>1, <2>1, ReturnsUnion
<1>4. SumFunctionOnSet(sums, keys) = G!Amounts(docs)
  <2>1. DOMAIN key = docs
    OBVIOUS
  <2> HIDE DEF key
  <2> QED
    BY <1>1, <2>1, ReturnsGroups
<1>5. own.reasons = sums
  <2>1. keys = {n.reason : n \in docs}
    OBVIOUS
  <2>2. \A k : {n \in docs : key[n] = k} = {n \in docs : n.reason = k}
    OBVIOUS
  <2> HIDE DEF key, keys
  <2> QED
    BY <2>1, <2>2 DEF G!RegisterKpis
<1>6. G!Sum(DOMAIN own.reasons, LAMBDA b : own.reasons[b]) = SumFunctionOnSet(sums, keys)
  <2>1. G!Sum(DOMAIN own.reasons, LAMBDA b : own.reasons[b])
          = G!SumFunction([b \in DOMAIN own.reasons |-> own.reasons[b]])
    BY DEF G!Sum
  <2>2. DOMAIN sums = keys /\ sums = [k \in keys |-> sums[k]]
    OBVIOUS
  <2> HIDE DEF own, sums, keys
  <2>3. [b \in DOMAIN own.reasons |-> own.reasons[b]] = sums
    BY <1>5, <2>2
  <2> QED
    BY <2>1, <2>2, <2>3, ReturnsSumFunction
<1> HIDE DEF own, sums, keys, with, without
<1> QED
  BY <1>2, <1>3, <1>4, <1>6 DEF own

-----------------------------------------------------------------------------
(* The tax returns: what stays true of the notes and of the reports.       *)

GFields == {"id", "party", "kind", "date", "amount", "gst", "igst", "reason", "fits",
            "number", "status", "cancelled"}
GPaper(n) ==
  /\ GNote(n) /\ n.id # "none" /\ n.number \in {"none", n.id}
  /\ n.status = "issued" => n.number = n.id
  /\ n = [f \in GFields |-> n[f]]

GTyped ==
  /\ v1 \in Nat /\ IsFiniteSet(v2) /\ (\A n \in v2 : GPaper(n))
  /\ v3 \subseteq TaxBill /\ v4 \subseteq TaxCustomer
  /\ pc \in [TaxRequest -> {"idle", "read", "laid out", "served", "refused"}]
  /\ DOMAIN hand = TaxRequest

(* There is in the set an issued note of the month with the id, or one that was       *)
(* cancelled after the day.                                                *)
GFound(n, id, month, day) ==
  /\ n.id = id /\ G!MonthOf(n.date) = month /\ n.number # "none"
  /\ \/ n.status = "issued"
     \/ n.status = "cancelled" /\ n.cancelled > day
GStands(set, id, month, day) == \E n \in set : GFound(n, id, month, day)

(* What is filed was filed after the month and is there.                   *)
GFiled ==
  \A p \in v5 :
    /\ p[1] \in Int /\ G!LastDay(p[1]) < v1
    /\ GStands(v2, p[2], p[1], G!LastDay(p[1]))

(* What a report of the notes has read: what was issued then is issued     *)
(* still or was cancelled since, and of what was filed before it misses    *)
(* nothing.                                                                *)
GDrawn(h, set) ==
  /\ \A n \in h.docs : /\ n.status \in {"issued", "cancelled"}
                       /\ n.status = "issued" => GStands(set, n.id, h.month, h.day - 1)
  /\ \A p \in h.owed : p[1] = h.month =>
       \E n \in h.docs : n.id = p[2] /\ (n.status = "issued" \/ G!Amends(n, h.month))

GParts == {"what", "month", "day", "docs", "gstins", "truth", "reconciled", "owed"}
GHand(h, now, set) ==
  /\ h = [f \in GParts |-> h[f]]
  /\ h.what \in G!Report /\ h.month \in Int /\ h.day \in Nat /\ h.day <= now
  /\ h.gstins \subseteq TaxCustomer
  /\ h.what = "gstr1" => h.docs \subseteq TaxBill
  /\ h.what # "gstr1" => GNotes(h.docs)
  /\ h.what = "gstr1_9b" => GDrawn(h, set)

(* What the second read has found.                                         *)
GServed(h) ==
  /\ h.what # "gstr1" => GNotes(h.truth)
  /\ h.what = "gstr1_9b" => G!Agrees(h, h.truth)
  /\ h.what = "cndn_register" => \A n \in h.truth : n.status = "issued"
  /\ h.reconciled => G!Agrees(h, h.truth)

GHeld(r) == /\ pc[r] # "idle" => GHand(hand[r], v1, v2)
            /\ pc[r] = "served" => GServed(hand[r])

GInv == GTyped /\ GFiled /\ \A r \in TaxRequest : GHeld(r)

(* What the invariant means: the returns agree.                            *)
LEMMA ReturnsKeepNotes ==
  ASSUME GInv, NEW r \in TaxRequest, pc[r] = "served", G!Returns(hand[r]),
         NEW n \in v2, <<hand[r].month, n.id>> \in hand[r].owed
  PROVE  \E m \in G!Listed(G!TablesOf(hand[r])) \cup G!TablesOf(hand[r])["amended"] : m.id = n.id
<1> DEFINE h == hand[r]
           tables == G!TablesOf(h)
<1>1. GDrawn(h, v2)
  BY DEF GInv, GHeld, GHand, G!Returns
<1>2. PICK m \in h.docs : m.id = n.id /\ (m.status = "issued" \/ G!Amends(m, h.month))
  <2>1. <<h.month, n.id>>[1] = h.month /\ <<h.month, n.id>>[2] = n.id
    OBVIOUS
  <2> QED
    BY <1>1, <2>1 DEF GDrawn
<1>3. tables = G!Tables(h.docs, h.month, h.gstins)
  BY DEF G!TablesOf
<1>4. \A x \in h.docs : x.status \in {"issued", "cancelled"}
  BY <1>1 DEF GDrawn
<1>5. \A x \in h.docs : /\ x.status = "issued" => x \in G!Listed(tables)
                        /\ x.status = "cancelled" /\ G!Amends(x, h.month) => x \in tables["amended"]
  <2> HIDE DEF h, tables
  <2> QED
    BY <1>3, <1>4, ReturnsTables
<1>6. m \in G!Listed(tables) \cup tables["amended"]
  BY <1>2, <1>4, <1>5
<1> QED
  BY <1>2, <1>6

LEMMA ReturnsOfNotes ==
  ASSUME NEW h, GHand(h, v1, v2), GServed(h), h.what = "gstr1_9b"
  PROVE  LET tables == G!TablesOf(h)
             kpis == G!RegisterKpis({n \in h.truth : n.status = "issued"})
             file == G!Offline(tables)
         IN  /\ G!Amounts(G!Taxed(tables)) = kpis.applied
             /\ G!Amounts(tables["commercial"]) = kpis.excluded
             /\ G!Split(G!Listed(tables)).debit + G!Split(G!Listed(tables)).credit = kpis.total
             /\ h.docs \cap h.truth
                  \subseteq G!Listed(tables) \cup tables["amended"] \cup tables["dropped"]
             /\ file.cdnr \cup file.cdnur \cup file.gaps \cup file.excluded = G!Listed(tables)
             /\ G!Problems(file) = {}
<1> DEFINE tables == G!TablesOf(h)
<1>1. tables = G!Tables(h.docs, h.month, h.gstins)
  BY DEF G!TablesOf
<1>2. /\ GNotes(h.docs) /\ GNotes(h.truth) /\ G!Reconciles(tables, h.truth)
      /\ \A n \in h.docs : n.status \in {"issued", "cancelled"}
  BY DEF GHand, GServed, GDrawn, G!Agrees
<1> HIDE DEF tables
<1>3. LET kpis == G!RegisterKpis({n \in h.truth : n.status = "issued"})
      IN  /\ G!Amounts(G!Taxed(tables)) = kpis.applied
          /\ G!Amounts(tables["commercial"]) = kpis.excluded
          /\ G!Split(G!Listed(tables)).debit + G!Split(G!Listed(tables)).credit = kpis.total
  BY <1>1, <1>2, ReturnsReconciled
<1>4. h.docs = G!Listed(tables) \cup tables["amended"] \cup tables["dropped"]
  BY <1>1, <1>2, ReturnsTables
<1>5. LET file == G!Offline(tables)
      IN  /\ file.cdnr \cup file.cdnur \cup file.gaps \cup file.excluded = G!Listed(tables)
          /\ G!Problems(file) = {}
  BY ReturnsFile
<1> QED
  BY <1>3, <1>4, <1>5 DEF tables

LEMMA ReturnsOfSales ==
  ASSUME NEW h, GHand(h, v1, v2), GServed(h), h.what = "gstr1"
  PROVE  LET by == G!ByCustomer(h.docs, h.gstins)
         IN  /\ G!Sum(DOMAIN by.states, LAMBDA s : by.states[s]) = by.total
             /\ by.missing \subseteq by.b2c
             /\ h.reconciled => G!Amounts(by.b2b \cup by.b2c) = G!Amounts(h.truth)
<1>1. h.docs \in SUBSET TaxBill /\ h.gstins \in SUBSET TaxCustomer
  BY DEF GHand
<1>2. h.reconciled => G!Amounts(h.docs) = G!Amounts(h.truth)
  BY DEF GServed, G!Agrees
<1>3. LET by == G!ByCustomer(h.docs, h.gstins)
      IN  /\ G!Sum(DOMAIN by.states, LAMBDA s : by.states[s]) = by.total
          /\ by.missing \subseteq by.b2c
          /\ G!Amounts(by.b2b \cup by.b2c) = G!Amounts(h.docs)
  BY <1>1, ReturnsSales
<1> QED
  BY <1>2, <1>3

LEMMA ReturnsOfRegister ==
  ASSUME NEW h, GHand(h, v1, v2), GServed(h), h.what = "cndn_register"
  PROVE  LET kpis == G!RegisterKpis({n \in h.truth : n.status = "issued"})
             own == G!RegisterKpis(h.docs)
         IN  /\ G!Sum(DOMAIN own.customers, LAMBDA c : own.customers[c]) = own.net
             /\ own.applied + own.excluded = own.total
             /\ G!Sum(DOMAIN own.reasons, LAMBDA b : own.reasons[b]) = own.total
             /\ h.reconciled => own.count = kpis.count /\ own.total = kpis.total
<1> DEFINE kpis == G!RegisterKpis({n \in h.truth : n.status = "issued"})
           own == G!RegisterKpis(h.docs)
<1>1. GNotes(h.docs) /\ (\A n \in h.truth : n.status = "issued")
  BY DEF GHand, GServed
<1>2. {n \in h.truth : n.status = "issued"} = h.truth
  BY <1>1
<1>3. h.reconciled => G!Cardinality(h.docs) = G!Cardinality(h.truth) /\ G!Amounts(h.docs) = G!Amounts(h.truth)
  <2>1. G!Agrees(h, h.truth) =>
          G!Cardinality(h.docs) = G!Cardinality(h.truth) /\ G!Amounts(h.docs) = G!Amounts(h.truth)
    BY DEF G!Agrees
  <2> QED
    BY <2>1 DEF GServed
<1>4. /\ own.count = G!Cardinality(h.docs) /\ own.total = G!Amounts(h.docs)
      /\ kpis.count = G!Cardinality(h.truth) /\ kpis.total = G!Amounts(h.truth)
  <2>1. \A rows : /\ G!RegisterKpis(rows).count = G!Cardinality(rows)
                  /\ G!RegisterKpis(rows).total = G!Amounts(rows)
    BY DEF G!RegisterKpis
  <2>2. kpis = G!RegisterKpis(h.truth)
    BY <1>2
  <2> HIDE DEF kpis
  <2> QED
    BY <2>1, <2>2
<1>5. G!Sum(DOMAIN own.customers, LAMBDA c : own.customers[c]) = own.net
  BY <1>1, ReturnsCustomers
<1>6. own.applied + own.excluded = own.total
      /\ G!Sum(DOMAIN own.reasons, LAMBDA b : own.reasons[b]) = own.total
  BY <1>1, ReturnsRegister
<1> HIDE DEF own, kpis
<1> QED
  BY <1>3, <1>4, <1>5, <1>6 DEF own, kpis

LEMMA ReturnsMean ==
  ASSUME GInv
  PROVE  G!ReturnsAgree
<1>1. G!NeverDisappears
  BY ReturnsKeepNotes DEF G!NeverDisappears
<1>2. G!ReturnsAddUp
  <2> SUFFICES ASSUME NEW r \in TaxRequest, pc[r] = "served"
               PROVE  LET h == hand[r]
                          tables == G!TablesOf(h)
                          kpis == G!RegisterKpis({n \in h.truth : n.status = "issued"})
                          file == G!Offline(tables)
                      IN  CASE G!Returns(h) ->
               /\ G!Amounts(G!Taxed(tables)) = kpis.applied
               /\ G!Amounts(tables["commercial"]) = kpis.excluded
               /\ G!Split(G!Listed(tables)).debit + G!Split(G!Listed(tables)).credit = kpis.total
               /\ h.docs \cap h.truth \subseteq G!Listed(tables) \cup tables["amended"] \cup tables["dropped"]
               /\ file.cdnr \cup file.cdnur \cup file.gaps \cup file.excluded = G!Listed(tables)
               /\ G!Problems(file) = {}
          [] h.what = "gstr1" ->
               LET by == G!ByCustomer(h.docs, h.gstins)
               IN  /\ G!Sum(DOMAIN by.states, LAMBDA s : by.states[s]) = by.total
                   /\ by.missing \subseteq by.b2c
                   /\ h.reconciled => G!Amounts(by.b2b \cup by.b2c) = G!Amounts(h.truth)
          [] h.what = "cndn_register" ->
               LET own == G!RegisterKpis(h.docs)
               IN  /\ G!Sum(DOMAIN own.customers, LAMBDA c : own.customers[c]) = own.net
                   /\ own.applied + own.excluded = own.total
                   /\ G!Sum(DOMAIN own.reasons, LAMBDA b : own.reasons[b]) = own.total
                   /\ h.reconciled => own.count = kpis.count /\ own.total = kpis.total
    BY DEF G!ReturnsAddUp
  <2> DEFINE h == hand[r]
  <2>1. GHand(h, v1, v2) /\ GServed(h)
    BY DEF GInv, GHeld
  <2>2. h.what \in {"gstr1", "gstr1_9b", "cndn_register"}
    BY <2>1 DEF GHand, G!Report
  <2> HIDE DEF h
  <2>3. CASE h.what = "gstr1_9b"
    BY <2>1, <2>3, ReturnsOfNotes DEF G!Returns, h
  <2>4. CASE h.what = "gstr1"
    BY <2>1, <2>4, ReturnsOfSales DEF G!Returns, h
  <2>5. CASE h.what = "cndn_register"
    BY <2>1, <2>5, ReturnsOfRegister DEF G!Returns, h
  <2> QED
    BY <2>2, <2>3, <2>4, <2>5 DEF h
<1> QED
  BY <1>1, <1>2 DEF G!ReturnsAgree

(* The initial state.                                                      *)
LEMMA ReturnsBegin ==
  ASSUME G!Init
  PROVE  GInv
<1> DEFINE of(d) ==
      [id |-> d.id, party |-> d.party, kind |-> d.kind, date |-> d.date, amount |-> d.amount,
       gst |-> d.gst, igst |-> d.igst, reason |-> d.reason, fits |-> d.fits,
       number |-> "none", status |-> "draft", cancelled |-> 0]
<1>1. v2 = {of(d) : d \in TaxDraft}
  BY DEF G!Init
<1>2. IsFiniteSet(v2)
  <2> DEFINE all == [d \in TaxDraft |-> of(d)]
  <2>1. all \in Surjection(TaxDraft, v2)
    BY <1>1 DEF Surjection
  <2> HIDE DEF all
  <2> QED
    BY <2>1, OfficeReturns, FS_Surjection
<1>3. \A n \in v2 : GPaper(n)
  <2> SUFFICES ASSUME NEW d \in TaxDraft
               PROVE  GPaper(of(d))
    BY <1>1
  <2>1. /\ d.id # "none" /\ d.party \in DOMAIN TaxState /\ d.kind \in {"credit", "debit"}
        /\ d.date \in Nat /\ d.amount \in Int /\ d.gst \in BOOLEAN /\ d.igst \in BOOLEAN
    BY OfficeReturns
  <2>2. GNote(of(d))
    BY <2>1 DEF GNote, GStates
  <2>3. of(d) = [f \in GFields |-> of(d)[f]]
    BY DEF GFields
  <2> QED
    BY <2>1, <2>2, <2>3 DEF GPaper
<1>4. GTyped
  BY <1>2, <1>3 DEF G!Init, GTyped
<1>5. GFiled /\ \A r \in TaxRequest : GHeld(r)
  BY DEF G!Init, GFiled, GHeld
<1> QED
  BY <1>4, <1>5 DEF GInv

(* What is found is found again after a step.                              *)
LEMMA ReturnsStillStand ==
  ASSUME GTyped, v2' = v2 \/ \E n \in v2 : G!Issue(n) \/ G!Cancel(n),
         NEW id, NEW month, NEW day \in Int, day < v1, GStands(v2, id, month, day)
  PROVE  GStands(v2', id, month, day)
<1>1. PICK o \in v2 : GFound(o, id, month, day)
  BY DEF GStands
<1>2. GStands(v2', id, month, day) <=> \E n \in v2' : GFound(n, id, month, day)
  BY DEF GStands
<1>3. CASE o \in v2'
  BY <1>1, <1>2, <1>3
<1>4. CASE o \notin v2'
  <2>1. PICK n \in v2 : G!Issue(n) \/ G!Cancel(n)
    BY <1>1, <1>4
  <2>2. n = o
    BY <1>1, <1>4, <2>1 DEF G!Issue, G!Cancel
  <2>3. ~G!Issue(o)
    BY <1>1 DEF G!Issue, GFound
  <2>4. v2' = (v2 \ {o}) \cup {[o EXCEPT !.status = "cancelled", !.cancelled = v1]}
    BY <2>1, <2>2, <2>3 DEF G!Cancel
  <2>5. GPaper(o)
    BY DEF GTyped
  <2> DEFINE p == [o EXCEPT !.status = "cancelled", !.cancelled = v1]
  <2>6. /\ p.id = o.id /\ p.date = o.date /\ p.number = o.number
        /\ p.status = "cancelled" /\ p.cancelled = v1
    <3>1. {"id", "date", "number", "status", "cancelled"} \subseteq DOMAIN o
      BY <2>5 DEF GPaper, GFields
    <3> QED
      BY <3>1
  <2>7. GFound(p, id, month, day)
    BY <1>1, <2>6 DEF GFound
  <2> QED
    BY <1>2, <2>4, <2>7
<1> QED
  BY <1>3, <1>4

LEMMA ReturnsPapers ==
  ASSUME GTyped, NEW n \in v2, G!Issue(n) \/ G!Cancel(n)
  PROVE  GTyped' /\ UNCHANGED <<v1, pc, hand, v5>>
<1>1. UNCHANGED <<v1, v3, v4, pc, hand, v5>>
  BY DEF G!Issue, G!Cancel
<1> DEFINE i == [n EXCEPT !.status = "issued", !.number = n.id]
           c == [n EXCEPT !.status = "cancelled", !.cancelled = v1]
<1>2. GPaper(n) /\ v1 \in Nat
  BY DEF GTyped
<1>3. /\ DOMAIN n = GFields /\ i = [f \in GFields |-> i[f]] /\ c = [f \in GFields |-> c[f]]
      /\ \A f \in GFields \ {"status", "number"} : i[f] = n[f]
      /\ \A f \in GFields \ {"status", "cancelled"} : c[f] = n[f]
      /\ i["status"] = "issued" /\ i["number"] = n.id
      /\ c["status"] = "cancelled" /\ c["cancelled"] = v1
  <2>1. n = [f \in GFields |-> n[f]]
    BY <1>2 DEF GPaper
  <2>2. DOMAIN n = GFields
    BY <2>1
  <2>3. {"status", "number", "cancelled"} \subseteq GFields
    BY DEF GFields
  <2> QED
    BY <2>2, <2>3
<1>4. GPaper(i)
  <2> HIDE DEF i
  <2>1. /\ i.id = n.id /\ i.party = n.party /\ i.kind = n.kind /\ i.date = n.date
        /\ i.amount = n.amount /\ i.gst = n.gst /\ i.igst = n.igst /\ i.cancelled = n.cancelled
        /\ i.status = "issued" /\ i.number = n.id
    BY <1>3 DEF GFields
  <2>2. GNote(i)
    BY <1>2, <2>1 DEF GPaper, GNote, GStates
  <2> QED
    BY <1>2, <1>3, <2>1, <2>2 DEF GPaper
<1>5. GPaper(c)
  <2> HIDE DEF c
  <2>1. /\ c.id = n.id /\ c.party = n.party /\ c.kind = n.kind /\ c.date = n.date
        /\ c.amount = n.amount /\ c.gst = n.gst /\ c.igst = n.igst /\ c.number = n.number
        /\ c.status = "cancelled" /\ c.cancelled = v1
    BY <1>3 DEF GFields
  <2>2. GNote(c)
    BY <1>2, <2>1 DEF GPaper, GNote, GStates
  <2> QED
    BY <1>2, <1>3, <2>1, <2>2 DEF GPaper
<1>6. v2' = (v2 \ {n}) \cup {i} \/ v2' = (v2 \ {n}) \cup {c}
  BY DEF G!Issue, G!Cancel
<1> HIDE DEF i, c
<1>7. IsFiniteSet(v2')
  <2>1. IsFiniteSet(v2) /\ IsFiniteSet(v2 \ {n})
    BY FS_Subset DEF GTyped
  <2> QED
    BY <1>6, <2>1, FS_AddElement
<1>8. \A m : GPaper(m)' <=> GPaper(m)
  BY DEF GPaper, GNote
<1>9. \A m \in v2' : GPaper(m)
  BY <1>4, <1>5, <1>6 DEF GTyped
<1> QED
  BY <1>1, <1>7, <1>8, <1>9 DEF GTyped

(* What a report may be told of the notes or the sales of a month.         *)
LEMMA ReturnsDocuments ==
  ASSUME GTyped, NEW what \in G!Report, NEW month
  PROVE  /\ what = "gstr1" => G!Documents(what, month) \subseteq TaxBill
         /\ what # "gstr1" => /\ GNotes(G!Documents(what, month))
                              /\ G!Documents(what, month) \subseteq v2
         /\ what = "gstr1_9b" =>
              G!Documents(what, month)
                = {n \in v2 : G!MonthOf(n.date) = month /\ n.status \in {"issued", "cancelled"}}
         /\ what = "cndn_register" => \A n \in G!Documents(what, month) : n.status = "issued"
<1> DEFINE docs == G!Documents(what, month)
<1>1. CASE what = "gstr1"
  BY <1>1 DEF G!Documents, G!InvoicesOf, GTyped
<1>2. CASE what = "gstr1_9b"
  <2>1. docs = {n \in v2 : G!MonthOf(n.date) = month /\ n.status \in {"issued", "cancelled"}}
    BY <1>2 DEF G!Documents, G!NotesOf
  <2>2. GNotes(docs)
    BY <2>1, FS_Subset DEF GTyped, GPaper, GNotes
  <2> QED
    BY <1>2, <2>1, <2>2
<1>3. CASE what = "cndn_register"
  <2>1. docs = {n \in v2 : /\ G!MonthOf(n.date) = month /\ "all" \in {"all", n.kind}
                           /\ "issued" \in {"all", n.status}}
    BY <1>3 DEF G!Documents, G!RegisterRows
  <2>2. docs \subseteq v2 /\ \A n \in docs : n.status = "issued"
    BY <2>1
  <2>3. GNotes(docs)
    BY <2>2, FS_Subset DEF GTyped, GPaper, GNotes
  <2> QED
    BY <1>3, <2>2, <2>3
<1> QED
  BY <1>1, <1>2, <1>3 DEF G!Report

(* What a report has read is still true.                                   *)
LEMMA ReturnsHandStands ==
  ASSUME GTyped, v1' \in Nat, v1' >= v1, v2' = v2 \/ \E n \in v2 : G!Issue(n) \/ G!Cancel(n),
         NEW h, GHand(h, v1, v2)
  PROVE  GHand(h, v1', v2')
<1>1. /\ h.day \in Nat /\ h.day <= v1
      /\ h.what = "gstr1_9b" => GDrawn(h, v2)
  BY DEF GHand
<1>2. v1 \in Nat
  BY DEF GTyped
<1>3. h.day - 1 \in Int /\ h.day - 1 < v1 /\ h.day <= v1'
  BY <1>1, <1>2
<1>4. ASSUME GDrawn(h, v2)
      PROVE  GDrawn(h, v2')
  <2>1. \A n \in h.docs : n.status = "issued" => GStands(v2, n.id, h.month, h.day - 1)
    BY <1>4 DEF GDrawn
  <2>2. \A n \in h.docs : n.status = "issued" => GStands(v2', n.id, h.month, h.day - 1)
    BY <1>3, <2>1, ReturnsStillStand
  <2> QED
    BY <1>4, <2>2 DEF GDrawn
<1> QED
  BY <1>1, <1>3, <1>4 DEF GHand

LEMMA ReturnsFiledStands ==
  ASSUME GTyped, GFiled, v1' \in Nat, v1' >= v1,
         v2' = v2 \/ \E n \in v2 : G!Issue(n) \/ G!Cancel(n), v5' = v5
  PROVE  GFiled'
<1> SUFFICES ASSUME NEW p \in v5
             PROVE  /\ p[1] \in Int /\ G!LastDay(p[1]) < v1'
                    /\ GStands(v2', p[2], p[1], G!LastDay(p[1]))
  BY DEF GFiled, G!LastDay
<1>1. p[1] \in Int /\ G!LastDay(p[1]) < v1 /\ GStands(v2, p[2], p[1], G!LastDay(p[1]))
  BY DEF GFiled
<1>2. v1 \in Nat /\ G!LastDay(p[1]) \in Int
  <2>1. v1 \in Nat
    BY DEF GTyped
  <2> QED
    BY <1>1, <2>1 DEF G!LastDay
<1>3. GStands(v2', p[2], p[1], G!LastDay(p[1]))
  BY <1>1, <1>2, ReturnsStillStand
<1> QED
  BY <1>1, <1>2, <1>3

(* A step of the notes, the invoices, the customers or the clock.          *)
LEMMA ReturnsAround ==
  ASSUME GInv, GTyped', v1' >= v1, v2' = v2 \/ \E n \in v2 : G!Issue(n) \/ G!Cancel(n),
         UNCHANGED <<pc, hand, v5>>
  PROVE  GInv'
<1>1. GTyped /\ GFiled /\ v1' \in Nat
  BY DEF GInv, GTyped
<1>2. GFiled'
  BY <1>1, ReturnsFiledStands
<1>3. ASSUME NEW r \in TaxRequest
      PROVE  GHeld(r)'
  <2>1. GHeld(r)
    BY DEF GInv
  <2>2. PICK h : h = hand[r]
    OBVIOUS
  <2>3. pc[r] # "idle" => GHand(h, v1', v2')
    <3>1. pc[r] # "idle" => GHand(h, v1, v2)
      BY <2>1, <2>2 DEF GHeld
    <3> QED
      BY <1>1, <3>1, ReturnsHandStands
  <2>4. pc[r] = "served" => GServed(h)
    BY <2>1, <2>2 DEF GHeld
  <2>5. GHeld(r)' <=> /\ pc'[r] # "idle" => GHand(hand'[r], v1', v2')
                      /\ pc'[r] = "served" => GServed(hand'[r])
    BY DEF GHeld, GServed, GNotes, GNote, GHand, GDrawn, GStands, GFound
  <2> QED
    BY <2>2, <2>3, <2>4, <2>5
<1> QED
  BY <1>2, <1>3 DEF GInv

(* A step of a report, that leaves what the others have in hand.           *)
LEMMA ReturnsOthers ==
  ASSUME GInv, NEW r \in TaxRequest, UNCHANGED <<v1, v2, v3, v4>>,
         NEW state \in {"read", "laid out", "served", "refused"}, pc' = [pc EXCEPT ![r] = state],
         NEW h, hand' = [hand EXCEPT ![r] = h],
         GHand(h, v1, v2), state = "served" => GServed(h), GFiled'
  PROVE  GInv'
<1>1. GTyped'
  <2>1. GTyped
    BY DEF GInv
  <2>2. pc' \in [TaxRequest -> {"idle", "read", "laid out", "served", "refused"}]
        /\ DOMAIN hand' = TaxRequest
    BY <2>1 DEF GTyped
  <2>3. \A n : GPaper(n)' <=> GPaper(n)
    BY DEF GPaper, GNote
  <2> QED
    BY <2>1, <2>2, <2>3 DEF GTyped
<1>2. ASSUME NEW q \in TaxRequest
      PROVE  GHeld(q)'
  <2>1. /\ GHeld(q)' <=> /\ pc'[q] # "idle" => GHand(hand'[q], v1', v2')
                         /\ pc'[q] = "served" => GServed(hand'[q])
        /\ GHeld(q) <=> /\ pc[q] # "idle" => GHand(hand[q], v1, v2)
                        /\ pc[q] = "served" => GServed(hand[q])
    BY DEF GHeld
  <2>2. DOMAIN hand = TaxRequest /\ DOMAIN pc = TaxRequest /\ GHeld(q)
    BY DEF GInv, GTyped
  <2>3. CASE q = r
    <3>1. pc'[q] = state /\ hand'[q] = h
      BY <2>2, <2>3
    <3> QED
      BY <2>1, <3>1
  <2>4. CASE q # r
    <3>1. pc'[q] = pc[q] /\ hand'[q] = hand[q]
      BY <2>2, <2>4
    <3> QED
      BY <2>1, <2>2, <3>1
  <2> QED
    BY <2>3, <2>4
<1> QED
  BY <1>1, <1>2 DEF GInv

LEMMA ReturnsRead ==
  ASSUME GInv, NEW r \in TaxRequest, NEW what \in G!Report, NEW month \in G!Month,
         G!Read(r, what, month)
  PROVE  GInv'
<1> DEFINE docs == G!Documents(what, month)
           h == [what |-> what, month |-> month, day |-> v1, docs |-> docs,
                 gstins |-> {}, truth |-> {}, reconciled |-> FALSE, owed |-> v5]
<1>1. /\ hand' = [hand EXCEPT ![r] = h] /\ pc' = [pc EXCEPT ![r] = "read"]
      /\ UNCHANGED <<v1, v2, v3, v4, v5>>
  BY DEF G!Read
<1>2. GTyped /\ GFiled /\ v1 \in Nat /\ month \in Int
  <2>1. TaxHorizon \div 2 \in Int
    BY OfficeReturns
  <2>2. month \in Int
    BY <2>1 DEF G!Month
  <2> QED
    BY <2>2 DEF GInv, GTyped
<1>3. GFiled'
  BY <1>1, <1>2 DEF GFiled, G!LastDay
<1>4. /\ h.what = what /\ h.month = month /\ h.day = v1 /\ h.docs = docs /\ h.gstins = {}
      /\ h.owed = v5
  OBVIOUS
<1>5. h = [f \in GParts |-> h[f]]
  BY DEF GParts
<1>6. ASSUME what = "gstr1_9b"
      PROVE  GDrawn(h, v2)
  <2>1. docs = {n \in v2 : G!MonthOf(n.date) = month /\ n.status \in {"issued", "cancelled"}}
    BY <1>2, <1>6, ReturnsDocuments
  <2> HIDE DEF docs, h
  <2>2. ASSUME NEW n \in docs, n.status = "issued"
        PROVE  GStands(v2, n.id, h.month, h.day - 1)
    <3>1. n \in v2 /\ n.number = n.id /\ n.id # "none"
      BY <1>2, <2>1, <2>2 DEF GTyped, GPaper
    <3>2. GFound(n, n.id, h.month, h.day - 1)
      BY <1>4, <2>1, <2>2, <3>1 DEF GFound
    <3> QED
      BY <3>1, <3>2 DEF GStands
  <2>3. ASSUME NEW p \in v5, p[1] = month
        PROVE  \E n \in docs : n.id = p[2] /\ (n.status = "issued" \/ G!Amends(n, month))
    <3>1. PICK n \in v2 : GFound(n, p[2], month, G!LastDay(month))
      BY <1>2, <2>3 DEF GFiled, GStands
    <3>2. n \in docs
      BY <2>1, <3>1 DEF GFound
    <3>3. n.id = p[2] /\ (n.status = "issued" \/ G!Amends(n, month))
      BY <3>1 DEF GFound, G!Amends
    <3> QED
      BY <3>2, <3>3
  <2>4. \A n \in docs : n.status \in {"issued", "cancelled"}
    BY <2>1
  <2> QED
    BY <1>4, <2>2, <2>3, <2>4 DEF GDrawn
<1>7. GHand(h, v1, v2)
  <2>1. /\ what = "gstr1" => docs \subseteq TaxBill
        /\ what # "gstr1" => GNotes(docs)
    BY <1>2, ReturnsDocuments
  <2> HIDE DEF docs, h
  <2> QED
    BY <1>2, <1>4, <1>5, <1>6, <2>1 DEF GHand
<1> HIDE DEF h
<1> QED
  BY <1>1, <1>3, <1>7, ReturnsOthers

LEMMA ReturnsReadCustomers ==
  ASSUME GInv, NEW r \in TaxRequest, G!ReadCustomers(r)
  PROVE  GInv'
<1> DEFINE h == hand[r]
           new == [h EXCEPT !.gstins = v4]
<1>1. /\ pc[r] = "read" /\ pc' = [pc EXCEPT ![r] = "laid out"]
      /\ hand' = [hand EXCEPT ![r] = new] /\ UNCHANGED <<v1, v2, v3, v4, v5>>
  BY DEF G!ReadCustomers
<1>2. GHand(h, v1, v2) /\ GFiled /\ v4 \subseteq TaxCustomer
  BY <1>1 DEF GInv, GHeld, GTyped
<1>3. GFiled'
  BY <1>1, <1>2 DEF GFiled, G!LastDay
<1>4. h = [f \in GParts |-> h[f]]
  BY <1>2 DEF GHand
<1>5. /\ new = [f \in GParts |-> new[f]] /\ new.gstins = v4
      /\ \A f \in GParts \ {"gstins"} : new[f] = h[f]
  <2> HIDE DEF h
  <2>1. DOMAIN h = GParts
    BY <1>4
  <2>2. {"gstins", "truth", "reconciled"} \subseteq GParts
    BY DEF GParts
  <2> QED
    BY <2>1, <2>2
<1> HIDE DEF h, new
<1>6. /\ new.what = h.what /\ new.month = h.month /\ new.day = h.day /\ new.docs = h.docs
      /\ new.owed = h.owed
  BY <1>5 DEF GParts
<1>7. GHand(new, v1, v2)
  BY <1>2, <1>5, <1>6 DEF GHand, GDrawn
<1> QED
  BY <1>1, <1>3, <1>7, ReturnsOthers

LEMMA ReturnsCompare ==
  ASSUME GInv, NEW r \in TaxRequest, G!Compare(r)
  PROVE  GInv'
<1> DEFINE h == hand[r]
           truth == G!Documents(h.what, h.month)
           yes == G!Agrees(h, truth)
           served == h.what = "gstr1_9b" => yes
           new == [h EXCEPT !.truth = truth, !.reconciled = yes]
           state == IF served THEN "served" ELSE "refused"
<1>1. /\ pc[r] = "laid out" /\ pc' = [pc EXCEPT ![r] = state]
      /\ hand' = [hand EXCEPT ![r] = new] /\ UNCHANGED <<v1, v2, v3, v4>>
      /\ v5' = IF h.what = "gstr1_9b" /\ served /\ h.day > G!LastDay(h.month)
               THEN v5 \cup {<<h.month, n.id>> : n \in G!Listed(G!TablesOf(h))} ELSE v5
  BY DEF G!Compare
<1>2. GHand(h, v1, v2) /\ GFiled /\ GTyped
  BY <1>1 DEF GInv, GHeld
<1>3. h = [f \in GParts |-> h[f]]
  BY <1>2 DEF GHand
<1>4. /\ new = [f \in GParts |-> new[f]] /\ new.truth = truth /\ new.reconciled = yes
      /\ \A f \in GParts \ {"truth", "reconciled"} : new[f] = h[f]
  <2> HIDE DEF h, truth, yes
  <2>1. DOMAIN h = GParts
    BY <1>3
  <2>2. {"gstins", "truth", "reconciled"} \subseteq GParts
    BY DEF GParts
  <2> QED
    BY <2>1, <2>2
<1>5. /\ new.what = h.what /\ new.month = h.month /\ new.day = h.day /\ new.docs = h.docs
      /\ new.owed = h.owed /\ new.gstins = h.gstins
  <2> HIDE DEF new, h
  <2> QED
    BY <1>4 DEF GParts
<1>6. GHand(new, v1, v2)
  <2> HIDE DEF new, h
  <2> QED
    BY <1>2, <1>4, <1>5 DEF GHand, GDrawn
<1>7. state = "served" => GServed(new)
  <2>1. G!Agrees(new, truth) <=> yes
    <3> HIDE DEF new, h, truth
    <3> QED
      BY <1>5 DEF G!Agrees, G!TablesOf
  <2>2. h.what \in G!Report
    BY <1>2 DEF GHand
  <2>3. /\ h.what # "gstr1" => GNotes(truth)
        /\ h.what = "cndn_register" => \A n \in truth : n.status = "issued"
    <3> HIDE DEF h
    <3> QED
      BY <1>2, <2>2, ReturnsDocuments
  <2>4. state = "served" => served
    OBVIOUS
  <2> HIDE DEF new, h, truth, yes, state
  <2> QED
    BY <1>4, <1>5, <2>1, <2>3, <2>4 DEF GServed
<1>8. GFiled'
  <2>1. ASSUME NEW p \in v5
        PROVE  /\ p[1] \in Int /\ G!LastDay(p[1]) < v1
               /\ GStands(v2, p[2], p[1], G!LastDay(p[1]))
    BY <1>2 DEF GFiled
  <2>2. ASSUME h.what = "gstr1_9b", h.day > G!LastDay(h.month), NEW n \in G!Listed(G!TablesOf(h))
        PROVE  /\ h.month \in Int /\ G!LastDay(h.month) < v1
               /\ GStands(v2, n.id, h.month, G!LastDay(h.month))
    <3>1. /\ h.month \in Int /\ h.day \in Nat /\ h.day <= v1 /\ GDrawn(h, v2)
      BY <1>2, <2>2 DEF GHand
    <3>2. v1 \in Nat
      BY <1>2 DEF GTyped
    <3>3. G!LastDay(h.month) \in Int /\ G!LastDay(h.month) < v1
          /\ G!LastDay(h.month) <= h.day - 1 /\ h.day - 1 \in Int
      <4> HIDE DEF h
      <4> QED
        BY <2>2, <3>1, <3>2 DEF G!LastDay
    <3>4. n \in h.docs /\ n.status = "issued"
      <4> DEFINE tables == G!Tables(h.docs, h.month, h.gstins)
      <4>1. \A m \in h.docs : m.status \in {"issued", "cancelled"}
        BY <3>1 DEF GDrawn
      <4>2. \A t \in GTables : tables[t] = {m \in h.docs : G!Table(m, h.month, h.gstins) = t}
        <5> HIDE DEF h
        <5> QED
          BY <4>1, ReturnsTables
      <4>3. n \in tables["cdnr"] \cup tables["cdnur"] \cup tables["b2cs"] \cup tables["commercial"]
        BY <2>2 DEF G!Listed, G!Taxed, G!TablesOf
      <4> HIDE DEF tables, h
      <4>4. n \in h.docs /\ G!Table(n, h.month, h.gstins) \in {"cdnr", "cdnur", "b2cs", "commercial"}
        BY <4>2, <4>3 DEF GTables
      <4>5. n.status # "cancelled"
        BY <4>4 DEF G!Table
      <4> QED
        BY <4>1, <4>4, <4>5
    <3>5. GStands(v2, n.id, h.month, h.day - 1)
      BY <3>1, <3>4 DEF GDrawn
    <3>6. PICK o \in v2 : GFound(o, n.id, h.month, h.day - 1)
      BY <3>5 DEF GStands
    <3>7. o.cancelled \in Nat
      BY <1>2 DEF GTyped, GPaper, GNote
    <3>8. GFound(o, n.id, h.month, G!LastDay(h.month))
      <4> HIDE DEF h
      <4> QED
        BY <3>3, <3>6, <3>7 DEF GFound
    <3> QED
      BY <3>1, <3>3, <3>8 DEF GStands
  <2>3. ASSUME NEW p \in v5'
        PROVE  /\ p[1] \in Int /\ G!LastDay(p[1]) < v1
               /\ GStands(v2, p[2], p[1], G!LastDay(p[1]))
    <3>1. CASE p \in v5
      BY <2>1, <3>1
    <3>2. CASE p \notin v5
      <4>1. h.what = "gstr1_9b" /\ h.day > G!LastDay(h.month)
            /\ p \in {<<h.month, n.id>> : n \in G!Listed(G!TablesOf(h))}
        <5> HIDE DEF h, served
        <5> QED
          BY <1>1, <2>3, <3>2
      <4>2. PICK n \in G!Listed(G!TablesOf(h)) : p = <<h.month, n.id>>
        BY <4>1
      <4>3. p[1] = h.month /\ p[2] = n.id
        BY <4>2
      <4> HIDE DEF h
      <4> QED
        BY <2>2, <4>1, <4>3
    <3> QED
      BY <3>1, <3>2
  <2> QED
    BY <1>1, <2>3 DEF GFiled, G!LastDay
<1>9. state \in {"read", "laid out", "served", "refused"}
  OBVIOUS
<1> HIDE DEF new, state, served, yes, truth, h
<1> QED
  BY <1>1, <1>6, <1>7, <1>8, <1>9, ReturnsOthers

(* Every step of the desk keeps the invariant.                             *)
LEMMA ReturnsKept ==
  ASSUME GInv, G!Next
  PROVE  GInv'
<1>1. GTyped
  BY DEF GInv
<1>2. ASSUME NEW n \in v2, G!Issue(n) \/ G!Cancel(n)
      PROVE  GInv'
  <2>1. GTyped' /\ UNCHANGED <<v1, pc, hand, v5>> /\ v1 \in Nat
    BY <1>1, <1>2, ReturnsPapers DEF GTyped
  <2> QED
    BY <1>2, <2>1, ReturnsAround
<1>3. ASSUME \/ \E i \in TaxBill : G!Bill(i)
             \/ \E c \in TaxCustomer : G!Register(c)
             \/ G!NextDay
      PROVE  GInv'
  <2>0. v1 \in Nat /\ v3 \subseteq TaxBill /\ v4 \subseteq TaxCustomer
    BY <1>1 DEF GTyped
  <2>1. UNCHANGED <<v2, pc, hand, v5>> /\ v1' \in Nat /\ v1' >= v1
        /\ v3' \subseteq TaxBill /\ v4' \subseteq TaxCustomer
    BY <1>3, <2>0 DEF G!Bill, G!Register, G!NextDay
  <2>2. \A n : GPaper(n)' <=> GPaper(n)
    BY DEF GPaper, GNote
  <2>3. GTyped'
    BY <1>1, <2>1, <2>2 DEF GTyped
  <2> QED
    BY <2>0, <2>1, <2>3, ReturnsAround
<1>4. ASSUME NEW r \in TaxRequest,
             \/ \E what \in G!Report, month \in G!Month : G!Read(r, what, month)
             \/ G!ReadCustomers(r) \/ G!Compare(r)
      PROVE  GInv'
  BY <1>4, ReturnsRead, ReturnsReadCustomers, ReturnsCompare
<1> QED
  BY <1>2, <1>3, <1>4 DEF G!Next

LEMMA ReturnsStay ==
  ASSUME GInv, UNCHANGED <<v1, v2, v3, v4, v5, pc, hand>>
  PROVE  GInv'
<1>1. GTyped /\ v1 \in Nat
  BY DEF GInv, GTyped
<1>2. \A n : GPaper(n)' <=> GPaper(n)
  BY DEF GPaper, GNote
<1>3. GTyped'
  BY <1>1, <1>2 DEF GTyped
<1> QED
  BY <1>1, <1>3, ReturnsAround

-----------------------------------------------------------------------------
(* Steps that leave a desk alone keep its invariant.                       *)

LEMMA NotesStand ==
  ASSUME NInv, UNCHANGED <<v1, v2, v3, v4, pc, hand, marred>>
  PROVE  NInv'
<1>1. /\ v1' = v1 /\ v2' = v2 /\ v3' = v3 /\ v4' = v4 /\ pc' = pc /\ hand' = hand
      /\ marred' = marred
  OBVIOUS
<1>2. N!TypeOK'
  <2>1. N!TypeOK
    BY DEF NInv, NTyped
  <2> QED
    BY <1>1, <2>1, Zenon DEF N!TypeOK
<1>3. (pc \in [Three -> NSteps])'
  <2>1. pc \in [Three -> NSteps]
    BY DEF NInv, NTyped
  <2> QED
    BY <1>1, <2>1, Zenon DEF NSteps
<1>4. \A r \in Three : /\ NCreating(r)' = NCreating(r) /\ NIssuing(r)' = NIssuing(r)
                       /\ NInHand(r)' = NInHand(r) /\ NNumber(r)' = NNumber(r)
  BY <1>1 DEF NCreating, NIssuing, NInHand, NNumber
<1>5. \A r \in Three : NEditing(r)' = NEditing(r) /\ NDeleting(r)' = NDeleting(r)
  BY <1>1, Zenon DEF NEditing, NDeleting
<1>6. N!Busy' = N!Busy /\ N!Active' = N!Active
  BY <1>1 DEF N!Busy, N!Active, N!Having, N!Exists
<1>7. N!Having("issued")' = N!Having("issued")
  BY <1>1 DEF N!Having, N!Exists
<1>8. N!Sum("credit")' = N!Sum("credit") /\ N!Sum("debit")' = N!Sum("debit")
  BY <1>1, <1>7 DEF N!Sum
<1>9. \A n \in Three : N!View(n)' = N!View(n)
  BY <1>1, <1>7 DEF N!View
<1>10. NHeld'
  <2> SUFFICES ASSUME NEW r \in Three
               PROVE  NHolds(r)'
    BY DEF NHeld
  <2>1. NHolds(r)
    BY DEF NInv, NHeld
  <2> QED
    BY <1>1, <1>4, <1>5, <2>1 DEF NHolds
<1>11. NNumbers'
  <2>1. NApart' = NApart
    BY <1>1, <1>4 DEF NApart, NBelow
  <2>2. ("rolled back" \in marred)' = ("rolled back" \in marred)
    BY <1>1, Zenon
  <2> QED
    BY <2>1, <2>2, Zenon DEF NInv, NNumbers
<1>12. NSerial' /\ NNoDraft'
  <2>1. NSerial /\ NNoDraft
    BY DEF NInv
  <2> QED
    BY <1>1, <1>4, <1>5, <1>6, <2>1 DEF NSerial, NNoDraft
<1>13. NFits'
  <2>1. NWithin' = NWithin
    BY <1>1, <1>4, <1>8 DEF NWithin
  <2> QED
    BY <1>1, <2>1, Zenon DEF NInv, NFits
<1>14. NShown'
  <2>1. NShown
    BY DEF NInv
  <2> QED
    BY <1>1, <1>9, <2>1 DEF NShown
<1> QED
  BY <1>2, <1>3, <1>10, <1>11, <1>12, <1>13, <1>14 DEF NInv, NTyped

LEMMA ReceiptsStand ==
  ASSUME ZInv, UNCHANGED <<v1, v2, v3, pc, hand, marred>>
  PROVE  ZInv'
<1>1. /\ v1' = v1 /\ v2' = v2 /\ v3' = v3 /\ pc' = pc /\ hand' = hand /\ marred' = marred
  OBVIOUS
<1>2. ZTyped' /\ ZTrips'
  BY <1>1 DEF ZInv, ZTyped, ZTrips
<1>3. \A r \in Two : /\ ZTaking(r)' = ZTaking(r) /\ ZPrinting(r)' = ZPrinting(r)
                     /\ ZPrinted(r)' = ZPrinted(r) /\ ZWanted(r)' = ZWanted(r)
                     /\ ZTakes(r)' = ZTakes(r) /\ ZCreating(r)' = ZCreating(r)
  BY <1>1 DEF ZTaking, ZPrinting, ZPrinted, ZWanted, ZTakes, ZCreating
<1>4. \A t : ZOld(t)' = ZOld(t) /\ ZCounted(t)' = ZCounted(t)
  BY <1>1 DEF ZOld, ZCounted
<1>5. ZHeld'
  <2> SUFFICES ASSUME NEW r \in Two
               PROVE  ZHolds(r)'
    BY DEF ZHeld
  <2>1. ZHolds(r)
    BY DEF ZInv, ZHeld
  <2>2. \A t : ZKnows(r, t)' = ZKnows(r, t)
    BY <1>1, <1>4 DEF ZKnows
  <2>3. ZPacks(r)' = ZPacks(r)
    BY <1>1, <1>3, <1>4 DEF ZPacks
  <2> QED
    BY <1>1, <1>3, <1>4, <2>1, <2>2, <2>3 DEF ZHolds
<1>6. ZApart' /\ ZPapers'
  BY <1>1, <1>3, <1>4 DEF ZInv, ZApart, ZPapers, Z!PapersBearTheNumber
<1>7. \A t \in ReceiptTrip, n \in Nat : ZClaims(t, n)' = ZClaims(t, n)
  BY <1>1 DEF ZClaims
<1>8. ZBelow' /\ ZUnique'
  <2>1. ZBelow /\ ZUnique
    BY DEF ZInv
  <2> QED
    BY <1>1, <1>4, <1>7, <2>1 DEF ZBelow, ZUnique
<1> QED
  BY <1>2, <1>5, <1>6, <1>8 DEF ZInv
=============================================================================
