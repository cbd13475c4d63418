--------------------------- MODULE WasmPluginsProofs ---------------------------
(* Proofs about the plugins of MCWasmPlugins, each for any number of its requests,
   calls, parts, keys and contexts. *)
EXTENDS MCWasmPlugins, Sequences, FiniteSetsExt, Functions, FiniteSetTheorems, WellFoundedInduction,
        TLAPS

(* Every step is one of each plugin's, or leaves it as it is. *)
LEMMA EachPluginSteps ==
  ASSUME [PluginsNext]_<<active, vars, others>>
  PROVE  /\ [Next]_vars /\ [Postpone!Next]_postponeVars /\ [Auth!Next]_authVars
         /\ [Tick!Next]_tickVars /\ [Body!Next]_bodyVars /\ [Json!Next]_jsonVars
         /\ [Metrics!Next]_metricsVars /\ [Headers!Next]_headersVars
BY DEF PluginsNext, others

-----------------------------------------------------------------------------
(* Sums over finite sets.  FoldFunction is the value for the whole domain of a
   function on its subsets that is defined by recursion; that there is such a
   function, and only one, needs a proof. *)
Defines(g, f, S) ==
  g = [s \in SUBSET S |->
         IF s = {} THEN 0 ELSE LET x == CHOOSE x \in s : TRUE IN f[x] + g[s \ {x}]]

LEMMA SumChosen ==
  \A f, S : SumFunctionOnSet(f, S) = (CHOOSE g : Defines(g, f, S))[S]
BY Zenon DEF SumFunctionOnSet, FoldFunctionOnSet, MapThenFoldSet, Defines

(* Every collection of finite sets has a member that includes no other. *)
LEMMA SmallestSet ==
  ASSUME NEW S, IsFiniteSet(S), NEW T \in SUBSET (SUBSET S), T # {}
  PROVE  \E A \in T : \A B \in T : B \subseteq A => B = A
<1>1. T \subseteq FiniteSubsetsOf(S)
  BY FS_Subset DEF FiniteSubsetsOf
<1>2. IsWellFoundedOn(StrictSubsetOrdering(S), FiniteSubsetsOf(S))
  BY FS_StrictSubsetOrderingWellFounded
<1>3. PICK A \in T : \A B \in T : ~ (<<B, A>> \in StrictSubsetOrdering(S))
  BY <1>1, <1>2, WFMin
<1>4. ASSUME NEW B \in T, B \subseteq A, B # A PROVE FALSE
  BY <1>3, <1>4 DEF StrictSubsetOrdering
<1> QED BY <1>4

LEMMA DefinedOnce ==
  ASSUME NEW f, NEW R, NEW S, IsFiniteSet(R), R \subseteq S,
         NEW g, Defines(g, f, R), NEW h, Defines(h, f, S)
  PROVE  \A s \in SUBSET R : g[s] = h[s]
<1> DEFINE T == {s \in SUBSET R : g[s] # h[s]}
<1> SUFFICES ASSUME T # {} PROVE FALSE
  OBVIOUS
<1>1. PICK s \in T : \A r \in T : r \subseteq s => r = s
  <2>1. T \in SUBSET (SUBSET R)
    OBVIOUS
  <2> HIDE DEF T
  <2> QED BY <2>1, SmallestSet
<1>2. s \in SUBSET R /\ s \in SUBSET S /\ g[s] # h[s]
  OBVIOUS
<1>3. CASE s = {}
  BY <1>2, <1>3 DEF Defines
<1>4. CASE s # {}
  <2> DEFINE x == CHOOSE x \in s : TRUE
  <2>1. x \in s
    BY <1>4
  <2>2. g[s] = f[x] + g[s \ {x}]
    BY <1>2, <1>4 DEF Defines
  <2>3. h[s] = f[x] + h[s \ {x}]
    BY <1>2, <1>4 DEF Defines
  <2> HIDE DEF x
  <2>4. s \ {x} \notin T
    <3> HIDE DEF T
    <3> QED BY <2>1, <1>1
  <2>5. g[s \ {x}] = h[s \ {x}]
    BY <1>2, <2>4
  <2> QED BY <1>2, <2>2, <2>3, <2>5
<1> QED BY <1>3, <1>4

LEMMA DefinedPart ==
  ASSUME NEW f, NEW S, NEW R \in SUBSET S, NEW g, Defines(g, f, S)
  PROVE  Defines([s \in SUBSET R |-> g[s]], f, R)
<1> DEFINE h == [s \in SUBSET R |-> g[s]]
<1>1. ASSUME NEW s \in SUBSET R
      PROVE  h[s] = IF s = {} THEN 0 ELSE f[CHOOSE x \in s : TRUE] + h[s \ {CHOOSE x \in s : TRUE}]
  <2> DEFINE x == CHOOSE x \in s : TRUE
  <2>1. s \ {x} \in SUBSET R /\ s \in SUBSET S
    OBVIOUS
  <2>2. g[s] = IF s = {} THEN 0 ELSE f[x] + g[s \ {x}]
    BY <2>1 DEF Defines
  <2> QED BY <2>1, <2>2
<1> QED BY <1>1 DEF Defines

LEMMA SumDefined ==
  ASSUME NEW f, NEW S, IsFiniteSet(S)
  PROVE  \E g : Defines(g, f, S)
<1> DEFINE T == {s \in SUBSET S : ~ \E g : Defines(g, f, s)}
<1> SUFFICES ASSUME T # {} PROVE FALSE
  OBVIOUS
<1>1. PICK t \in T : \A r \in T : r \subseteq t => r = t
  <2>1. T \in SUBSET (SUBSET S)
    OBVIOUS
  <2> HIDE DEF T
  <2> QED BY <2>1, SmallestSet
<1> DEFINE C(r) == CHOOSE g : Defines(g, f, r)
           Elem(s) == CHOOSE x \in s : TRUE
           G == [s \in SUBSET t |-> IF s = {} THEN 0
                                    ELSE f[Elem(s)] + C(s \ {Elem(s)})[s \ {Elem(s)}]]
<1>2. \A s \in SUBSET t : s # {} => Elem(s) \in s
  OBVIOUS
<1>3. \A r \in SUBSET t : r # t => Defines(C(r), f, r)
  <2>1. SUFFICES ASSUME NEW r \in SUBSET t, r # t PROVE Defines(C(r), f, r)
    OBVIOUS
  <2>2. \E g : Defines(g, f, r)
    BY <1>1, <2>1
  <2> QED BY <2>2, Zenon
<1> HIDE DEF C, Elem
<1>4. ASSUME NEW r \in SUBSET t, r # t PROVE G[r] = C(r)[r]
  <2>1. Defines(C(r), f, r)
    BY <1>3, <1>4
  <2>2. CASE r = {}
    BY <2>1, <2>2 DEF Defines
  <2>3. CASE r # {}
    <3> DEFINE q == r \ {Elem(r)}
    <3>1. Elem(r) \in r /\ q \in SUBSET t /\ q # t /\ q \in SUBSET r
      BY <1>2, <1>4, <2>3
    <3>2. C(r)[r] = f[Elem(r)] + C(r)[q]
      BY <2>1, <2>3 DEF Defines, Elem
    <3>3. Defines(C(q), f, q)
      BY <1>3, <3>1
    <3>4. IsFiniteSet(q)
      BY <3>1, FS_Subset
    <3>5. C(q)[q] = C(r)[q]
      BY <2>1, <3>1, <3>3, <3>4, DefinedOnce, SMTT(30)
    <3> QED BY <2>3, <3>2, <3>5
  <2> QED BY <2>2, <2>3
<1>5. ASSUME NEW s \in SUBSET t
      PROVE  G[s] = IF s = {} THEN 0 ELSE f[Elem(s)] + G[s \ {Elem(s)}]
  <2>1. CASE s = {}
    BY <2>1
  <2>2. CASE s # {}
    <3>1. s \ {Elem(s)} \in SUBSET t /\ s \ {Elem(s)} # t
      BY <1>2, <2>2
    <3> QED BY <1>4, <2>2, <3>1
  <2> QED BY <2>1, <2>2
<1>6. Defines(G, f, t)
  <2>1. G = [s \in SUBSET t |-> IF s = {} THEN 0 ELSE f[Elem(s)] + G[s \ {Elem(s)}]]
    BY <1>5
  <2> HIDE DEF G
  <2> QED BY <2>1 DEF Defines, Elem
<1> QED BY <1>1, <1>6

LEMMA SumEmpty == \A f : SumFunctionOnSet(f, {}) = 0
<1> SUFFICES ASSUME NEW f PROVE SumFunctionOnSet(f, {}) = 0
  OBVIOUS
<1>1. PICK g : Defines(g, f, {})
  BY SumDefined, FS_EmptySet
<1>2. Defines(CHOOSE h : Defines(h, f, {}), f, {})
  BY <1>1, Zenon
<1> QED BY <1>2, SumChosen DEF Defines

(* One element of a nonempty set, then the rest; which element, does not matter. *)
LEMMA SumChosenElement ==
  ASSUME NEW f, NEW S, IsFiniteSet(S), S # {}
  PROVE  \E x \in S : SumFunctionOnSet(f, S) = f[x] + SumFunctionOnSet(f, S \ {x})
<1> DEFINE C(r) == CHOOSE g : Defines(g, f, r)
           x == CHOOSE x \in S : TRUE
           R == S \ {x}
<1>1. x \in S /\ IsFiniteSet(R) /\ R \in SUBSET R /\ R \subseteq S
  BY FS_Subset
<1>2. Defines(C(S), f, S) /\ Defines(C(R), f, R)
  <2>1. (\E g : Defines(g, f, S)) /\ (\E g : Defines(g, f, R))
    BY <1>1, SumDefined
  <2> QED BY <2>1, Zenon
<1>3. SumFunctionOnSet(f, S) = C(S)[S] /\ SumFunctionOnSet(f, R) = C(R)[R]
  BY SumChosen
<1> HIDE DEF C
<1>4. C(S)[S] = f[x] + C(S)[R]
  BY <1>2 DEF Defines
<1>5. C(R)[R] = C(S)[R]
  BY <1>1, <1>2, DefinedOnce
<1> QED BY <1>1, <1>3, <1>4, <1>5

LEMMA SumType ==
  ASSUME NEW S, IsFiniteSet(S), NEW f, \A x \in S : f[x] \in Nat
  PROVE  SumFunctionOnSet(f, S) \in Nat
<1> DEFINE T == {s \in SUBSET S : SumFunctionOnSet(f, s) \notin Nat}
<1> SUFFICES ASSUME T # {} PROVE FALSE
  OBVIOUS
<1>1. PICK s \in T : \A r \in T : r \subseteq s => r = s
  <2>1. T \in SUBSET (SUBSET S)
    OBVIOUS
  <2> HIDE DEF T
  <2> QED BY <2>1, SmallestSet
<1>2. s # {} /\ s \in SUBSET S /\ IsFiniteSet(s) /\ SumFunctionOnSet(f, s) \notin Nat
  <2>1. s \in SUBSET S /\ SumFunctionOnSet(f, s) \notin Nat /\ 0 \in Nat
    OBVIOUS
  <2>2. SumFunctionOnSet(f, {}) = 0
    BY SumEmpty
  <2> QED BY <2>1, <2>2, FS_Subset, Zenon
<1>3. PICK x \in s : SumFunctionOnSet(f, s) = f[x] + SumFunctionOnSet(f, s \ {x})
  BY <1>2, SumChosenElement
<1>4. SumFunctionOnSet(f, s \ {x}) \in Nat
  BY <1>1, <1>2
<1> QED BY <1>2, <1>3, <1>4

LEMMA SumElement ==
  ASSUME NEW S, IsFiniteSet(S), NEW f, \A x \in S : f[x] \in Nat, NEW y \in S
  PROVE  SumFunctionOnSet(f, S) = f[y] + SumFunctionOnSet(f, S \ {y})
<1> DEFINE T == {s \in SUBSET S : \E z \in s :
                   SumFunctionOnSet(f, s) # f[z] + SumFunctionOnSet(f, s \ {z})}
<1> SUFFICES ASSUME T # {} PROVE FALSE
  OBVIOUS
<1>1. PICK s \in T : \A r \in T : r \subseteq s => r = s
  <2>1. T \in SUBSET (SUBSET S)
    OBVIOUS
  <2> HIDE DEF T
  <2> QED BY <2>1, SmallestSet
<1>2. PICK z \in s : SumFunctionOnSet(f, s) # f[z] + SumFunctionOnSet(f, s \ {z})
  OBVIOUS
<1>3. s \in SUBSET S /\ IsFiniteSet(s)
  BY FS_Subset
<1>4. PICK x \in s : SumFunctionOnSet(f, s) = f[x] + SumFunctionOnSet(f, s \ {x})
  BY <1>2, <1>3, SumChosenElement
<1>5. x # z /\ s \ {x} \notin T /\ s \ {z} \notin T
  <2>1. s \ {x} # s /\ s \ {z} # s /\ x # z
    BY <1>2, <1>4
  <2> HIDE DEF T
  <2> QED BY <1>1, <2>1
<1>6. /\ SumFunctionOnSet(f, s \ {x}) = f[z] + SumFunctionOnSet(f, (s \ {x}) \ {z})
      /\ SumFunctionOnSet(f, s \ {z}) = f[x] + SumFunctionOnSet(f, (s \ {z}) \ {x})
  BY <1>2, <1>3, <1>5
<1>7. (s \ {x}) \ {z} = (s \ {z}) \ {x} /\ IsFiniteSet((s \ {x}) \ {z})
  BY <1>3, FS_Subset
<1>8. SumFunctionOnSet(f, (s \ {x}) \ {z}) \in Nat /\ f[x] \in Nat /\ f[z] \in Nat
  BY <1>3, <1>7, SumType
<1> QED BY <1>2, <1>4, <1>6, <1>7, <1>8

LEMMA SumSame ==
  ASSUME NEW S, IsFiniteSet(S), NEW f, NEW g, \A x \in S : f[x] = g[x] /\ f[x] \in Nat
  PROVE  SumFunctionOnSet(f, S) = SumFunctionOnSet(g, S)
<1> DEFINE T == {s \in SUBSET S : SumFunctionOnSet(f, s) # SumFunctionOnSet(g, s)}
<1> SUFFICES ASSUME T # {} PROVE FALSE
  OBVIOUS
<1>1. PICK s \in T : \A r \in T : r \subseteq s => r = s
  <2>1. T \in SUBSET (SUBSET S)
    OBVIOUS
  <2> HIDE DEF T
  <2> QED BY <2>1, SmallestSet
<1>2. s # {} /\ s \in SUBSET S /\ IsFiniteSet(s)
      /\ SumFunctionOnSet(f, s) # SumFunctionOnSet(g, s)
  <2>1. s \in SUBSET S /\ SumFunctionOnSet(f, s) # SumFunctionOnSet(g, s)
    OBVIOUS
  <2>2. SumFunctionOnSet(f, {}) = 0 /\ SumFunctionOnSet(g, {}) = 0
    BY SumEmpty
  <2> QED BY <2>1, <2>2, FS_Subset, Zenon
<1>3. PICK x \in s : TRUE
  BY <1>2
<1>4. /\ SumFunctionOnSet(f, s) = f[x] + SumFunctionOnSet(f, s \ {x})
      /\ SumFunctionOnSet(g, s) = g[x] + SumFunctionOnSet(g, s \ {x})
  BY <1>2, <1>3, SumElement
<1>5. SumFunctionOnSet(f, s \ {x}) = SumFunctionOnSet(g, s \ {x})
  BY <1>1, <1>2, <1>3
<1> QED BY <1>2, <1>3, <1>4, <1>5

LEMMA SumZero ==
  ASSUME NEW S, IsFiniteSet(S), NEW f, \A x \in S : f[x] = 0
  PROVE  SumFunctionOnSet(f, S) = 0
<1> DEFINE T == {s \in SUBSET S : SumFunctionOnSet(f, s) # 0}
<1> SUFFICES ASSUME T # {} PROVE FALSE
  OBVIOUS
<1>1. PICK s \in T : \A r \in T : r \subseteq s => r = s
  <2>1. T \in SUBSET (SUBSET S)
    OBVIOUS
  <2> HIDE DEF T
  <2> QED BY <2>1, SmallestSet
<1>2. s \in SUBSET S /\ s # {} /\ IsFiniteSet(s) /\ SumFunctionOnSet(f, s) # 0
  BY SumEmpty, FS_Subset
<1>3. PICK x \in s : SumFunctionOnSet(f, s) = f[x] + SumFunctionOnSet(f, s \ {x})
  BY <1>2, SumChosenElement
<1>4. SumFunctionOnSet(f, s \ {x}) = 0
  BY <1>1, <1>2
<1> QED BY <1>2, <1>3, <1>4

LEMMA SumAtLeast ==
  ASSUME NEW S, IsFiniteSet(S), NEW f, \A x \in S : f[x] \in Nat, NEW y \in S
  PROVE  f[y] <= SumFunctionOnSet(f, S)
<1>1. SumFunctionOnSet(f, S) = f[y] + SumFunctionOnSet(f, S \ {y})
  BY SumElement
<1>2. SumFunctionOnSet(f, S \ {y}) \in Nat
  BY FS_Subset, SumType
<1> QED BY <1>1, <1>2

LEMMA SumPlus ==
  ASSUME NEW S, IsFiniteSet(S), NEW f, NEW g, NEW h,
         \A x \in S : f[x] \in Nat /\ g[x] \in Nat /\ h[x] = f[x] + g[x]
  PROVE  SumFunctionOnSet(h, S) = SumFunctionOnSet(f, S) + SumFunctionOnSet(g, S)
<1> DEFINE T == {s \in SUBSET S : SumFunctionOnSet(h, s)
                                     # SumFunctionOnSet(f, s) + SumFunctionOnSet(g, s)}
<1> SUFFICES ASSUME T # {} PROVE FALSE
  OBVIOUS
<1>1. PICK s \in T : \A r \in T : r \subseteq s => r = s
  <2>1. T \in SUBSET (SUBSET S)
    OBVIOUS
  <2> HIDE DEF T
  <2> QED BY <2>1, SmallestSet
<1>2. /\ s \in SUBSET S /\ IsFiniteSet(s)
      /\ SumFunctionOnSet(h, s) # SumFunctionOnSet(f, s) + SumFunctionOnSet(g, s)
  BY FS_Subset
<1>3. s # {}
  <2>1. /\ SumFunctionOnSet(h, {}) = 0 /\ SumFunctionOnSet(f, {}) = 0
        /\ SumFunctionOnSet(g, {}) = 0
    BY SumEmpty
  <2>2. SumFunctionOnSet(h, {}) = SumFunctionOnSet(f, {}) + SumFunctionOnSet(g, {})
    BY <2>1
  <2> QED BY <1>2, <2>2, Zenon
<1>4. PICK x \in s : TRUE
  BY <1>3
<1> DEFINE r == s \ {x}
<1>5. r \in SUBSET S /\ IsFiniteSet(r) /\ r \notin T
  <2>1. r \in SUBSET S /\ r # s /\ r \subseteq s
    BY <1>2, <1>4
  <2> HIDE DEF T, r
  <2> QED BY <1>1, <1>2, <2>1, FS_Subset
<1>6. \A y \in s : h[y] \in Nat /\ f[y] \in Nat /\ g[y] \in Nat
  BY <1>2
<1>7. /\ SumFunctionOnSet(h, s) = h[x] + SumFunctionOnSet(h, r)
      /\ SumFunctionOnSet(f, s) = f[x] + SumFunctionOnSet(f, r)
      /\ SumFunctionOnSet(g, s) = g[x] + SumFunctionOnSet(g, r)
  BY <1>2, <1>4, <1>6, SumElement
<1>8. SumFunctionOnSet(f, r) \in Nat /\ SumFunctionOnSet(g, r) \in Nat
  BY <1>5, <1>6, SumType
<1>9. SumFunctionOnSet(h, r) = SumFunctionOnSet(f, r) + SumFunctionOnSet(g, r)
  BY <1>5
<1>10. h[x] = f[x] + g[x] /\ f[x] \in Nat /\ g[x] \in Nat
  BY <1>2, <1>4
<1> HIDE DEF r
<1> QED BY <1>2, <1>7, <1>8, <1>9, <1>10

(* Sets without a common element are, together, as large as their union. *)
LEMMA SumOfDisjoint ==
  ASSUME NEW S, IsFiniteSet(S), NEW E, IsFiniteSet(E), NEW X,
         \A x \in S : X[x] \subseteq E,
         \A x, y \in S : x # y => X[x] \cap X[y] = {}
  PROVE  SumFunctionOnSet([x \in S |-> Cardinality(X[x])], S) <= Cardinality(E)
<1> DEFINE f == [x \in S |-> Cardinality(X[x])]
           U(s) == {e \in E : \E x \in s : e \in X[x]}
           T == {s \in SUBSET S : SumFunctionOnSet(f, s) # Cardinality(U(s))}
<1>1. \A x \in S : f[x] \in Nat /\ f[x] = Cardinality(X[x]) /\ IsFiniteSet(X[x])
  BY FS_Subset, FS_CardinalityType
<1>2. \A s : U(s) \subseteq E /\ IsFiniteSet(U(s)) /\ Cardinality(U(s)) \in Nat
             /\ Cardinality(U(s)) <= Cardinality(E)
  BY FS_Subset, FS_CardinalityType
<1> HIDE DEF f
<1>3. ASSUME T # {} PROVE FALSE
  <2>1. PICK s \in T : \A r \in T : r \subseteq s => r = s
    <3>1. T \in SUBSET (SUBSET S)
      OBVIOUS
    <3> HIDE DEF T
    <3> QED BY <1>3, <3>1, SmallestSet
  <2>2. /\ s \in SUBSET S /\ IsFiniteSet(s)
        /\ SumFunctionOnSet(f, s) # Cardinality(U(s))
    BY FS_Subset
  <2>3. s # {}
    <3>1. U({}) = {} /\ Cardinality({}) = 0
      BY FS_EmptySet
    <3>2. SumFunctionOnSet(f, {}) = 0
      BY SumEmpty
    <3> QED BY <2>2, <3>1, <3>2
  <2>4. PICK x \in s : TRUE
    BY <2>3
  <2> DEFINE r == s \ {x}
  <2>5. r \in SUBSET S /\ r \notin T
    <3>1. r \in SUBSET S /\ r # s /\ r \subseteq s
      BY <2>2, <2>4
    <3> HIDE DEF T, r
    <3> QED BY <2>1, <3>1
  <2>6. SumFunctionOnSet(f, s) = f[x] + SumFunctionOnSet(f, r)
    BY <1>1, <2>2, <2>4, SumElement
  <2>7. U(s) = X[x] \cup U(r) /\ X[x] \cap U(r) = {}
    BY <2>2, <2>4
  <2>8. Cardinality(U(s)) = Cardinality(X[x]) + Cardinality(U(r))
    <3>1. IsFiniteSet(X[x]) /\ IsFiniteSet(U(r)) /\ f[x] = Cardinality(X[x]) /\ f[x] \in Nat
          /\ Cardinality(U(r)) \in Nat /\ Cardinality(X[x] \cap U(r)) = 0
      BY <1>1, <1>2, <2>2, <2>4, <2>7, FS_EmptySet
    <3> HIDE DEF U, r
    <3>2. Cardinality(X[x] \cup U(r))
            = Cardinality(X[x]) + Cardinality(U(r)) - Cardinality(X[x] \cap U(r))
      BY <3>1, FS_Union
    <3> QED BY <2>7, <3>1, <3>2
  <2>9. SumFunctionOnSet(f, r) = Cardinality(U(r))
    BY <2>5
  <2>10. f[x] = Cardinality(X[x])
    BY <1>1, <2>2, <2>4
  <2> HIDE DEF U, r
  <2> QED BY <2>2, <2>6, <2>8, <2>9, <2>10
<1>4. S \in SUBSET S /\ S \notin T
  BY <1>3
<1>5. SumFunctionOnSet(f, S) = Cardinality(U(S)) /\ Cardinality(U(S)) <= Cardinality(E)
  BY <1>2, <1>4
<1> QED BY <1>5 DEF f

(* Changing one value changes the sum by as much. *)
LEMMA SumChange ==
  ASSUME NEW S, IsFiniteSet(S), NEW f, NEW g, NEW y \in S, 
         \A x \in S : f[x] \in Nat /\ g[x] \in Nat, \A x \in S \ {y} : f[x] = g[x]
  PROVE  SumFunctionOnSet(g, S) + f[y] = SumFunctionOnSet(f, S) + g[y]
<1>1. /\ SumFunctionOnSet(f, S) = f[y] + SumFunctionOnSet(f, S \ {y})
      /\ SumFunctionOnSet(g, S) = g[y] + SumFunctionOnSet(g, S \ {y})
  BY SumElement
<1>2. IsFiniteSet(S \ {y})
  BY FS_Subset
<1>3. /\ SumFunctionOnSet(f, S \ {y}) = SumFunctionOnSet(g, S \ {y})
      /\ SumFunctionOnSet(f, S \ {y}) \in Nat
  BY <1>2, SumSame, SumType
<1> QED BY <1>1, <1>3

-----------------------------------------------------------------------------
(* http_auth_random.  HeldByItsCall is inductive once a call that is out is known not
   to have been ignored. *)
OneCall == authCalls \cap ignored = {}
AuthInv == Auth!TypeOK /\ Auth!HeldByItsCall /\ OneCall

LEMMA AuthInit == Auth!Init => AuthInv
BY DEF Auth!Init, AuthInv, Auth!TypeOK, Auth!HeldByItsCall, OneCall, Auth!Answers

LEMMA AuthStep == AuthInv /\ [Auth!Next]_authVars => AuthInv'
<1> SUFFICES ASSUME AuthInv, [Auth!Next]_authVars PROVE AuthInv'
  OBVIOUS
<1> USE DEF AuthInv, Auth!TypeOK, Auth!HeldByItsCall, OneCall
<1>1. ASSUME NEW s \in Authorized, Auth!Undecided(s) PROVE AuthInv'
  BY <1>1 DEF Auth!Undecided
<1>2. ASSUME NEW s \in Authorized, Auth!OnHttpRequestHeaders(s) PROVE AuthInv'
  BY <1>2 DEF Auth!OnHttpRequestHeaders
<1>3. ASSUME NEW s \in Authorized, Auth!StreamGone(s) PROVE AuthInv'
  BY <1>3 DEF Auth!StreamGone
<1>4. ASSUME NEW s \in Authorized, NEW a \in Auth!Answers, Auth!HttpCallResponseCallback(s, a)
      PROVE  AuthInv'
  <2> USE <1>4 DEF Auth!HttpCallResponseCallback, Auth!Verdict, Auth!Answers
  <2>1. CASE authFate[s] = "gone"
    BY <2>1
  <2>2. CASE authFate[s] # "gone" /\ a = "noHeaders"
    BY <2>2
  <2>3. CASE authFate[s] # "gone" /\ a # "noHeaders"
    BY <2>3
  <2> QED BY <2>1, <2>2, <2>3
<1>5. CASE UNCHANGED authVars
  BY <1>5 DEF authVars
<1> QED BY <1>1, <1>2, <1>3, <1>4, <1>5 DEF Auth!Next, Auth!Reply

LEMMA AuthInvariant == PluginsSpec => []AuthInv
<1>1. PluginsInit => AuthInv
  BY AuthInit DEF PluginsInit
<1>2. AuthInv /\ [PluginsNext]_<<active, vars, others>> => AuthInv'
  BY AuthStep, EachPluginSteps
<1> QED BY <1>1, <1>2, PTL DEF PluginsSpec

(* http_auth_random/main.go:70-119: for any number of requests, each is held up as long
   as its own call is out, for ever if that was answered without headers, and is
   refused exactly if the answer has an odd hash. *)
THEOREM HeldByOwnCall == PluginsSpec => []HeldByItsCall
<1>1. AuthInv => HeldByItsCall
  BY DEF AuthInv, HeldByItsCall
<1> QED BY <1>1, AuthInvariant, PTL

LEMMA AuthPausedStep ==
  AuthInv /\ [Auth!Next]_authVars => [Auth!Paused!Next]_<<Auth!Shown, ignored>>
<1> SUFFICES ASSUME AuthInv, [Auth!Next]_authVars
             PROVE  Auth!Paused!Next \/ UNCHANGED <<Auth!Shown, ignored>>
  OBVIOUS
<1> USE DEF AuthInv, Auth!TypeOK, Auth!Shown, Auth!Paused!Become
<1>1. ASSUME NEW s \in Authorized, Auth!Undecided(s) PROVE Auth!Paused!Pass(s)
  BY <1>1 DEF Auth!Undecided, Auth!Paused!Pass
<1>2. ASSUME NEW s \in Authorized, Auth!OnHttpRequestHeaders(s) PROVE Auth!Paused!Pause(s)
  BY <1>2 DEF Auth!OnHttpRequestHeaders, Auth!Paused!Pause
<1>3. ASSUME NEW s \in Authorized, Auth!StreamGone(s)
      PROVE  Auth!Paused!Leave(s) \/ UNCHANGED <<Auth!Shown, ignored>>
  BY <1>3 DEF Auth!StreamGone, Auth!Paused!Leave
<1>4. ASSUME NEW s \in Authorized, NEW a \in Auth!Answers, Auth!HttpCallResponseCallback(s, a)
      PROVE  \/ Auth!Paused!Continue \/ Auth!Paused!Lose \/ Auth!Paused!Leave(s)
             \/ UNCHANGED <<Auth!Shown, ignored>>
  <2> USE <1>4 DEF Auth!HttpCallResponseCallback
  <2>1. CASE authFate[s] = "gone"
    BY <2>1
  <2>2. CASE authFate[s] # "gone" /\ a = "noHeaders"
    <3>1. Auth!Paused!Lose
      BY <2>2 DEF Auth!Paused!Lose
    <3> QED BY <3>1
  <2>3. CASE authFate[s] # "gone" /\ a # "noHeaders"
    <3>1. authFate[s] = "paused" /\ s \notin ignored
      BY <2>3 DEF Auth!HeldByItsCall, OneCall
    <3>2. CASE a = "odd"
      <4>1. Auth!Paused!Leave(s)
        BY <2>3, <3>1, <3>2 DEF Auth!Paused!Leave, Auth!Verdict
      <4> QED BY <4>1
    <3>3. CASE a # "odd"
      <4>1. Auth!Shown' = [r \in Authorized |-> IF r \in {s} THEN "continued" ELSE Auth!Shown[r]]
        BY <2>3, <3>1, <3>3 DEF Auth!Verdict
      <4>2. {s} \in SUBSET {r \in Authorized \ ignored : Auth!Shown[r] = "paused"}
        BY <3>1
      <4>3. Auth!Paused!Continue
        BY <2>3, <4>1, <4>2 DEF Auth!Paused!Continue
      <4> QED BY <4>3
    <3> QED BY <3>2, <3>3
  <2> QED BY <2>1, <2>2, <2>3
<1>5. CASE UNCHANGED authVars
  BY <1>5 DEF authVars
<1> QED BY <1>1, <1>2, <1>3, <1>4, <1>5 DEF Auth!Next, Auth!Reply, Auth!Paused!Next

(* http_auth_random/main.go:60-119: every step of the plugin is a step of PausedStreams
   or none: no request goes on twice, after it has gone, or once it is lost. *)
THEOREM AuthPausedImplemented ==
  PluginsSpec => Auth!Paused!Init /\ [][Auth!Paused!Next]_<<Auth!Shown, ignored>>
<1>1. PluginsInit => Auth!Paused!Init
  BY DEF PluginsInit, Auth!Init, Auth!Paused!Init, Auth!Shown
<1>2. AuthInv /\ [PluginsNext]_<<active, vars, others>>
        => [Auth!Paused!Next]_<<Auth!Shown, ignored>>
  BY AuthPausedStep, EachPluginSteps
<1> QED BY <1>1, <1>2, AuthInvariant, PTL DEF PluginsSpec

-----------------------------------------------------------------------------
(* dispatch_call_on_tick, for any number of contexts, any timeout and any number of
   calls. *)
LEMMA TickCardinality == \A S : Tick!Cardinality(S) = Cardinality(S)
BY Zenon DEF Tick!Cardinality, Cardinality

TickInv == Tick!TypeOK /\ Tick!CountsOwnCalls

LEMMA CallsFinite ==
  ASSUME Tick!TypeOK, NEW p \in Plugin
  PROVE  IsFiniteSet(calls[p]) /\ Cardinality(calls[p]) \in Nat
<1>1. IsFiniteSet(0..Timeout)
  BY BoundAssumption, FS_Interval
<1>2. calls[p] \in SUBSET (0..Timeout)
  BY DEF Tick!TypeOK
<1> QED BY <1>1, <1>2, FS_Subset, FS_CardinalityType

(* A tick makes every call older, and no two of them one. *)
LEMMA OlderCalls ==
  ASSUME NEW S \in SUBSET Nat, IsFiniteSet(S)
  PROVE  /\ IsFiniteSet({a + 1 : a \in S})
         /\ Cardinality({a + 1 : a \in S}) = Cardinality(S)
         /\ 0 \notin {a + 1 : a \in S}
<1> DEFINE T == {a + 1 : a \in S}
           f == [a \in S |-> a + 1]
<1>1. f \in Bijection(S, T)
  <2>1. f \in [S -> T]
    OBVIOUS
  <2>2. \A a, b \in S : f[a] = f[b] => a = b
    OBVIOUS
  <2>3. \A t \in T : \E a \in S : f[a] = t
    OBVIOUS
  <2> HIDE DEF f, T
  <2> QED BY <2>1, <2>2, <2>3 DEF Bijection, Injection, Surjection, IsInjective
<1>2. ExistsBijection(S, T)
  BY <1>1 DEF ExistsBijection
<1>3. 0 \notin T
  OBVIOUS
<1> QED BY <1>2, <1>3, FS_Bijection

LEMMA TickStep ==
  ASSUME TickInv, NEW p \in Plugin, NEW ok \in BOOLEAN, Tick!OnTick(p, ok)
  PROVE  TickInv'
<1> DEFINE S == calls[p]
           T == {a + 1 : a \in S}
<1> USE BoundAssumption DEF TickInv, Tick!TypeOK
<1>1. IsFiniteSet(S) /\ Cardinality(S) \in Nat
  BY CallsFinite
<1>2. IsFiniteSet(T) /\ Cardinality(T) = Cardinality(S) /\ 0 \notin T
  BY <1>1, OlderCalls
<1>3. T \cup (IF ok THEN {0} ELSE {}) \in SUBSET (0..Timeout)
  BY DEF Tick!OnTick
<1>4. Cardinality(T \cup (IF ok THEN {0} ELSE {})) = Cardinality(S) + Tick!Dispatches(ok)
  <2>1. CASE ok
    BY <1>1, <1>2, <2>1, FS_AddElement DEF Tick!Dispatches
  <2>2. CASE ~ok
    BY <1>1, <1>2, <2>2 DEF Tick!Dispatches
  <2> QED BY <2>1, <2>2
<1>5. Tick!TypeOK'
  BY <1>3 DEF Tick!OnTick, Tick!Dispatches
<1>6. ASSUME NEW q \in Plugin PROVE (cnt[q] + Cardinality(calls[q]) = dispatched[q])'
  <2>1. CASE q = p
    <3>1. /\ calls'[p] = T \cup (IF ok THEN {0} ELSE {})
          /\ dispatched'[p] = dispatched[p] + Tick!Dispatches(ok) /\ cnt' = cnt
      BY DEF Tick!OnTick
    <3>2. Tick!Dispatches(ok) \in Nat /\ cnt[p] \in Nat
      BY DEF Tick!Dispatches
    <3>3. cnt[p] + Cardinality(S) = dispatched[p]
      BY TickCardinality DEF Tick!CountsOwnCalls
    <3> QED BY <1>1, <1>4, <2>1, <3>1, <3>2, <3>3
  <2>2. CASE q # p
    BY <2>2, TickCardinality DEF Tick!OnTick, Tick!CountsOwnCalls
  <2> QED BY <2>1, <2>2
<1> QED BY <1>5, <1>6, TickCardinality DEF Tick!CountsOwnCalls

LEMMA AnswerStep == ASSUME TickInv, NEW p \in Plugin, Tick!Answer(p) PROVE TickInv'
<1>1. PICK headers, trailers \in {"ok", "notFound", "error"} : Tick!CallBack(p, headers, trailers)
  BY DEF Tick!Answer
<1>2. PICK a \in calls[p] : calls' = [calls EXCEPT ![p] = calls[p] \ {a}]
  BY <1>1 DEF Tick!CallBack
<1> USE BoundAssumption DEF TickInv, Tick!TypeOK
<1>3. IsFiniteSet(calls[p]) /\ Cardinality(calls[p]) \in Nat
  BY CallsFinite
<1>4. Cardinality(calls[p] \ {a}) = Cardinality(calls[p]) - 1
  BY <1>3, FS_RemoveElement
<1>5. cnt' = [cnt EXCEPT ![p] = cnt[p] + 1] /\ UNCHANGED <<tickPlugin, started, dispatched>>
  BY <1>1 DEF Tick!CallBack, Tick!Counts
<1>6. tickVM' \in {"up", "stopped"}
  BY <1>1 DEF Tick!CallBack
<1>7. Tick!TypeOK'
  BY <1>2, <1>5, <1>6
<1>8. ASSUME NEW q \in Plugin PROVE (cnt[q] + Cardinality(calls[q]) = dispatched[q])'
  BY <1>2, <1>3, <1>4, <1>5, TickCardinality DEF Tick!CountsOwnCalls
<1> QED BY <1>7, <1>8, TickCardinality DEF Tick!CountsOwnCalls

LEMMA TicksStep == ASSUME TickInv, [Tick!Next]_tickVars PROVE TickInv'
<1>1. ASSUME NEW p \in Plugin, Tick!OnPluginStart(p) PROVE TickInv'
  BY <1>1 DEF Tick!OnPluginStart, Tick!Refused, TickInv, Tick!TypeOK, Tick!CountsOwnCalls
<1>2. CASE UNCHANGED tickVars
  BY <1>2 DEF tickVars, TickInv, Tick!TypeOK, Tick!CountsOwnCalls
<1> QED BY <1>1, <1>2, TickStep, AnswerStep DEF Tick!Next

LEMMA TicksInit == Tick!Init => TickInv
BY BoundAssumption, FS_EmptySet, TickCardinality DEF Tick!Init, TickInv,
                                                        Tick!TypeOK, Tick!CountsOwnCalls

LEMMA TickInvariant == PluginsSpec => []TickInv
<1>1. PluginsInit => TickInv
  BY TicksInit DEF PluginsInit
<1>2. TickInv /\ [PluginsNext]_<<active, vars, others>> => TickInv'
  BY TicksStep, EachPluginSteps
<1> QED BY <1>1, <1>2, PTL DEF PluginsSpec

(* dispatch_call_on_tick/main.go:57-94: for any number of contexts and calls and any
   timeout, each counter has counted the answered calls of its own context, whatever
   the order of ticks, answers and timeouts. *)
THEOREM OwnCallsCounted == PluginsSpec => []CountsOwnCalls
<1>1. TickInv => CountsOwnCalls
  BY DEF TickInv, CountsOwnCalls
<1> QED BY <1>1, TickInvariant, PTL

-----------------------------------------------------------------------------
(* json_validation, for any keys and any number of parts. *)

(* The sizes add up to what has come, and the plugin that has started looks for the
   keys of its configuration. *)
Sums == total = came
KeysParsed ==
  /\ plugin = "started" => configured.json /\ requiredKeys = Json!parsePluginConfiguration(configured)
  /\ jsonFate # "new" => plugin = "started"
  /\ jsonFate \in {"new", "body"} => way = "none"
JsonInv == Json!TypeOK /\ Sums /\ KeysParsed /\ Json!VerdictIsRight

(* What the plugin makes of its configuration asks for what was configured. *)
LEMMA ValidMeansSatisfied ==
  ASSUME NEW c \in Json!Configuration, NEW p \in Json!Payload,
         requiredKeys = Json!parsePluginConfiguration(c)
  PROVE  Json!validatePayload(p) <=> Json!Satisfies(p, c)
<1>1. c.keys \subseteq Key \cup {"number"}
  <2>1. c \in [json : {TRUE}, keys : SUBSET Json!Member] \/ c = Json!Invalid
    BY Zenon DEF Json!Configuration, Json!Text
  <2>2. CASE c \in [json : {TRUE}, keys : SUBSET Json!Member]
    BY <2>2 DEF Json!Member
  <2>3. CASE c = Json!Invalid
    BY <2>3 DEF Json!Invalid
  <2> QED BY <2>1, <2>2, <2>3
<1>2. requiredKeys = {IF m \in Key THEN m ELSE NoKey : m \in c.keys}
  BY DEF Json!parsePluginConfiguration
<1>3. ASSUME requiredKeys \subseteq p.keys
      PROVE  c.keys \cap Key \subseteq p.keys /\ ("number" \in c.keys => NoKey \in p.keys)
  BY KeyAssumption, <1>2, <1>3
<1>4. ASSUME c.keys \cap Key \subseteq p.keys, "number" \in c.keys => NoKey \in p.keys
      PROVE  requiredKeys \subseteq p.keys
  BY <1>1, <1>2, <1>4
<1> QED BY <1>3, <1>4 DEF Json!validatePayload, Json!Satisfies

LEMMA JsonStep == ASSUME JsonInv, [Json!Next]_jsonVars PROVE JsonInv'
<1> USE BoundAssumption DEF JsonInv, Json!TypeOK, Sums, KeysParsed, Json!VerdictIsRight, Json!request
<1>1. CASE Json!OnPluginStart
  <2>1. Json!parsePluginConfiguration(configured) \subseteq Key \cup {NoKey}
    BY DEF Json!parsePluginConfiguration
  <2> QED BY <1>1, <2>1 DEF Json!OnPluginStart, Json!parsePluginConfiguration, Json!Satisfies
<1>2. ASSUME NEW end \in BOOLEAN, NEW answers \in BOOLEAN, Json!OnHttpRequestHeaders(end, answers)
      PROVE  JsonInv'
  BY <1>2 DEF Json!OnHttpRequestHeaders, Json!Accepted, Json!parsePluginConfiguration, Json!Satisfies
<1>3. CASE Json!HoldPart
  BY <1>3 DEF Json!HoldPart, Json!Comes, Json!parsePluginConfiguration, Json!Satisfies
<1>4. CASE Json!Trailers
  BY <1>4 DEF Json!Trailers, Json!parsePluginConfiguration, Json!Satisfies
<1>5. ASSUME NEW k \in 0..1, NEW ok \in BOOLEAN, NEW answers \in BOOLEAN, Json!LastPart(k, ok, answers)
      PROVE  JsonInv'
  <2>1. Json!BodySize(k) = came + k /\ Json!Read(k) = payload
    BY DEF Json!BodySize, Json!Read
  <2>2. plugin = "started" /\ requiredKeys = Json!parsePluginConfiguration(configured)
    BY <1>5 DEF Json!LastPart, Json!Comes
  <2>3. Json!validatePayload(payload) <=> Json!Satisfies(payload, configured)
    BY <2>2, ValidMeansSatisfied
  <2>4. /\ came' \in 0..(MaxParts - 1) /\ total' = came' /\ total' \in 0..came'
        /\ UNCHANGED <<configured, plugin, requiredKeys, contentType, payload>>
    BY <1>5 DEF Json!LastPart, Json!Comes
  <2>5. /\ contentType
        /\ (Json!Satisfies(payload, configured))' <=> Json!Satisfies(payload, configured)
        /\ Json!parsePluginConfiguration(configured)' = Json!parsePluginConfiguration(configured)
    BY <1>5, <2>4 DEF Json!LastPart, Json!Comes, Json!Satisfies, Json!parsePluginConfiguration
  <2>6. CASE ~ok \/ Json!BodySize(k) = 0
    BY <1>5, <2>2, <2>4, <2>5, <2>6 DEF Json!LastPart
  <2>7. CASE ok /\ Json!BodySize(k) > 0 /\ Json!validatePayload(Json!Read(k))
    BY <1>5, <2>1, <2>2, <2>3, <2>4, <2>5, <2>7 DEF Json!LastPart
  <2>8. CASE ok /\ Json!BodySize(k) > 0 /\ ~Json!validatePayload(Json!Read(k))
    BY <1>5, <2>1, <2>2, <2>3, <2>4, <2>5, <2>8 DEF Json!LastPart
  <2> QED BY <2>1, <2>6, <2>7, <2>8
<1>6. CASE UNCHANGED jsonVars
  BY <1>6 DEF jsonVars, Json!parsePluginConfiguration, Json!Satisfies
<1> QED BY <1>1, <1>2, <1>3, <1>4, <1>5, <1>6 DEF Json!Next

LEMMA JsonInit == Json!Init => JsonInv
BY BoundAssumption DEF Json!Init, JsonInv, Json!TypeOK, Sums, KeysParsed, Json!VerdictIsRight

LEMMA JsonInvariant == PluginsSpec => []JsonInv
<1>1. PluginsInit => JsonInv
  BY JsonInit DEF PluginsInit
<1>2. JsonInv /\ [PluginsNext]_<<active, vars, others>> => JsonInv'
  BY JsonStep, EachPluginSteps
<1> QED BY <1>1, <1>2, PTL DEF PluginsSpec

(* json_validation/main.go:101-161: for any configuration, any payload and any way of
   cutting it into parts, what was read is the whole payload and the verdict is what the
   configuration asks for. *)
THEOREM VerdictMeetsConfiguration == PluginsSpec => []VerdictIsRight
<1>1. JsonInv => VerdictIsRight
  BY DEF JsonInv, VerdictIsRight
<1> QED BY <1>1, JsonInvariant, PTL

-----------------------------------------------------------------------------
(* http_routing, http_headers and properties.  What the plugin made of its
   configuration, and what a request has before its callback. *)
SettingOf == CASE headersConfigured \in {"byte1", "complete"} -> 1
               [] headersConfigured = "byte2" -> 2
               [] OTHER -> 0
HeadersInv ==
  /\ Headers!TypeOK /\ Headers!FailsSafely
  /\ headersPlugin # "new" => setting = SettingOf
  /\ headersPlugin = "new" => setting = 0
  /\ headersFate = "new" => ~canary /\ extra = {}
  /\ headersFate = "continued" => extra = {}
  /\ program # "http_routing" => ~canary

LEMMA HeadersInit == Headers!Init => HeadersInv
<1> SUFFICES ASSUME Headers!Init PROVE HeadersInv
  OBVIOUS
<1> USE DEF Headers!Init
<1>1. Headers!TypeOK
  <2>1. requires \in BOOLEAN /\ carries \in BOOLEAN
    OBVIOUS
  <2>2. /\ program \in DOMAIN Headers!Configured
        /\ headersConfigured \in Headers!Configured[program]
    OBVIOUS
  <2>3. /\ headersPlugin = "new" /\ setting = 0 /\ headersFate = "new" /\ value = 0
        /\ canary = FALSE /\ extra = {} /\ failed = FALSE
    OBVIOUS
  <2>4. setting \in 0..2 /\ value \in 0..2
    BY <2>3
  <2>5. canary \in BOOLEAN /\ failed \in BOOLEAN
    BY <2>3, Zenon
  <2>6. /\ headersPlugin \in {"new", "started", "failed"}
        /\ headersFate \in {"new", "continued", "stuck", "refused", "answered"}
        /\ extra \subseteq {"x-proxy-wasm-go-sdk-example", "configured"}
    BY <2>3
  <2> QED BY ONLY <2>1, <2>2, <2>4, <2>5, <2>6, Zenon DEF Headers!TypeOK
<1>2. Headers!FailsSafely
  BY DEF Headers!FailsSafely
<1> QED BY <1>1, <1>2 DEF HeadersInv

LEMMA HeadersStep == HeadersInv /\ [Headers!Next]_headersVars => HeadersInv'
<1> SUFFICES ASSUME HeadersInv, [Headers!Next]_headersVars PROVE HeadersInv'
  OBVIOUS
<1> USE DEF HeadersInv, Headers!TypeOK, Headers!FailsSafely, Headers!config, Headers!Requested
<1>0. /\ program = "http_routing" =>
           headersConfigured \in {"empty", "error", "byte0", "byte1", "byte2"}
      /\ program = "http_headers" =>
           headersConfigured \in {"empty", "error", "noJSON", "incomplete", "complete"}
      /\ program = "properties" => headersConfigured = "empty"
      /\ program \in {"http_routing", "http_headers", "properties"}
  BY DEF Headers!Configured
<1>1. CASE Headers!OnPluginStart
  BY <1>1 DEF Headers!OnPluginStart, Headers!Starts, SettingOf
<1>2. CASE Headers!LogRequest
  BY <1>0, <1>2 DEF Headers!LogRequest, SettingOf
<1>3. ASSUME NEW dice \in 0..1, NEW ok \in BOOLEAN, Headers!RouteRequest(dice, ok)
      PROVE  HeadersInv'
  <2>1. /\ program = "http_routing" /\ headersPlugin = "started" /\ headersFate = "new"
        /\ value' = (IF setting # 0 THEN setting ELSE dice)
        /\ headersFate' = (IF value' % 2 = 1 \/ ok THEN "continued" ELSE "stuck")
        /\ canary' = (value' % 2 = 0 /\ ok) /\ failed' = (value' % 2 = 0 /\ ~ok)
        /\ UNCHANGED <<program, headersConfigured, requires, carries, headersPlugin, setting, extra>>
    BY <1>3 DEF Headers!RouteRequest
  <2>2. /\ value' \in 0..2 /\ value' % 2 \in 0..1 /\ extra = {}
        /\ headersConfigured = "byte1" => value' % 2 = 1 /\ value' % 2 # 0
        /\ headersConfigured = "byte2" => value' % 2 = 0
    BY <2>1 DEF SettingOf
  <2>3. Headers!TypeOK'
    BY <2>1, <2>2
  <2>4. Headers!FailsSafely'
    <3>1. /\ headersFate' = "continued" => (canary' <=> value' % 2 = 0)
          /\ headersConfigured = "byte1" => ~canary'
          /\ headersConfigured = "byte2" /\ headersFate' = "continued" => canary'
          /\ headersFate' = "stuck" => failed'
          /\ headersFate' # "answered"
      <4>1. CASE value' % 2 = 0 /\ ok
        <5>1. canary' /\ headersFate' = "continued"
          BY <2>1, <4>1, Zenon
        <5>2. headersConfigured # "byte1"
          BY ONLY <2>2, <4>1, Zenon
        <5> QED BY <4>1, <5>1, <5>2
      <4>2. CASE value' % 2 = 0 /\ ~ok
        <5>1. ~canary' /\ failed'
          BY <2>1, <4>2, Zenon
        <5>2. headersFate' = "stuck"
          BY <2>1, <4>2
        <5> QED BY <4>2, <5>1, <5>2
      <4>3. CASE value' % 2 = 1
        BY <2>1, <2>2, <4>3
      <4> QED BY <2>2, <4>1, <4>2, <4>3
    <3> QED BY <2>1, <2>2, <3>1
  <2>5. SettingOf' = SettingOf
    BY <2>1 DEF SettingOf
  <2> QED BY <2>1, <2>2, <2>3, <2>4, <2>5
<1>4. ASSUME NEW constant \in BOOLEAN, NEW header \in BOOLEAN, Headers!AddHeaders(constant, header)
      PROVE  HeadersInv'
  <2>1. /\ program = "http_headers" /\ headersFate = "continued" /\ headersFate' = "answered"
        /\ extra' = (IF constant THEN {"x-proxy-wasm-go-sdk-example"} ELSE {})
                    \cup (IF setting # 0 /\ header THEN {"configured"} ELSE {})
        /\ failed' = ~(constant /\ header)
        /\ UNCHANGED <<program, headersConfigured, requires, carries, headersPlugin, setting>>
        /\ UNCHANGED <<value, canary>>
    BY <1>4 DEF Headers!AddHeaders
  <2>2. headersPlugin = "started" /\ (setting # 0 <=> headersConfigured = "complete")
    BY <1>0, <2>1 DEF SettingOf
  <2>3. Headers!TypeOK'
    BY <2>1
  <2>4. Headers!FailsSafely'
    BY <1>0, <2>1, <2>2
  <2>5. SettingOf' = SettingOf
    BY <2>1 DEF SettingOf
  <2> QED BY <2>1, <2>2, <2>3, <2>4, <2>5
<1>5. ASSUME NEW known \in BOOLEAN, NEW read \in BOOLEAN, NEW answers \in BOOLEAN,
             Headers!Authenticate(known, read, answers)
      PROVE  HeadersInv'
  BY <1>0, <1>5 DEF Headers!Authenticate, Headers!NoAuth, SettingOf
<1>6. CASE UNCHANGED headersVars
  BY <1>6 DEF headersVars, SettingOf
<1> QED BY <1>1, <1>2, <1>3, <1>4, <1>5, <1>6 DEF Headers!Next

LEMMA HeadersInvariant == PluginsSpec => []HeadersInv
<1>1. PluginsInit => HeadersInv
  BY HeadersInit DEF PluginsInit
<1>2. HeadersInv /\ [PluginsNext]_<<active, vars, others>> => HeadersInv'
  BY HeadersStep, EachPluginSteps
<1> QED BY <1>1, <1>2, PTL DEF PluginsSpec

(* http_routing/main.go:86-110, http_headers/main.go:119-144, properties/main.go:62-94:
   whatever the configuration and whichever calls of the host fail, no request goes the
   wrong way or past its authentication, and none hangs without such a failure. *)
THEOREM HeadersFailSafely == PluginsSpec => []FailsSafely
<1>1. HeadersInv => FailsSafely
  BY DEF HeadersInv, FailsSafely
<1> QED BY <1>1, HeadersInvariant, PTL

-----------------------------------------------------------------------------
(* http_body, for any number of parts. *)

(* How a direction stands: nothing of the edited body goes on while it comes, and all
   of the other. *)
Streaming(d) ==
  /\ held[d] <= bodyCame[d]
  /\ phase[d] = "before" => bodyCame[d] = 0 /\ held[d] = 0 /\ sent[d] = <<>> /\ d \notin edited
  /\ phase[d] = "body" => IF d = Body!Chosen THEN sent[d] = <<>> /\ held[d] = bodyCame[d]
                                            ELSE sent[d] = Body!Whole(d) /\ held[d] = 0
  /\ phase[d] = "body" => d \notin edited

(* What an operation finds settled when it is reached. *)
Settled ==
  /\ phase["request"] \in {"before", "body"} => phase["response"] = "before" /\ reply = "none"
  /\ phase["request"] = "before" => ~modifyResponse /\ bufferOperation = "none"
  /\ reply = "refused" => bufferOperation = "none" /\ phase["request"] = "stopped"
  /\ reply = "echo" => phase["request"] = "stopped" /\ phase["response"] \in {"end", "stopped"}
  /\ shouldEchoBody => ~modifyResponse /\ bufferOperation = "none" /\ reply # "refused"
  /\ phase["request"] \in {"body", "end"} /\ ~shouldEchoBody => ~length["request"]
  /\ phase["response"] \in {"body", "end"} /\ modifyResponse => ~length["response"]
  /\ bufferOperation = "none" => edited = {}
  /\ edited \subseteq {Body!Chosen}

(* The counter of an echo is never less than what the host has kept. *)
EchoTotal == shouldEchoBody /\ phase["request"] \in {"before", "body"} /\ ~cumulative
               => bodyTotal["request"] = bodyCame["request"]

BodyInv == /\ Body!TypeOK /\ Body!WholeOrHeld /\ Body!EditsFit
           /\ Settled /\ EchoTotal /\ \A d \in Body!Dir : Streaming(d)

(* The parts from one on: in order, without gaps. *)
LEMMA PartsJoin ==
  ASSUME NEW a \in Nat, NEW k \in Nat
  PROVE  [i \in 1..a |-> i] \o [i \in 1..k |-> a + i] = [i \in 1..(a + k) |-> i]
<1> DEFINE x == [i \in 1..a |-> i]
           y == [i \in 1..k |-> a + i]
           z == [i \in 1..(a + k) |-> i]
<1>1. x \in Seq(Nat) /\ y \in Seq(Nat) /\ z \in Seq(Nat) /\ Len(x) = a /\ Len(y) = k /\ Len(z) = a + k
  OBVIOUS
<1>2. ASSUME NEW i \in 1..(a + k) PROVE (x \o y)[i] = z[i]
  <2>1. CASE i <= a
    BY <2>1
  <2>2. CASE i > a
    BY <2>2
  <2> QED BY <2>1, <2>2
<1>3. x \o y \in Seq(Nat) /\ Len(x \o y) = a + k
  BY <1>1
<1> QED BY <1>1, <1>2, <1>3

LEMMA PartsType ==
  ASSUME NEW n \in Nat, NEW a \in 0..n
  PROVE  /\ [i \in 1..a |-> i] \in Seq(0..n) /\ Len([i \in 1..a |-> i]) = a
         /\ a = 0 => [i \in 1..a |-> i] = <<>>
OBVIOUS

LEMMA EmptyFirst == \A n \in Nat : \A b \in Seq(0..n) : <<>> \o b = b
OBVIOUS

(* What a callback sees of a body, and what there then is of it. *)
LEMMA BodySeen ==
  ASSUME BodyInv, NEW d \in Body!Dir, phase[d] = "body", NEW k \in 0..1,
         bodyCame[d] + k <= MaxParts
  PROVE  /\ sent[d] \o Body!Body(d, k) = [i \in 1..(bodyCame[d] + k) |-> i]
         /\ d = Body!Chosen => Body!Body(d, k) = [i \in 1..(bodyCame[d] + k) |-> i]
         /\ bodyCame[d] + k \in 0..MaxParts /\ Body!Body(d, k) \in Seq(0..MaxParts)
         /\ d = Body!Chosen => sent[d] = <<>>
<1>1. bodyCame[d] \in Nat /\ bodyCame[d] + k \in 0..MaxParts
  BY BoundAssumption DEF BodyInv, Body!TypeOK
<1>2. CASE d = Body!Chosen
  <2>1. sent[d] = <<>> /\ held[d] = bodyCame[d]
    BY <1>2 DEF BodyInv, Streaming
  <2>2. Body!Body(d, k) = [i \in 1..(bodyCame[d] + k) |-> i]
    BY <1>1, <2>1 DEF Body!Body
  <2> QED BY <1>1, <2>1, <2>2, PartsType, EmptyFirst, BoundAssumption
<1>3. CASE d # Body!Chosen
  <2>1. sent[d] = [i \in 1..bodyCame[d] |-> i] /\ held[d] = 0
    BY <1>3 DEF BodyInv, Streaming, Body!Whole
  <2>2. Body!Body(d, k) = [i \in 1..k |-> bodyCame[d] + i]
    BY <1>1, <2>1 DEF Body!Body
  <2>3. [i \in 1..k |-> bodyCame[d] + i] \in Seq(0..MaxParts)
    BY <1>1, BoundAssumption
  <2> QED BY <1>1, <1>3, <2>1, <2>2, <2>3, PartsJoin
<1> QED BY <1>2, <1>3

LEMMA HoldsChosen ==
  ASSUME BodyInv, NEW d \in Body!Dir
  PROVE  Body!Holds(d) <=> d = Body!Chosen
BY DEF BodyInv, Settled, Body!TypeOK, Body!Holds, Body!Chosen, Body!Dir

LEMMA EditType ==
  ASSUME NEW b \in Seq(0..MaxParts)
  PROVE  Body!Edit(b) \in Seq(0..MaxParts)
<1>1. 0 \in 0..MaxParts
  BY BoundAssumption
<1>2. <<0>> \in Seq(0..MaxParts)
  BY <1>1
<1>3. Append(b, 0) \in Seq(0..MaxParts) /\ <<0>> \o b \in Seq(0..MaxParts)
  BY <1>1, <1>2
<1> QED BY <1>2, <1>3 DEF Body!Edit

LEMMA BodyInit == Body!Init => BodyInv
<1> SUFFICES ASSUME Body!Init PROVE BodyInv
  OBVIOUS
<1> USE DEF Body!Init, Body!Dir
<1>1. Body!TypeOK
  <2>1. 0 \in 0..MaxParts /\ <<>> \in Seq(0..MaxParts)
    BY BoundAssumption
  <2> QED BY <2>1 DEF Body!TypeOK
<1>2. Settled /\ EchoTotal /\ Body!EditsFit
  BY DEF Settled, EchoTotal, Body!EditsFit
<1>3. \A d \in Body!Dir : Streaming(d) /\ sent[d] = Body!Whole(d)
  BY PartsType DEF Streaming, Body!Whole
<1>4. Body!WholeOrHeld
  BY <1>3 DEF Body!WholeOrHeld
<1> QED BY <1>1, <1>2, <1>3, <1>4 DEF BodyInv

(* The callbacks for headers move no part of a body. *)
LEMMA BodyHeadersStep ==
  ASSUME BodyInv,
         \/ \E header \in Body!Operations \cup {"other"}, inResponse \in BOOLEAN :
              Body!OnHttpRequestHeaders(header, inResponse)
         \/ Body!EchoRequestHeaders \/ Body!OnHttpResponseHeaders \/ Body!Panics
         \/ UNCHANGED bodyVars
  PROVE  BodyInv'
<1> USE DEF BodyInv, Body!TypeOK, Body!config, Body!context, Body!body
<1>1. \A d \in Body!Dir : Body!Whole(d)' = [i \in 1..bodyCame'[d] |-> i]
                          /\ Body!Whole(d) = [i \in 1..bodyCame[d] |-> i]
  BY DEF Body!Whole
<1>2. \A d \in Body!Dir : bodyCame[d] = 0 => Body!Whole(d) = <<>>
  BY <1>1, PartsType
<1>4. ASSUME NEW header \in Body!Operations \cup {"other"}, NEW inResponse \in BOOLEAN,
             Body!OnHttpRequestHeaders(header, inResponse)
      PROVE  BodyInv'
  <2>1. Body!Operation(header) \in Body!Operations
    BY DEF Body!Operation, Body!Operations
  <2>2. /\ phase["request"] = "before" /\ phase["response"] = "before" /\ ~shouldEchoBody
        /\ edited = {} /\ modifyResponse' = inResponse
        /\ bodyCame["request"] = 0 /\ sent["request"] = <<>> /\ held["request"] = 0
        /\ bodyCame["response"] = 0 /\ sent["response"] = <<>> /\ held["response"] = 0
        /\ UNCHANGED <<shouldEchoBody, cumulative, bodyTotal, bodyCame, held, sent, edited>>
    BY <1>4 DEF Body!OnHttpRequestHeaders, Settled, Streaming, Body!Dir
  <2>3. \A d \in Body!Dir : sent'[d] = Body!Whole(d)' /\ bodyCame'[d] = 0 /\ held'[d] = 0
                                /\ sent'[d] = <<>>
    BY <1>1, <1>2, <2>2 DEF Body!Dir
  <2>4. CASE length["request"]
    <3>1. /\ length' = [length EXCEPT !["request"] = FALSE] /\ reply' = reply
          /\ bufferOperation' = Body!Operation(header)
          /\ phase' = [phase EXCEPT !["request"] = "body"]
      BY <1>4, <2>4 DEF Body!OnHttpRequestHeaders
    <3>2. Body!TypeOK'
      BY <2>1, <2>2, <3>1
    <3>3. Settled' /\ EchoTotal'
      BY <2>1, <2>2, <3>1 DEF Settled, EchoTotal, Body!Dir, Body!Operations
    <3>4. \A d \in Body!Dir : Streaming(d)'
      BY <2>2, <2>3, <3>1 DEF Streaming, Body!Dir
    <3>5. Body!WholeOrHeld' /\ Body!EditsFit'
      BY <2>2, <2>3, <3>1 DEF Body!WholeOrHeld, Body!EditsFit, Settled
    <3> QED BY <3>2, <3>3, <3>4, <3>5
  <2>5. CASE ~length["request"]
    <3>1. /\ length' = [length EXCEPT !["response"] = TRUE] /\ reply' = "refused"
          /\ bufferOperation' = bufferOperation
          /\ phase' = [phase EXCEPT !["request"] = "stopped"]
      BY <1>4, <2>5 DEF Body!OnHttpRequestHeaders, Body!OperationOfRefused
    <3>2. Body!TypeOK'
      BY <2>2, <3>1
    <3>3. Settled' /\ EchoTotal'
      BY <2>2, <3>1 DEF Settled, EchoTotal, Body!Dir
    <3>4. \A d \in Body!Dir : Streaming(d)'
      BY <2>2, <2>3, <3>1 DEF Streaming, Body!Dir
    <3>5. Body!WholeOrHeld' /\ Body!EditsFit'
      BY <2>2, <2>3, <3>1 DEF Body!WholeOrHeld, Body!EditsFit, Settled
    <3> QED BY <3>2, <3>3, <3>4, <3>5
  <2> QED BY <2>4, <2>5
<1>5. CASE Body!EchoRequestHeaders
  <2>1. /\ phase["request"] = "before" /\ shouldEchoBody
        /\ phase' = [phase EXCEPT !["request"] = "body"]
        /\ UNCHANGED <<shouldEchoBody, cumulative, modifyResponse, bufferOperation, bodyTotal,
                        reply, length, bodyCame, held, sent, edited>>
    BY <1>5 DEF Body!EchoRequestHeaders
  <2>2. Settled' /\ EchoTotal'
    BY <2>1 DEF Settled, EchoTotal, Body!Dir
  <2>3. \A d \in Body!Dir : Streaming(d)'
    <3>2. Streaming("request")'
      <4>1. /\ bodyCame["request"] = 0 /\ held["request"] = 0 /\ sent["request"] = <<>>
            /\ "request" \notin edited
        BY <2>1 DEF Streaming, Body!Dir
      <4>2. Body!Whole("request")' = <<>>
        BY <1>1, <1>2, <2>1, <4>1 DEF Body!Dir
      <4> QED BY <2>1, <4>1, <4>2 DEF Streaming, Body!Dir
    <3>3. Streaming("response")'
      <4>1. phase["response"] = "before" /\ phase'["response"] = "before"
        BY <2>1 DEF Settled, Body!Dir
      <4> QED BY <2>1, <4>1 DEF Streaming, Body!Dir
    <3> QED BY <3>2, <3>3 DEF Body!Dir
  <2>4. Body!WholeOrHeld'
    <3>1. edited = {} /\ reply = "none"
      BY <2>1 DEF Settled
    <3>2. \A d \in Body!Dir : Body!Whole(d)' = Body!Whole(d)
      BY <1>1, <2>1
    <3>3. bodyCame["request"] = 0 /\ sent["request"] = <<>> /\ held["request"] = 0
      BY <2>1 DEF Streaming, Body!Dir
    <3>4. sent["response"] = Body!Whole("response") /\ phase["response"] = "before"
      BY <1>2, <2>1 DEF Streaming, Settled, Body!Dir
    <3>5. sent["request"] = Body!Whole("request")
      BY <1>2, <3>3 DEF Body!Dir
    <3> QED BY <2>1, <3>1, <3>2, <3>3, <3>4, <3>5 DEF Body!WholeOrHeld, Body!Dir
  <2>5. Body!TypeOK' /\ Body!EditsFit'
    BY <2>1 DEF Body!EditsFit
  <2> QED BY <2>2, <2>3, <2>4, <2>5
<1>6. CASE Body!OnHttpResponseHeaders
  <2>1. /\ phase["response"] = "before"
        /\ (reply' = "upstream" /\ phase["request"] = "end") \/ (reply = "refused" /\ reply' = reply)
        /\ phase' = [phase EXCEPT !["response"] = "body"]
        /\ length' = [length EXCEPT !["response"] = length["response"] /\ ~modifyResponse]
        /\ UNCHANGED <<shouldEchoBody, cumulative, modifyResponse, bufferOperation, bodyTotal,
                        bodyCame, held, sent, edited>>
    <3>1. /\ (reply' = "upstream" /\ phase["request"] = "end") \/ (reply = "refused" /\ reply' = reply)
          /\ length' = [length EXCEPT !["response"] = length["response"] /\ ~modifyResponse]
      <4>1. (reply' = "upstream" /\ phase["request"] = "end") \/ (reply = "refused" /\ reply' = reply)
        BY <1>6 DEF Body!OnHttpResponseHeaders
      <4>2. length' = [length EXCEPT !["response"] = Body!LengthAfter]
        BY <1>6 DEF Body!OnHttpResponseHeaders
      <4> QED BY <4>1, <4>2, Zenon DEF Body!LengthAfter
    <3> QED BY <1>6, <3>1 DEF Body!OnHttpResponseHeaders
  <2>2. Settled' /\ EchoTotal'
    BY <2>1 DEF Settled, EchoTotal, Body!Dir, Body!Chosen
  <2>3. bodyCame["response"] = 0 /\ sent["response"] = <<>> /\ held["response"] = 0
        /\ "response" \notin edited
    BY <2>1 DEF Streaming, Body!Dir
  <2>4. \A d \in Body!Dir : Streaming(d)'
    <3>1. sent["response"] = Body!Whole("response")
      BY <1>2, <2>3 DEF Body!Dir
    <3> QED BY <1>1, <2>1, <2>3, <3>1 DEF Streaming, Body!Dir, Body!Chosen
  <2>5. Body!WholeOrHeld'
    <3>1. reply # "echo" /\ reply' # "echo" /\ phase["request"] # "body"
      BY <2>1 DEF Settled
    <3>2. \A d \in Body!Dir : Body!Whole(d)' = Body!Whole(d)
      BY <1>1, <2>1
    <3>3. sent["response"] = Body!Whole("response")
      BY <1>2, <2>3 DEF Body!Dir
    <3>4. /\ edited \subseteq {Body!Chosen}
          /\ \/ phase["request"] = "stopped"
             \/ sent["request"] = IF "request" \in edited THEN Body!Edit(Body!Whole("request"))
                                                         ELSE Body!Whole("request")
      BY <3>1 DEF Body!WholeOrHeld, Body!Dir
    <3>5. Body!Edit(Body!Whole("request"))' = Body!Edit(Body!Whole("request"))
      BY <2>1, <3>2 DEF Body!Edit, Body!Dir
    <3>6. Body!Chosen' = Body!Chosen
      BY <2>1 DEF Body!Chosen
    <3> QED BY <2>1, <2>3, <3>1, <3>2, <3>3, <3>4, <3>5, <3>6 DEF Body!WholeOrHeld, Body!Dir
  <2>6. Body!TypeOK'
    BY <2>1 DEF Body!Dir
  <2>7. Body!EditsFit'
    BY <2>1, <2>3 DEF Body!EditsFit, Settled, Body!Dir
  <2> QED BY <2>2, <2>4, <2>5, <2>6, <2>7
<1>7. CASE Body!Panics
  <2>1. /\ phase' = [d \in Body!Dir |-> "stopped"] /\ reply # "echo"
        /\ UNCHANGED <<shouldEchoBody, cumulative, modifyResponse, bufferOperation, bodyTotal,
                        reply, length, bodyCame, held, sent, edited>>
    BY <1>7 DEF Body!Panics, Settled
  <2>2. Settled' /\ EchoTotal'
    BY <2>1 DEF Settled, EchoTotal, Body!Dir, Body!Chosen
  <2>3. \A d \in Body!Dir : Streaming(d)'
    BY <2>1 DEF Streaming, Body!Dir
  <2>4. Body!WholeOrHeld' /\ Body!EditsFit' /\ Body!TypeOK'
    BY <2>1 DEF Body!WholeOrHeld, Body!EditsFit, Body!Chosen
  <2> QED BY <2>2, <2>3, <2>4
<1>8. CASE UNCHANGED bodyVars
  <2>1. UNCHANGED <<shouldEchoBody, cumulative, modifyResponse, bufferOperation, bodyTotal, phase,
                     reply, length, bodyCame, held, sent, edited>>
    BY <1>8 DEF bodyVars
  <2>2. \A d \in Body!Dir : Body!Whole(d)' = Body!Whole(d)
                             /\ Body!Edit(Body!Whole(d))' = Body!Edit(Body!Whole(d))
    BY <2>1 DEF Body!Whole, Body!Edit
  <2>3. \A d \in Body!Dir : Streaming(d)'
    BY <2>1, <2>2 DEF Streaming, Body!Chosen
  <2>4. Body!WholeOrHeld'
    BY <2>1, <2>2 DEF Body!WholeOrHeld, Body!Dir, Body!Chosen
  <2>5. Settled' /\ EchoTotal' /\ Body!EditsFit' /\ Body!TypeOK'
    BY <2>1 DEF Settled, EchoTotal, Body!EditsFit, Body!Chosen
  <2> QED BY <2>3, <2>4, <2>5
<1> QED BY <1>4, <1>5, <1>6, <1>7, <1>8

(* The direction that a part does not belong to stays as it is. *)
LEMMA OtherDirection ==
  ASSUME BodyInv, NEW d \in Body!Dir, NEW e \in Body!Dir, e # d,
         UNCHANGED <<shouldEchoBody, modifyResponse, bufferOperation>>,
         bodyCame'[e] = bodyCame[e], held'[e] = held[e], sent'[e] = sent[e], phase'[e] = phase[e],
         e \in edited' <=> e \in edited
  PROVE  /\ Streaming(e)'
         /\ IF phase'[e] = "body" /\ e = Body!Chosen'
              THEN sent'[e] = <<>> /\ held'[e] = bodyCame'[e]
              ELSE reply = "echo" \/ phase'[e] = "stopped"
                     \/ sent'[e] = IF e \in edited' THEN Body!Edit(Body!Whole(e))' ELSE Body!Whole(e)'
<1>1. Body!Whole(e)' = Body!Whole(e) /\ Body!Edit(Body!Whole(e))' = Body!Edit(Body!Whole(e))
  BY DEF Body!Whole, Body!Edit
<1>2. Body!Chosen' = Body!Chosen
  BY DEF Body!Chosen
<1>3. Streaming(e)'
  BY <1>1, <1>2 DEF BodyInv, Streaming
<1> QED BY <1>1, <1>2, <1>3 DEF BodyInv, Body!WholeOrHeld

LEMMA ConcatType == ASSUME NEW S, NEW a \in Seq(S), NEW b \in Seq(S) PROVE a \o b \in Seq(S)
OBVIOUS

(* What goes on when d goes on: everything that has come. *)
LEMMA BodyGoes ==
  ASSUME BodyInv, NEW d \in Body!Dir, NEW k \in 0..1, NEW b \in Seq(0..MaxParts), NEW last \in BOOLEAN,
         phase[d] = "body", bodyCame[d] + k <= MaxParts, bodyCame' = [bodyCame EXCEPT ![d] = @ + k],
         Body!Goes(d, b, last), last \/ d # Body!Chosen,
         edited' = edited \/ (last /\ d = Body!Chosen /\ ~shouldEchoBody
                              /\ bufferOperation # "none" /\ edited' = edited \cup {d}),
         sent[d] \o b = (IF d \in edited' THEN Body!Edit(Body!Whole(d)') ELSE Body!Whole(d)'),
         UNCHANGED <<shouldEchoBody, cumulative, modifyResponse, bufferOperation, reply, length>>,
         bodyTotal' \in [Body!Dir -> Nat],
         \A e \in Body!Dir : e # d => bodyTotal'[e] = bodyTotal[e]
  PROVE  BodyInv'
<1> USE DEF BodyInv, Body!TypeOK
<1>1. /\ sent' = [sent EXCEPT ![d] = @ \o b] /\ held' = [held EXCEPT ![d] = 0]
      /\ phase' = IF last THEN [phase EXCEPT ![d] = "end"] ELSE phase
  BY DEF Body!Goes
<1>2. bodyCame[d] \in Nat /\ bodyCame'[d] = bodyCame[d] + k /\ bodyCame[d] + k \in 0..MaxParts
  BY BoundAssumption
<1>3. sent[d] \in Seq(0..MaxParts) /\ sent[d] \o b \in Seq(0..MaxParts) /\ 0 \in 0..MaxParts
  <2>1. sent[d] \in Seq(0..MaxParts)
    OBVIOUS
  <2>2. sent[d] \o b \in Seq(0..MaxParts)
    BY <2>1, ConcatType
  <2> QED BY <2>1, <2>2, BoundAssumption
<1>4. Body!TypeOK'
  <2>1. sent' \in [Body!Dir -> Seq(0..MaxParts)]
    BY <1>1, <1>3
  <2>2. held' \in [Body!Dir -> 0..MaxParts] /\ bodyCame' \in [Body!Dir -> 0..MaxParts]
    BY <1>1, <1>2, <1>3
  <2>3. phase' \in [Body!Dir -> {"before", "body", "end", "stopped"}] /\ edited' \subseteq Body!Dir
    BY <1>1
  <2> QED BY <2>1, <2>2, <2>3
<1>5. Body!Chosen' = Body!Chosen /\ Body!Edit(Body!Whole(d)') = Body!Edit(Body!Whole(d))'
  BY DEF Body!Chosen, Body!Edit
<1>6. d \notin edited /\ reply # "echo"
  BY DEF Streaming, Settled, Body!Dir
<1>7. sent'[d] = (IF d \in edited' THEN Body!Edit(Body!Whole(d))' ELSE Body!Whole(d)')
  BY <1>1, <1>5
<1>8. Settled'
  BY <1>1, <1>5 DEF Settled, Body!Dir, Body!Chosen
<1>9. EchoTotal'
  <2>1. CASE d = "request"
    <3>1. shouldEchoBody => phase'["request"] = "end"
      BY <1>1, <2>1 DEF Settled, Body!Chosen
    <3> QED BY <3>1 DEF EchoTotal
  <2>2. CASE d # "request"
    BY <1>1, <2>2 DEF EchoTotal, Body!Dir
  <2> QED BY <2>1, <2>2
<1>10. Body!EditsFit'
  BY <1>1 DEF Body!EditsFit, Settled, Body!Chosen, Body!Dir
<1>11. ASSUME NEW e \in Body!Dir, e # d
       PROVE  /\ Streaming(e)'
              /\ IF phase'[e] = "body" /\ e = Body!Chosen'
                   THEN sent'[e] = <<>> /\ held'[e] = bodyCame'[e]
                   ELSE reply = "echo" \/ phase'[e] = "stopped"
                          \/ sent'[e] = IF e \in edited' THEN Body!Edit(Body!Whole(e))' ELSE Body!Whole(e)'
  <2>1. /\ bodyCame'[e] = bodyCame[e] /\ held'[e] = held[e] /\ sent'[e] = sent[e]
        /\ phase'[e] = phase[e] /\ (e \in edited' <=> e \in edited)
    BY <1>1, <1>11
  <2> QED BY <1>11, <2>1, OtherDirection
<1>12. Streaming(d)'
  BY <1>1, <1>2, <1>5, <1>6, <1>7 DEF Streaming
<1>13. Body!WholeOrHeld'
  <2>1. edited' \subseteq {Body!Chosen'}
    BY <1>8 DEF Settled
  <2>2. ~(phase'[d] = "body" /\ d = Body!Chosen')
    BY <1>1, <1>5
  <2>3. reply' # "echo"
    BY <1>6
  <2> QED BY <1>7, <1>11, <2>1, <2>2, <2>3 DEF Body!WholeOrHeld
<1> QED BY <1>4, <1>8, <1>9, <1>10, <1>11, <1>12, <1>13

LEMMA BodyPartsStep ==
  ASSUME BodyInv, NEW d \in Body!Dir, NEW k \in 0..1,
         \/ \E last \in BOOLEAN : Body!PassPart(d, k, last)
         \/ \E ok \in BOOLEAN : Body!LastPart(d, k, ok)
         \/ Body!Trailers(d)
  PROVE  BodyInv'
<1> USE DEF Body!config, Body!context
<1>1. bodyCame \in [Body!Dir -> 0..MaxParts] /\ bodyTotal \in [Body!Dir -> Nat]
      /\ cumulative \in BOOLEAN /\ held[d] \in Nat /\ MaxParts \in Nat
  BY BoundAssumption DEF BodyInv, Body!TypeOK
<1>2. phase[d] = "body" => d \notin edited
  BY DEF BodyInv, Streaming
<1>3. ASSUME NEW last \in BOOLEAN, Body!PassPart(d, k, last) PROVE BodyInv'
  <2>1. /\ phase[d] = "body" /\ bodyCame[d] + k <= MaxParts /\ bodyCame' = [bodyCame EXCEPT ![d] = @ + k]
        /\ Body!Goes(d, Body!Body(d, k), last) /\ d # Body!Chosen
        /\ UNCHANGED <<shouldEchoBody, cumulative, modifyResponse, bufferOperation, bodyTotal, reply,
                        length, edited>>
    BY <1>3, HoldsChosen DEF Body!PassPart, Body!Comes
  <2>2. sent[d] \o Body!Body(d, k) = Body!Whole(d)'
    BY <1>1, <2>1, BodySeen DEF Body!Whole
  <2>3. Body!Body(d, k) \in Seq(0..MaxParts)
    BY <2>1, BodySeen
  <2> QED BY <1>1, <1>2, <2>1, <2>2, <2>3, BodyGoes
<1>4. ASSUME NEW ok \in BOOLEAN, Body!LastPart(d, k, ok) PROVE BodyInv'
  <2> DEFINE b == Body!Body(d, k)
             edits == Body!Reads(d, k, ok) /\ bufferOperation # "none"
             goes == IF edits THEN Body!Edit(b) ELSE b
  <2>1. /\ phase[d] = "body" /\ bodyCame[d] + k <= MaxParts /\ bodyCame' = [bodyCame EXCEPT ![d] = @ + k]
        /\ Body!Goes(d, goes, TRUE) /\ d = Body!Chosen /\ ~shouldEchoBody
        /\ bodyTotal' = [bodyTotal EXCEPT ![d] = Body!Total(d, k)]
        /\ edited' = IF edits THEN edited \cup {d} ELSE edited
        /\ UNCHANGED <<shouldEchoBody, cumulative, modifyResponse, bufferOperation, reply, length>>
    BY <1>4, HoldsChosen DEF Body!LastPart, Body!Comes
  <2>2. /\ b = Body!Whole(d)' /\ b \in Seq(0..MaxParts) /\ sent[d] = <<>>
    BY <1>1, <2>1, BodySeen DEF Body!Whole
  <2>3. goes \in Seq(0..MaxParts)
    BY <2>2, EditType
  <2>4. Body!Total(d, k) \in Nat
    BY <1>1 DEF Body!Total, Body!BodySize
  <2>5. bodyTotal' \in [Body!Dir -> Nat] /\ \A e \in Body!Dir : e # d => bodyTotal'[e] = bodyTotal[e]
    BY <1>1, <2>1, <2>4
  <2> HIDE DEF b
  <2>6. sent[d] \o goes = goes
    BY <1>1, <2>2, <2>3, EmptyFirst
  <2>7. sent[d] \o goes = IF d \in edited' THEN Body!Edit(Body!Whole(d)') ELSE Body!Whole(d)'
    BY <1>2, <2>1, <2>2, <2>6
  <2>8. edited' = edited \/ (d = Body!Chosen /\ ~shouldEchoBody /\ bufferOperation # "none"
                              /\ edited' = edited \cup {d})
    BY <2>1
  <2> HIDE DEF goes
  <2> QED BY <2>1, <2>3, <2>5, <2>7, <2>8, BodyGoes
<1>5. CASE Body!Trailers(d)
  <2>1. /\ phase[d] = "body" /\ bodyCame' = bodyCame
        /\ Body!Goes(d, Body!Body(d, 0), TRUE)
        /\ UNCHANGED <<shouldEchoBody, cumulative, modifyResponse, bufferOperation, bodyTotal, reply,
                        length, edited>>
    BY <1>5 DEF Body!Trailers
  <2>2. ASSUME NEW j \in 0..1, j = 0 PROVE BodyInv'
    <3>1. bodyCame' = [bodyCame EXCEPT ![d] = @ + j] /\ bodyCame[d] + j <= MaxParts
      BY <1>1, <2>1, <2>2
    <3>2. /\ sent[d] \o Body!Body(d, j) = [i \in 1..(bodyCame[d] + j) |-> i]
          /\ Body!Body(d, j) \in Seq(0..MaxParts)
      BY <2>1, <3>1, BodySeen
    <3>3. sent[d] \o Body!Body(d, j) = Body!Whole(d)'
      BY <1>1, <3>1, <3>2 DEF Body!Whole
    <3>4. Body!Goes(d, Body!Body(d, j), TRUE)
      BY <2>1, <2>2
    <3> QED BY <1>1, <1>2, <2>1, <3>1, <3>2, <3>3, <3>4, BodyGoes
  <2> QED BY <2>2
<1> QED BY <1>3, <1>4, <1>5

LEMMA HoldPartStep ==
  ASSUME BodyInv, NEW d \in Body!Dir, Body!HoldPart(d)
  PROVE  BodyInv'
<1> USE DEF Body!config
<1>1. /\ bodyCame \in [Body!Dir -> 0..MaxParts] /\ bodyTotal \in [Body!Dir -> Nat]
      /\ held \in [Body!Dir -> 0..MaxParts] /\ MaxParts \in Nat /\ cumulative \in BOOLEAN
  BY BoundAssumption DEF BodyInv, Body!TypeOK
<1>2. /\ phase[d] = "body" /\ bodyCame[d] + 1 <= MaxParts /\ d = Body!Chosen
      /\ bodyCame' = [bodyCame EXCEPT ![d] = @ + 1] /\ held' = [held EXCEPT ![d] = @ + 1]
      /\ bodyTotal' = [bodyTotal EXCEPT ![d] = Body!Total(d, 1)]
      /\ UNCHANGED <<shouldEchoBody, cumulative, modifyResponse, bufferOperation, phase, reply, length,
                      sent, edited>>
  BY HoldsChosen DEF Body!HoldPart, Body!Comes
<1>3. sent[d] = <<>> /\ held[d] = bodyCame[d] /\ d \notin edited
  BY <1>2 DEF BodyInv, Streaming
<1>4. Body!Total(d, 1) \in Nat /\ (~cumulative => Body!Total(d, 1) = bodyTotal[d] + 1)
  BY <1>1 DEF Body!Total, Body!BodySize
<1>5. Body!TypeOK'
  <2>1. /\ bodyCame' \in [Body!Dir -> 0..MaxParts] /\ held' \in [Body!Dir -> 0..MaxParts]
        /\ bodyTotal' \in [Body!Dir -> Nat]
    BY <1>1, <1>2, <1>3, <1>4
  <2> QED BY <1>2, <2>1 DEF BodyInv, Body!TypeOK
<1>6. Settled' /\ Body!EditsFit'
  BY <1>2 DEF BodyInv, Settled, Body!EditsFit, Body!Chosen
<1>7. EchoTotal'
  BY <1>1, <1>2, <1>4 DEF BodyInv, EchoTotal, Body!Dir
<1>8. Streaming(d)' /\ Body!Chosen' = Body!Chosen
  BY <1>1, <1>2, <1>3 DEF Streaming, Body!Chosen
<1>9. ASSUME NEW e \in Body!Dir, e # d
      PROVE  /\ Streaming(e)'
             /\ IF phase'[e] = "body" /\ e = Body!Chosen'
                  THEN sent'[e] = <<>> /\ held'[e] = bodyCame'[e]
                  ELSE reply = "echo" \/ phase'[e] = "stopped"
                         \/ sent'[e] = IF e \in edited' THEN Body!Edit(Body!Whole(e))' ELSE Body!Whole(e)'
  <2>1. bodyCame'[e] = bodyCame[e] /\ held'[e] = held[e]
    BY <1>1, <1>2, <1>9
  <2> QED BY <1>2, <1>9, <2>1, OtherDirection
<1>10. Body!WholeOrHeld'
  <2>1. sent'[d] = <<>> /\ held'[d] = bodyCame'[d] /\ phase'[d] = "body" /\ d = Body!Chosen'
    BY <1>1, <1>2, <1>3, <1>8
  <2>2. reply' # "echo" /\ edited' \subseteq {Body!Chosen'}
    BY <1>2, <1>6 DEF BodyInv, Settled, Body!Dir
  <2> QED BY <1>2, <1>9, <2>1, <2>2 DEF Body!WholeOrHeld
<1> QED BY <1>5, <1>6, <1>7, <1>8, <1>9, <1>10 DEF BodyInv

LEMMA WholeOrNothing ==
  ASSUME NEW S, NEW b \in Seq(S)
  PROVE  SubSeq(b, 1, Len(b)) = b /\ SubSeq(b, 1, 0) = <<>>
<1>1. SubSeq(b, 1, Len(b)) = b
  BY SMT
<1>2. Len(SubSeq(b, 1, 0)) = 0 /\ SubSeq(b, 1, 0) \in Seq(S)
  BY SMT
<1> QED BY <1>1, <1>2

LEMMA LeastFirst ==
  ASSUME NEW m \in Nat, NEW n \in Nat, m <= n
  PROVE  Body!Min({m, n}) = m
<1> DEFINE S == {m, n}
<1>1. \A x \in S : (\A y \in S : x <= y) <=> x = m
  OBVIOUS
<1>2. m \in S
  OBVIOUS
<1> HIDE DEF S
<1>3. (CHOOSE x \in S : \A y \in S : x <= y) = m
  BY <1>1, <1>2
<1> QED BY <1>3 DEF Body!Min, S

LEMMA EchoStep ==
  ASSUME BodyInv, NEW k \in 0..1, NEW ok \in BOOLEAN, Body!EchoLast(k, ok)
  PROVE  BodyInv'
<1> DEFINE b == Body!Body("request", k)
           size == Body!Total("request", k)
           n == IF ok THEN Body!Min({Len(b), size}) ELSE 0
<1> USE DEF Body!Dir
<1>1. /\ bodyCame \in [Body!Dir -> 0..MaxParts] /\ bodyTotal \in [Body!Dir -> Nat]
      /\ held \in [Body!Dir -> 0..MaxParts] /\ MaxParts \in Nat /\ cumulative \in BOOLEAN
      /\ sent \in [Body!Dir -> Seq(0..MaxParts)] /\ length \in [Body!Dir -> BOOLEAN]
  BY BoundAssumption DEF BodyInv, Body!TypeOK
<1>2. /\ shouldEchoBody /\ phase["request"] = "body" /\ bodyCame["request"] + k <= MaxParts
      /\ bodyCame' = [bodyCame EXCEPT !["request"] = @ + k]
      /\ bodyTotal' = [bodyTotal EXCEPT !["request"] = size]
      /\ reply' = "echo" /\ phase' = [request |-> "stopped", response |-> "end"]
      /\ sent' = [sent EXCEPT !["response"] = SubSeq(b, 1, n)]
      /\ length' = [length EXCEPT !["response"] = TRUE]
      /\ UNCHANGED <<shouldEchoBody, cumulative, modifyResponse, bufferOperation, held, edited>>
  BY DEF Body!EchoLast, Body!Comes, Body!config
<1>3. /\ Body!Chosen = "request" /\ ~modifyResponse /\ edited = {} /\ bufferOperation = "none"
      /\ phase["response"] = "before"
  BY <1>2 DEF BodyInv, Settled, Body!Chosen
<1>4. /\ held["request"] = bodyCame["request"] /\ held["response"] = 0
      /\ bodyCame["response"] = 0
  BY <1>2, <1>3 DEF BodyInv, Streaming
<1>5. /\ b = [i \in 1..(bodyCame["request"] + k) |-> i] /\ b \in Seq(0..MaxParts)
      /\ Len(b) = bodyCame["request"] + k
  <2>1. b = [i \in 1..(bodyCame["request"] + k) |-> i] /\ b \in Seq(0..MaxParts)
    BY <1>1, <1>2, <1>3, BodySeen
  <2>2. bodyCame["request"] + k \in 0..MaxParts
    BY <1>1, <1>2
  <2> QED BY <1>1, <2>1, <2>2, PartsType
<1>6. size \in Nat /\ Len(b) <= size
  <2>1. CASE cumulative
    BY <1>1, <1>4, <1>5, <2>1 DEF Body!Total, Body!BodySize
  <2>2. CASE ~cumulative
    <3>1. bodyTotal["request"] = bodyCame["request"]
      BY <1>2, <2>2 DEF BodyInv, EchoTotal
    <3> QED BY <1>1, <1>5, <2>2, <3>1 DEF Body!Total, Body!BodySize
  <2> QED BY <1>1, <2>1, <2>2
<1>7. b = Body!Whole("request")'
  BY <1>1, <1>2, <1>5 DEF Body!Whole
<1>8. SubSeq(b, 1, n) \in {<<>>, b}
  <2>1. Len(b) \in Nat
    BY <1>1, <1>2, <1>5
  <2> HIDE DEF b, size
  <2>2. n = 0 \/ n = Len(b)
    BY <1>6, <2>1, LeastFirst
  <2> HIDE DEF n
  <2> QED BY <1>5, <2>2, WholeOrNothing
<1> HIDE DEF b, size, n
<1>9. sent'["response"] \in {<<>>, Body!Whole("request")'} /\ sent' \in [Body!Dir -> Seq(0..MaxParts)]
  <2>1. SubSeq(b, 1, n) \in Seq(0..MaxParts)
    <3>1. b \in Seq(0..MaxParts) /\ <<>> \in Seq(0..MaxParts)
      BY <1>5
    <3> QED BY <3>1, <1>8, Zenon
  <2> QED BY <1>1, <1>2, <1>7, <1>8, <2>1
<1>10. Body!TypeOK'
  <2>1. bodyCame' \in [Body!Dir -> 0..MaxParts] /\ bodyTotal' \in [Body!Dir -> Nat]
    BY <1>1, <1>2, <1>6
  <2>2. length' \in [Body!Dir -> BOOLEAN]
    BY <1>1, <1>2, Zenon
  <2>3. phase' \in [Body!Dir -> {"before", "body", "end", "stopped"}] /\ reply' = "echo"
    BY <1>2
  <2> QED BY <1>2, <1>9, <2>1, <2>2, <2>3 DEF BodyInv, Body!TypeOK
<1>11. phase'["request"] = "stopped" /\ phase'["response"] = "end"
  BY <1>2
<1>12. Settled' /\ EchoTotal' /\ Body!EditsFit'
  BY <1>2, <1>3, <1>11 DEF Settled, EchoTotal, Body!EditsFit, Body!Chosen
<1>13. \A d \in Body!Dir : Streaming(d)'
  BY <1>1, <1>2, <1>4, <1>11 DEF Streaming
<1>14. Body!WholeOrHeld'
  BY <1>2, <1>3, <1>9, <1>11 DEF Body!WholeOrHeld
<1> QED BY <1>10, <1>12, <1>13, <1>14 DEF BodyInv

LEMMA BodyStep == BodyInv /\ [Body!Next]_bodyVars => BodyInv'
<1> SUFFICES ASSUME BodyInv, [Body!Next]_bodyVars PROVE BodyInv'
  OBVIOUS
<1>1. CASE \/ \E header \in Body!Operations \cup {"other"}, inResponse \in BOOLEAN :
                Body!OnHttpRequestHeaders(header, inResponse)
            \/ Body!EchoRequestHeaders \/ Body!OnHttpResponseHeaders \/ Body!Panics
            \/ UNCHANGED bodyVars
  BY <1>1, BodyHeadersStep, Zenon
<1>2. ASSUME NEW d \in Body!Dir, NEW k \in 0..1,
             \/ \E last \in BOOLEAN : Body!PassPart(d, k, last)
             \/ \E ok \in BOOLEAN : Body!LastPart(d, k, ok)
      PROVE  BodyInv'
  BY <1>2, BodyPartsStep, Zenon
<1>3. ASSUME NEW d \in Body!Dir, Body!HoldPart(d) \/ Body!Trailers(d)
      PROVE  BodyInv'
  <2>1. 0 \in 0..1
    OBVIOUS
  <2> QED BY <1>3, <2>1, HoldPartStep, BodyPartsStep, Zenon
<1>4. ASSUME NEW k \in 0..1, NEW ok \in BOOLEAN, Body!EchoLast(k, ok)
      PROVE  BodyInv'
  BY <1>4, EchoStep, Zenon
<1> QED BY <1>1, <1>2, <1>3, <1>4, Zenon DEF Body!Next

LEMMA BodyInvariant == PluginsSpec => []BodyInv
<1>1. PluginsInit => BodyInv
  BY BodyInit DEF PluginsInit
<1>2. BodyInv /\ [PluginsNext]_<<active, vars, others>> => BodyInv'
  BY BodyStep, EachPluginSteps
<1> QED BY <1>1, <1>2, PTL DEF PluginsSpec

(* http_body/main.go:110-212: for any number of parts and any way they come, what goes on
   of a body is all of it, in order, as it came or edited; nothing of the body to be
   edited goes on before its end; and an echo is all of the request or empty. *)
THEOREM BodiesAreWhole == PluginsSpec => []WholeOrHeld
<1>1. BodyInv => WholeOrHeld
  BY DEF BodyInv, WholeOrHeld
<1> QED BY <1>1, BodyInvariant, PTL

(* http_body/main.go:80-95, 149-152: no message whose body was edited still has a
   content-length or is the plugin's own 400. *)
THEOREM EditedBodiesFit == PluginsSpec => []EditsFit
<1>1. BodyInv => EditsFit
  BY DEF BodyInv, EditsFit
<1> QED BY <1>1, BodyInvariant, PTL

-----------------------------------------------------------------------------
(* A finite set of numbers has a greatest. *)
LEMMA GreatestExists ==
  ASSUME NEW S \in SUBSET Nat, IsFiniteSet(S), S # {}
  PROVE  \E m \in S : \A x \in S : m >= x
<1> DEFINE Above(m) == {x \in S : x > m}
           T == {Above(m) : m \in S}
<1>1. T \subseteq FiniteSubsetsOf(S)
  BY FS_Subset DEF FiniteSubsetsOf
<1>2. T # {}
  OBVIOUS
<1>3. IsWellFoundedOn(StrictSubsetOrdering(S), FiniteSubsetsOf(S))
  BY FS_StrictSubsetOrderingWellFounded
<1>4. PICK A \in T : \A B \in T : ~ (<<B, A>> \in StrictSubsetOrdering(S))
  <2> HIDE DEF T
  <2> QED BY <1>1, <1>2, <1>3, WFMin
<1>5. PICK m \in S : A = Above(m)
  BY <1>4
<1>6. ASSUME NEW x \in S, ~ (m >= x) PROVE FALSE
  <2>1. Above(x) \subseteq Above(m) /\ x \in Above(m) /\ x \notin Above(x)
    <3>1. x \in Nat /\ m \in Nat /\ S \subseteq Nat
      OBVIOUS
    <3>2. x > m /\ ~ (x > x) /\ \A y \in S : y > x => y > m
      BY <1>6, <3>1
    <3> QED BY <3>2
  <2>2. <<Above(x), Above(m)>> \in StrictSubsetOrdering(S)
    BY <2>1 DEF StrictSubsetOrdering
  <2> QED BY <1>4, <1>5, <2>2
<1> QED BY <1>6

(* postpone_requests.  PausedIsQueued is inductive once a request that has not come is
   known not to be queued, so that none is queued twice. *)
NewAreUnknown ==
  \A s \in Postponed : postponeFate[s] = "new" => /\ s \notin Postpone!ToSet(postponed)
                                                 /\ resumes[s] = 0
PostponeInv == Postpone!TypeOK /\ Postpone!PausedIsQueued /\ NewAreUnknown

(* A queued request that has not gone is resumed in its own turn, and only those that
   are queued are resumed. *)
LEMMA EachTurnResumes ==
  ASSUME PostponeInv
  PROVE  \A s \in Postponed :
           /\ Postpone!Resumes(s) \in Nat
           /\ postponeFate[s] = "paused" => Postpone!Resumes(s) > 0
           /\ Postpone!Resumes(s) > 0 => /\ s \in Postpone!ToSet(postponed)
                                         /\ postponeFate[s] # "gone"
<1> USE DEF PostponeInv, Postpone!TypeOK
<1>0. Len(postponed) \in Nat /\ DOMAIN postponed = 1..Len(postponed)
  OBVIOUS
<1>1. IsFiniteSet(DOMAIN postponed)
  BY <1>0, FS_Interval
<1> SUFFICES ASSUME NEW s \in Postponed
             PROVE  /\ Postpone!Resumes(s) \in Nat
                    /\ postponeFate[s] = "paused" => Postpone!Resumes(s) > 0
                    /\ Postpone!Resumes(s) > 0 => /\ s \in Postpone!ToSet(postponed)
                                                  /\ postponeFate[s] # "gone"
  OBVIOUS
<1> DEFINE T == {i \in Postpone!Turns : Postpone!InEffect(i) # 0
                                         /\ postponed[Postpone!InEffect(i)] = s}
<1>2. IsFiniteSet(T) /\ Cardinality(T) \in Nat /\ Postpone!Resumes(s) = Cardinality(T)
  <2>1. IsFiniteSet(T)
    BY <1>1, FS_Subset DEF Postpone!Turns
  <2>2. \A S : Postpone!Cardinality(S) = Cardinality(S)
    BY Zenon DEF Postpone!Cardinality, Cardinality
  <2> QED BY <2>1, <2>2, FS_CardinalityType DEF Postpone!Resumes
<1>3. ASSUME postponeFate[s] = "paused" PROVE T # {}
  <2>1. PICK i \in DOMAIN postponed : postponed[i] = s
    BY <1>3 DEF Postpone!PausedIsQueued, Postpone!ToSet
  <2>2. i \in Postpone!Live /\ i \in Nat /\ i > 0
    BY <1>0, <1>3, <2>1 DEF Postpone!Live
  <2> DEFINE E == {j \in Postpone!Live : j <= i}
  <2>3. i \in E /\ \A j \in E : i >= j
    BY <1>0, <2>2 DEF Postpone!Live
  <2>4. E \subseteq Nat
    BY <1>0 DEF Postpone!Live
  <2>5. Postpone!Max(E) = i
    BY <2>3, <2>4 DEF Postpone!Max
  <2>6. Postpone!InEffect(i) = i
    BY <2>3, <2>5 DEF Postpone!InEffect
  <2> QED BY <2>1, <2>2, <2>6 DEF Postpone!Turns
<1>4. T = {} <=> Cardinality(T) = 0
  BY <1>2, FS_EmptySet
<1>5. ASSUME NEW i \in T
      PROVE  s \in Postpone!ToSet(postponed) /\ postponeFate[s] # "gone"
  <2> DEFINE E == {j \in Postpone!Live : j <= i}
  <2>1. E # {} /\ Postpone!InEffect(i) = Postpone!Max(E)
    BY DEF Postpone!InEffect
  <2>2. IsFiniteSet(E) /\ E \in SUBSET Nat
    BY <1>0, <1>1, FS_Subset DEF Postpone!Live
  <2>3. \E m \in E : \A x \in E : m >= x
    <3> HIDE DEF E
    <3> QED BY <2>1, <2>2, GreatestExists
  <2>4. Postpone!Max(E) \in E
    BY <2>3 DEF Postpone!Max
  <2>5. postponed[Postpone!Max(E)] = s
    BY <2>1
  <2> QED BY <2>4, <2>5 DEF Postpone!Live, Postpone!ToSet
<1> QED BY <1>2, <1>3, <1>4, <1>5

LEMMA PostponeInit == Postpone!Init => PostponeInv
BY DEF Postpone!Init, PostponeInv, NewAreUnknown, Postpone!TypeOK, Postpone!PausedIsQueued,
       Postpone!IsInjective, Postpone!ToSet

LEMMA PostponeStep == PostponeInv /\ [Postpone!Next]_postponeVars => PostponeInv'
<1> SUFFICES ASSUME PostponeInv, [Postpone!Next]_postponeVars PROVE PostponeInv'
  OBVIOUS
<1> USE DEF PostponeInv, NewAreUnknown, Postpone!TypeOK, Postpone!PausedIsQueued,
            Postpone!IsInjective, Postpone!ToSet
<1>1. CASE Postpone!OnPluginStart
  BY <1>1 DEF Postpone!OnPluginStart, Postpone!AnyStart
<1>2. ASSUME NEW s \in Postponed, Postpone!OnHttpRequestHeaders(s) PROVE PostponeInv'
  <2> DEFINE n == Len(postponed)
  <2>1. /\ n \in Nat /\ DOMAIN postponed = 1..n /\ \A i \in 1..n : postponed[i] \in Postponed
        /\ DOMAIN postponed' = 1..n+1 /\ postponed' \in Seq(Postponed)
        /\ postponed'[n+1] = s /\ \A i \in 1..n : postponed'[i] = postponed[i]
    BY <1>2 DEF Postpone!OnHttpRequestHeaders
  <2>2. /\ postponeFate' = [postponeFate EXCEPT ![s] = "paused"] /\ postponeFate[s] = "new"
        /\ UNCHANGED <<postponePlugin, resumes>>
    BY <1>2 DEF Postpone!OnHttpRequestHeaders
  <2> HIDE DEF n
  <2>3. \A i \in 1..n : postponed[i] # s
    BY <2>1, <2>2
  <2>4. Postpone!IsInjective(postponed)'
    BY <2>1, <2>3, SMTT(30)
  <2>5. ASSUME NEW r \in Postponed
        PROVE  /\ postponeFate'[r] = "paused" => r \in {postponed'[i] : i \in 1..n+1}
               /\ postponeFate'[r] = "paused" => resumes'[r] = 0
               /\ postponeFate'[r] = "continued" => r \notin {postponed'[i] : i \in 1..n+1}
               /\ postponeFate'[r] = "continued" => resumes'[r] > 0
    <3>1. CASE r = s
      BY <2>1, <2>2, <3>1
    <3>2. CASE r # s
      <4>1. r \in {postponed'[i] : i \in 1..n+1} <=> r \in {postponed[i] : i \in 1..n}
        BY <2>1, <3>2
      <4> QED BY <2>1, <2>2, <3>2, <4>1
    <3> QED BY <3>1, <3>2
  <2>6. Postpone!PausedIsQueued' /\ Postpone!TypeOK'
    BY <2>1, <2>2, <2>4, <2>5
  <2>7. NewAreUnknown'
    <3> SUFFICES ASSUME NEW r \in Postponed, postponeFate'[r] = "new"
                 PROVE  r \notin {postponed'[i] : i \in 1..n+1} /\ resumes'[r] = 0
      BY <2>1
    <3>1. r # s /\ postponeFate[r] = "new"
      BY <2>2
    <3>2. r \in {postponed'[i] : i \in 1..n+1} <=> r \in {postponed[i] : i \in 1..n}
      BY <2>1, <3>1
    <3> QED BY <2>1, <2>2, <3>1, <3>2
  <2> QED BY <2>6, <2>7
<1>3. CASE Postpone!OnTick
  <2> USE <1>3 DEF Postpone!OnTick
  <2>1. Postpone!TypeOK'
    BY EachTurnResumes
  <2>3. NewAreUnknown'
    BY EachTurnResumes
  <2>2. \A s \in Postponed : /\ postponeFate'[s] # "paused"
                             /\ postponeFate'[s] = "continued" => resumes'[s] > 0
    BY EachTurnResumes
  <2> QED BY <2>1, <2>2, <2>3
<1>4. ASSUME NEW s \in Postponed, Postpone!StreamGone(s) PROVE PostponeInv'
  BY <1>4 DEF Postpone!StreamGone
<1>5. CASE UNCHANGED postponeVars
  BY <1>5 DEF postponeVars
<1> QED BY <1>1, <1>2, <1>3, <1>4, <1>5 DEF Postpone!Next

LEMMA PostponeInvariant == PluginsSpec => []PostponeInv
<1>1. PluginsInit => PostponeInv
  BY PostponeInit DEF PluginsInit
<1>2. PostponeInv /\ [PluginsNext]_<<active, vars, others>> => PostponeInv'
  BY PostponeStep, EachPluginSteps
<1> QED BY <1>1, <1>2, PTL DEF PluginsSpec

LEMMA PostponePausedStep ==
  PostponeInv /\ [Postpone!Next]_postponeVars
    => [Postpone!Paused!Next]_<<postponeFate, IF postponePlugin = "silent" THEN Postponed ELSE {}>>
<1> DEFINE lostTo == IF postponePlugin = "silent" THEN Postponed ELSE {}
<1> SUFFICES ASSUME PostponeInv, [Postpone!Next]_postponeVars
             PROVE  Postpone!Paused!Next \/ UNCHANGED <<postponeFate, lostTo>>
  OBVIOUS
<1> USE DEF PostponeInv, Postpone!TypeOK, Postpone!Paused!Become
<1>1. CASE Postpone!OnPluginStart
  <2>1. Postpone!Paused!Lose
    BY <1>1 DEF Postpone!OnPluginStart, Postpone!AnyStart, Postpone!Paused!Lose
  <2> QED BY <2>1 DEF Postpone!Paused!Next
<1>2. ASSUME NEW s \in Postponed, Postpone!OnHttpRequestHeaders(s)
      PROVE  Postpone!Paused!Pause(s)
  BY <1>2 DEF Postpone!OnHttpRequestHeaders, Postpone!Paused!Pause
<1>3. CASE Postpone!OnTick
  <2> DEFINE S == {s \in Postponed : postponeFate[s] = "paused" /\ Postpone!Resumes(s) > 0}
  <2>1. S \in SUBSET {s \in Postponed \ lostTo : postponeFate[s] = "paused"}
    BY <1>3 DEF Postpone!OnTick
  <2>2. postponeFate' = [s \in Postponed |-> IF s \in S THEN "continued" ELSE postponeFate[s]]
    BY <1>3 DEF Postpone!OnTick
  <2>3. UNCHANGED lostTo
    BY <1>3 DEF Postpone!OnTick
  <2>4. Postpone!Paused!Continue
    <3> HIDE DEF S
    <3> QED BY <2>1, <2>2, <2>3 DEF Postpone!Paused!Continue
  <2> QED BY <2>4 DEF Postpone!Paused!Next
<1>4. ASSUME NEW s \in Postponed, Postpone!StreamGone(s)
      PROVE  Postpone!Paused!Leave(s)
  BY <1>4 DEF Postpone!StreamGone, Postpone!Paused!Leave
<1>5. CASE UNCHANGED postponeVars
  BY <1>5 DEF postponeVars
<1> QED BY <1>1, <1>2, <1>3, <1>4, <1>5 DEF Postpone!Next, Postpone!Paused!Next

(* postpone_requests/main.go:60-91: every step of the plugin is a step of PausedStreams
   or none: no request goes on twice, after it has gone, or without a tick. *)
THEOREM PostponePausedImplemented ==
  PluginsSpec => /\ Postpone!Paused!Init
                 /\ [][Postpone!Paused!Next]_<<postponeFate,
                          IF postponePlugin = "silent" THEN Postponed ELSE {}>>
<1>1. PluginsInit => Postpone!Paused!Init
  BY DEF PluginsInit, Postpone!Init, Postpone!Paused!Init
<1>2. PostponeInv /\ [PluginsNext]_<<active, vars, others>>
        => [Postpone!Paused!Next]_<<postponeFate,
               IF postponePlugin = "silent" THEN Postponed ELSE {}>>
  BY PostponePausedStep, EachPluginSteps
<1> QED BY <1>1, <1>2, PostponeInvariant, PTL DEF PluginsSpec

-----------------------------------------------------------------------------
(* metrics and network.  CountersAreExact is inductive once it is known which counter
   each VM's ids stand for, and that a VM that increments one has its id. *)
Name == Metrics!Name
Waiting(n) == SumFunctionOnSet([v \in VM |-> Metrics!Uncounted(v, n)], VM)

CounterTypes ==
  /\ names \in Seq(Name) /\ count \in Seq(Nat) /\ Len(count) = Len(names)
  /\ counterId \in [VM -> [Name -> 0..Len(names)]] /\ at \in [VM -> Name]
  /\ pc \in [VM -> {"new", "idle", "define", "increment", "stopped"}]
  /\ open \in [VM -> Nat] /\ begun \in [Name -> Nat]
  /\ SumFunctionOnSet(begun, Name) <= MaxWork
CounterIds ==
  /\ \A i, j \in DOMAIN names : names[i] = names[j] => i = j
  /\ \A v \in VM, n \in Name : counterId[v][n] # 0 => names[counterId[v][n]] = n
  /\ \A v \in VM : pc[v] = "increment" => counterId[v][at[v]] # 0
Connected ==
  /\ \A v \in VM \cap Network :
       /\ at[v] = Connections
       /\ pc[v] \in {"new", "define"} => open[v] = 0 /\ counterId[v][Connections] = 0
       /\ pc[v] \in {"idle", "increment"} => counterId[v][Connections] # 0
  /\ \A v \in VM \ Network : pc[v] # "new" /\ open[v] = 0
Exact == \A n \in Name : Metrics!Counted(n) + Waiting(n) = begun[n]
MetricsInv == CounterTypes /\ CounterIds /\ Connected /\ Exact

LEMMA MetricsSums ==
  /\ \A f : Metrics!SumFunction(f) = SumFunctionOnSet(f, DOMAIN f)
  /\ \A f : Postpone!SumFunction(f) = SumFunctionOnSet(f, DOMAIN f)
BY Zenon DEF Metrics!SumFunction, Metrics!SumFunctionOnSet, Metrics!FoldFunctionOnSet,
             Metrics!MapThenFoldSet, Postpone!SumFunction, Postpone!SumFunctionOnSet,
             Postpone!FoldFunctionOnSet, Postpone!MapThenFoldSet,
             SumFunctionOnSet, FoldFunctionOnSet, MapThenFoldSet

LEMMA ExactMeansExact == Exact <=> CountersAreExact
<1>1. \A n : Metrics!SumFunction([v \in VM |-> Metrics!Uncounted(v, n)]) = Waiting(n)
  <2> SUFFICES ASSUME NEW n
               PROVE  Metrics!SumFunction([v \in VM |-> Metrics!Uncounted(v, n)]) = Waiting(n)
    OBVIOUS
  <2> DEFINE f == [v \in VM |-> Metrics!Uncounted(v, n)]
  <2>1. DOMAIN f = VM
    OBVIOUS
  <2> HIDE DEF f
  <2>2. Metrics!SumFunction(f) = SumFunctionOnSet(f, VM)
    BY <2>1, MetricsSums
  <2> QED BY <2>2 DEF Waiting, f
<1> QED BY <1>1 DEF Exact, CountersAreExact, Metrics!CountersAreExact, Name

(* The number that SelectInSeq finds in a sequence without repetitions. *)
Position(s, n) == Metrics!SelectInSeq(s, LAMBDA m : m = n)
LEMMA PositionOf ==
  ASSUME NEW s \in Seq(Name), \A i, j \in DOMAIN s : s[i] = s[j] => i = j, NEW n
  PROVE  /\ \A i \in DOMAIN s : s[i] = n => Position(s, n) = i
         /\ (\A i \in DOMAIN s : s[i] # n) => Position(s, n) = 0
<1> DEFINE I == {i \in 1..Len(s) : s[i] = n}
<1>1. Position(s, n) = IF I # {} THEN Metrics!Min(I) ELSE 0
  BY DEF Position, Metrics!SelectInSeq
<1>2. DOMAIN s = 1..Len(s) /\ Len(s) \in Nat
  OBVIOUS
<1>3. ASSUME NEW i \in DOMAIN s, s[i] = n PROVE Metrics!Min(I) = i /\ I # {}
  <2>1. I = {i}
    BY <1>2, <1>3
  <2>2. i \in Nat
    BY <1>2
  <2> QED BY <2>1, <2>2 DEF Metrics!Min
<1>4. (\A i \in DOMAIN s : s[i] # n) => I = {}
  BY <1>2
<1> QED BY <1>1, <1>3, <1>4

LEMMA CountedFound ==
  /\ \A n : Metrics!Counted(n) = IF Position(names, n) = 0 THEN 0 ELSE count[Position(names, n)]
  /\ \A n : Metrics!Counted(n)' = IF Position(names', n) = 0 THEN 0
                                 ELSE count'[Position(names', n)]
<1>1. \A n : Metrics!Counted(n) = IF Position(names, n) = 0 THEN 0 ELSE count[Position(names, n)]
  BY DEF Metrics!Counted, Position
<1>2. \A n : Metrics!Counted(n)' = IF Position(names', n) = 0 THEN 0
                                 ELSE count'[Position(names', n)]
  BY DEF Metrics!Counted, Position, Metrics!SelectInSeq
<1> QED BY <1>1, <1>2

LEMMA CountedIs ==
  ASSUME CounterTypes, CounterIds, NEW n \in Name
  PROVE  /\ \A i \in 1..Len(names) : names[i] = n => Metrics!Counted(n) = count[i]
         /\ (\A i \in 1..Len(names) : names[i] # n) => Metrics!Counted(n) = 0
         /\ Metrics!Counted(n) \in Nat
<1>1. DOMAIN names = 1..Len(names) /\ Len(names) \in Nat /\ names \in Seq(Name)
      /\ \A i \in 1..Len(names) : count[i] \in Nat
  BY DEF CounterTypes
<1>2. /\ \A i \in 1..Len(names) : names[i] = n => Metrics!Counted(n) = count[i]
      /\ (\A i \in 1..Len(names) : names[i] # n) => Metrics!Counted(n) = 0
  <2> DEFINE p == Position(names, n)
  <2>1. Metrics!Counted(n) = IF p = 0 THEN 0 ELSE count[p]
    BY CountedFound
  <2>2. /\ \A i \in 1..Len(names) : names[i] = n => p = i
        /\ (\A i \in 1..Len(names) : names[i] # n) => p = 0
    BY <1>1, PositionOf DEF CounterIds
  <2> HIDE DEF p
  <2> QED BY <1>1, <2>1, <2>2
<1> QED BY <1>1, <1>2

(* What a step of one VM changes of what is waiting to be counted, and that there is
   no more of it, nor more counted, than has begun. *)
LEMMA NamesFinite == IsFiniteSet(VM) /\ IsFiniteSet(Name)
BY FiniteAssumption, FS_AddElement DEF Name, Metrics!Name

LEMMA UncountedType ==
  ASSUME CounterTypes
  PROVE  \A v \in VM, n \in Name : Metrics!Uncounted(v, n) \in Nat
BY DEF CounterTypes, Metrics!Uncounted

LEMMA WaitingType ==
  ASSUME CounterTypes, NEW n \in Name
  PROVE  /\ Waiting(n) \in Nat
         /\ \A v \in VM : Metrics!Uncounted(v, n) <= Waiting(n)
<1> DEFINE f == [v \in VM |-> Metrics!Uncounted(v, n)]
<1>1. \A v \in VM : f[v] = Metrics!Uncounted(v, n) /\ f[v] \in Nat
  BY UncountedType
<1>2. Waiting(n) = SumFunctionOnSet(f, VM)
  BY DEF Waiting
<1> HIDE DEF f
<1>3. Waiting(n) \in Nat
  BY <1>1, <1>2, NamesFinite, SumType
<1>4. ASSUME NEW v \in VM PROVE f[v] <= Waiting(n)
  BY <1>1, <1>2, NamesFinite, SumAtLeast
<1> QED BY <1>1, <1>3, <1>4

LEMMA BegunBound ==
  ASSUME CounterTypes
  PROVE  \A n \in Name : begun[n] \in 0..MaxWork
<1> SUFFICES ASSUME NEW n \in Name PROVE begun[n] \in 0..MaxWork
  OBVIOUS
<1>1. (\A m \in Name : begun[m] \in Nat) /\ SumFunctionOnSet(begun, Name) <= MaxWork
  BY DEF CounterTypes
<1>2. begun[n] <= SumFunctionOnSet(begun, Name) /\ SumFunctionOnSet(begun, Name) \in Nat
  BY <1>1, NamesFinite, SumAtLeast, SumType
<1> QED BY <1>1, <1>2, FiniteAssumption

LEMMA WaitingChange ==
  ASSUME CounterTypes, CounterTypes', NEW v \in VM, NEW n \in Name,
         \A w \in VM \ {v} : Metrics!Uncounted(w, n)' = Metrics!Uncounted(w, n)
  PROVE  Waiting(n)' + Metrics!Uncounted(v, n) = Waiting(n) + Metrics!Uncounted(v, n)'
<1> DEFINE f == [w \in VM |-> Metrics!Uncounted(w, n)]
           g == [w \in VM |-> Metrics!Uncounted(w, n)']
<1>1. \A w \in VM : /\ f[w] = Metrics!Uncounted(w, n) /\ f[w] \in Nat
                    /\ g[w] = Metrics!Uncounted(w, n)' /\ g[w] \in Nat
  <2>1. \A w \in VM : Metrics!Uncounted(w, n)' \in Nat
    <3>1. \A w \in VM : open'[w] \in Nat
      BY DEF CounterTypes
    <3> QED BY <3>1 DEF Metrics!Uncounted
  <2> QED BY <2>1, UncountedType
<1>2. Waiting(n) = SumFunctionOnSet(f, VM) /\ Waiting(n)' = SumFunctionOnSet(g, VM)
  BY DEF Waiting
<1> HIDE DEF f, g
<1>3. SumFunctionOnSet(g, VM) + f[v] = SumFunctionOnSet(f, VM) + g[v]
  <2>1. \A w \in VM \ {v} : f[w] = g[w]
    BY <1>1
  <2> QED BY <1>1, <2>1, NamesFinite, SumChange
<1> QED BY <1>1, <1>2, <1>3

LEMMA MetricsInit == Metrics!Init => MetricsInv
<1> SUFFICES ASSUME Metrics!Init PROVE MetricsInv
  OBVIOUS
<1> USE DEF Metrics!Init
<1>1. SumFunctionOnSet(begun, Name) = 0
  <2>1. \A S : IsFiniteSet(S) /\ S \subseteq Name => SumFunctionOnSet(begun, S) = 0
    <3>1. \A n \in Name : begun[n] = 0
      BY DEF Name
    <3> QED BY <3>1, SumZero
  <2> QED BY <2>1, NamesFinite
<1>2. CounterTypes
  BY <1>1, FiniteAssumption DEF CounterTypes, Name, Metrics!Name
<1>3. CounterIds /\ Connected
  BY DEF CounterIds, Connected, Name, Metrics!Name
<1>4. ASSUME NEW n \in Name PROVE Metrics!Counted(n) = 0 /\ Waiting(n) = 0 /\ begun[n] = 0
  <2>1. Metrics!Counted(n) = 0
    BY <1>2, <1>3, <1>4, CountedIs
  <2> DEFINE f == [v \in VM |-> Metrics!Uncounted(v, n)]
  <2>2. \A v \in VM : f[v] = 0
    BY DEF Metrics!Uncounted
  <2>3. SumFunctionOnSet(f, VM) = 0
    <3> HIDE DEF f
    <3> QED BY <2>2, SumZero, NamesFinite
  <2> QED BY <1>4, <2>1, <2>3 DEF Waiting, Name
<1>5. Exact
  BY <1>4 DEF Exact
<1> QED BY <1>2, <1>3, <1>5 DEF MetricsInv

LEMMA Balance ==
  \A c, w, b, u, w2, b2, u2 \in Nat :
    c + w = b /\ w2 + u = w + u2 /\ b2 + u = b + u2 => c + w2 = b2
OBVIOUS

(* Exact is kept by a step that leaves the counters as they are, if as much begins as
   the VM has to count after it. *)
LEMMA ExactWithoutCounting ==
  ASSUME MetricsInv, CounterTypes', NEW v \in VM, UNCHANGED <<names, count, counterId>>,
         \A w \in VM \ {v} : at'[w] = at[w] /\ pc'[w] = pc[w] /\ open'[w] = open[w],
         \A n \in Name : begun'[n] + Metrics!Uncounted(v, n)
                           = begun[n] + Metrics!Uncounted(v, n)'
  PROVE  Exact'
<1> SUFFICES ASSUME NEW n \in Name PROVE Metrics!Counted(n)' + Waiting(n)' = begun'[n]
  BY DEF Exact, Name, Metrics!Name
<1>1. Metrics!Counted(n)' = Metrics!Counted(n)
  BY CountedFound
<1>2. \A w \in VM \ {v} : Metrics!Uncounted(w, n)' = Metrics!Uncounted(w, n)
  BY DEF Metrics!Uncounted
<1>3. Waiting(n)' + Metrics!Uncounted(v, n) = Waiting(n) + Metrics!Uncounted(v, n)'
  BY <1>2, WaitingChange DEF MetricsInv
<1>4. Metrics!Counted(n) + Waiting(n) = begun[n]
  BY DEF MetricsInv, Exact
<1>5. /\ Metrics!Counted(n) \in Nat /\ Waiting(n) \in Nat /\ Metrics!Uncounted(v, n) \in Nat
      /\ begun[n] \in Nat
  BY CountedIs, WaitingType, UncountedType DEF MetricsInv, CounterTypes
<1>6. Metrics!Uncounted(v, n)' \in Nat /\ Waiting(n)' \in Nat /\ begun'[n] \in Nat
  <2>1. Metrics!Uncounted(v, n)' \in Nat
    <3>1. open'[v] \in Nat
      BY DEF CounterTypes
    <3> QED BY <3>1 DEF Metrics!Uncounted
  <2>2. begun'[n] \in Nat
    BY DEF CounterTypes
  <2> DEFINE g == [w \in VM |-> Metrics!Uncounted(w, n)']
  <2>3. \A w \in VM : g[w] \in Nat
    <3>1. \A w \in VM : open'[w] \in Nat
      BY DEF CounterTypes
    <3> QED BY <3>1 DEF Metrics!Uncounted
  <2>4. SumFunctionOnSet(g, VM) \in Nat
    <3> HIDE DEF g
    <3> QED BY <2>3, NamesFinite, SumType
  <2> QED BY <2>1, <2>2, <2>4 DEF Waiting
<1>7. begun'[n] + Metrics!Uncounted(v, n) = begun[n] + Metrics!Uncounted(v, n)'
  OBVIOUS
<1> QED BY <1>1, <1>3, <1>4, <1>5, <1>6, <1>7, Balance

(* What begins, as long as there is to begin. *)
LEMMA BeginsStep ==
  ASSUME CounterTypes, NEW x \in Name, Metrics!Begins(x)
  PROVE  /\ begun' = [begun EXCEPT ![x] = @ + 1] /\ begun' \in [Name -> Nat]
         /\ SumFunctionOnSet(begun', Name) <= MaxWork
<1>1. begun' = [begun EXCEPT ![x] = @ + 1] /\ begun \in [Name -> Nat]
  BY DEF Metrics!Begins, CounterTypes
<1>2. begun' \in [Name -> Nat] /\ begun'[x] = begun[x] + 1 /\ begun[x] \in Nat
  BY <1>1
<1>3. Metrics!SumFunction(begun) = SumFunctionOnSet(begun, Name)
  BY <1>1, MetricsSums
<1>4. SumFunctionOnSet(begun, Name) < MaxWork
  BY <1>3 DEF Metrics!Begins
<1>5. SumFunctionOnSet(begun', Name) + begun[x] = SumFunctionOnSet(begun, Name) + begun'[x]
  <2>1. \A m \in Name : begun[m] \in Nat /\ begun'[m] \in Nat
    BY <1>1, <1>2
  <2>2. \A m \in Name \ {x} : begun[m] = begun'[m]
    BY <1>1
  <2> QED BY <2>1, <2>2, NamesFinite, SumChange
<1>6. SumFunctionOnSet(begun, Name) \in Nat /\ SumFunctionOnSet(begun', Name) \in Nat
  <2>1. \A m \in Name : begun[m] \in Nat /\ begun'[m] \in Nat
    BY <1>1, <1>2
  <2> QED BY <2>1, NamesFinite, SumType
<1> QED BY <1>1, <1>2, <1>4, <1>5, <1>6, FiniteAssumption

LEMMA RequestStep ==
  ASSUME MetricsInv, NEW v \in VM, NEW x \in Value, Metrics!OnHttpRequestHeaders(v, x)
  PROVE  MetricsInv'
<1>1. /\ v \notin Network /\ pc[v] = "idle" /\ at' = [at EXCEPT ![v] = x]
      /\ pc' = [pc EXCEPT ![v] = IF counterId[v][x] = 0 THEN "define" ELSE "increment"]
      /\ UNCHANGED <<names, count, counterId, open>> /\ x \in Name
  BY DEF Metrics!OnHttpRequestHeaders, Metrics!Goto, Metrics!host, Name, Metrics!Name
<1>2. CounterTypes'
  BY <1>1, BeginsStep DEF MetricsInv, CounterTypes, Metrics!OnHttpRequestHeaders
<1>3. CounterIds' /\ Connected'
  BY <1>1 DEF MetricsInv, CounterTypes, CounterIds, Connected
<1>4. ASSUME NEW n \in Name
      PROVE  begun'[n] + Metrics!Uncounted(v, n) = begun[n] + Metrics!Uncounted(v, n)'
  <2>1. /\ Metrics!Uncounted(v, n) = 0
        /\ Metrics!Uncounted(v, n)' = IF n = x THEN 1 ELSE 0
    BY <1>1 DEF Metrics!Uncounted, MetricsInv, CounterTypes, Connected
  <2>2. begun'[n] = (IF n = x THEN begun[n] + 1 ELSE begun[n]) /\ begun[n] \in Nat
    BY <1>1, BeginsStep DEF MetricsInv, CounterTypes, Metrics!OnHttpRequestHeaders
  <2> QED BY <2>1, <2>2
<1>5. Exact'
  <2>1. \A w \in VM \ {v} : at'[w] = at[w] /\ pc'[w] = pc[w] /\ open'[w] = open[w]
    BY <1>1 DEF MetricsInv, CounterTypes
  <2> QED BY <1>1, <1>2, <1>4, <2>1, ExactWithoutCounting
<1> QED BY <1>2, <1>3, <1>5 DEF MetricsInv

LEMMA CallbackStep ==
  ASSUME MetricsInv, NEW v \in VM, Metrics!NewPluginContext(v) \/ Metrics!Panics(v)
  PROVE  MetricsInv'
<1>1. /\ pc[v] \in {"new", "define", "increment"}
      /\ pc[v] = "new" => pc' = [pc EXCEPT ![v] = "define"]
      /\ pc[v] # "new" => pc' = [pc EXCEPT ![v] = "stopped"]
      /\ UNCHANGED <<names, count, counterId, at, open, begun>>
  BY DEF Metrics!NewPluginContext, Metrics!Panics, Metrics!Goto, Metrics!host
<1>2. CounterTypes'
  BY <1>1 DEF MetricsInv, CounterTypes
<1>3. CounterIds' /\ Connected'
  BY <1>1 DEF MetricsInv, CounterTypes, CounterIds, Connected
<1>4. ASSUME NEW n \in Name
      PROVE  begun'[n] + Metrics!Uncounted(v, n) = begun[n] + Metrics!Uncounted(v, n)'
  <2>1. Metrics!Uncounted(v, n)' = Metrics!Uncounted(v, n)
    BY <1>1 DEF Metrics!Uncounted, MetricsInv, CounterTypes, CounterIds, Connected
  <2> QED BY <1>1, <2>1
<1>5. Exact'
  <2>1. \A w \in VM \ {v} : at'[w] = at[w] /\ pc'[w] = pc[w] /\ open'[w] = open[w]
    BY <1>1 DEF MetricsInv, CounterTypes
  <2> QED BY <1>1, <1>2, <1>4, <2>1, ExactWithoutCounting
<1> QED BY <1>2, <1>3, <1>5 DEF MetricsInv

LEMMA NewConnectionStep ==
  ASSUME MetricsInv, NEW v \in VM, Metrics!OnNewConnection(v)
  PROVE  MetricsInv'
<1>1. /\ v \in Network /\ pc[v] = "idle" /\ open' = [open EXCEPT ![v] = @ + 1]
      /\ UNCHANGED <<names, count, counterId, pc, at>> /\ Connections \in Name
      /\ open[v] \in Nat
  BY DEF Metrics!OnNewConnection, Metrics!host, Name, Metrics!Name, MetricsInv, CounterTypes
<1>2. CounterTypes'
  <2>1. begun' \in [Name -> Nat] /\ SumFunctionOnSet(begun', Name) <= MaxWork
    BY <1>1, BeginsStep DEF MetricsInv, Metrics!OnNewConnection
  <2>2. open' \in [VM -> Nat]
    BY <1>1 DEF MetricsInv, CounterTypes
  <2> QED BY <1>1, <2>1, <2>2 DEF MetricsInv, CounterTypes
<1>3. CounterIds' /\ Connected'
  BY <1>1 DEF MetricsInv, CounterTypes, CounterIds, Connected
<1>4. ASSUME NEW n \in Name
      PROVE  begun'[n] + Metrics!Uncounted(v, n) = begun[n] + Metrics!Uncounted(v, n)'
  <2>1. /\ Metrics!Uncounted(v, n) = IF n = Connections THEN open[v] ELSE 0
        /\ Metrics!Uncounted(v, n)' = IF n = Connections THEN open[v] + 1 ELSE 0
    BY <1>1 DEF Metrics!Uncounted, MetricsInv, CounterTypes
  <2>2. /\ begun'[n] = (IF n = Connections THEN begun[n] + 1 ELSE begun[n])
        /\ begun[n] \in Nat
    BY <1>1, BeginsStep DEF MetricsInv, CounterTypes, Metrics!OnNewConnection
  <2> QED BY <1>1, <2>1, <2>2
<1>5. Exact'
  <2>1. \A w \in VM \ {v} : at'[w] = at[w] /\ pc'[w] = pc[w] /\ open'[w] = open[w]
    BY <1>1 DEF MetricsInv, CounterTypes
  <2> QED BY <1>1, <1>2, <1>4, <2>1, ExactWithoutCounting
<1> QED BY <1>2, <1>3, <1>5 DEF MetricsInv

LEMMA StreamDoneStep ==
  ASSUME MetricsInv, NEW v \in VM, Metrics!OnStreamDone(v)
  PROVE  MetricsInv'
<1>1. /\ pc[v] = "idle" /\ open[v] > 0 /\ open' = [open EXCEPT ![v] = @ - 1]
      /\ pc' = [pc EXCEPT ![v] = "increment"] /\ open[v] \in Nat
      /\ UNCHANGED <<names, count, counterId, at, begun>> 
  BY DEF Metrics!OnStreamDone, Metrics!Goto, Metrics!host, MetricsInv, CounterTypes
<1>2. v \in Network /\ at[v] = Connections /\ counterId[v][Connections] # 0
  BY <1>1 DEF MetricsInv, Connected
<1>3. CounterTypes'
  BY <1>1 DEF MetricsInv, CounterTypes
<1>4. CounterIds' /\ Connected'
  BY <1>1, <1>2 DEF MetricsInv, CounterTypes, CounterIds, Connected
<1>5. ASSUME NEW n \in Name
      PROVE  begun'[n] + Metrics!Uncounted(v, n) = begun[n] + Metrics!Uncounted(v, n)'
  <2>1. /\ Metrics!Uncounted(v, n) = IF n = Connections THEN open[v] ELSE 0
        /\ Metrics!Uncounted(v, n)' = IF n = Connections THEN open[v] ELSE 0
    BY <1>1, <1>2 DEF Metrics!Uncounted, MetricsInv, CounterTypes
  <2> QED BY <1>1, <2>1
<1>6. Exact'
  <2>1. \A w \in VM \ {v} : at'[w] = at[w] /\ pc'[w] = pc[w] /\ open'[w] = open[w]
    BY <1>1 DEF MetricsInv, CounterTypes
  <2> QED BY <1>1, <1>3, <1>5, <2>1, ExactWithoutCounting
<1> QED BY <1>3, <1>4, <1>6 DEF MetricsInv

(* Defining a counter keeps what was counted, under each name. *)
LEMMA DefineStep ==
  ASSUME MetricsInv, NEW v \in VM, Metrics!DefineCounter(v)
  PROVE  MetricsInv'
<1> DEFINE n == at[v]
           known == \E i \in DOMAIN names : names[i] = n
           j == CHOOSE i \in DOMAIN names' : names'[i] = n
<1>1. /\ pc[v] = "define"
      /\ names' = IF known THEN names ELSE Append(names, n)
      /\ count' = IF known THEN count ELSE Append(count, 0)
      /\ counterId' = [counterId EXCEPT ![v][n] = j]
      /\ pc' = [pc EXCEPT ![v] = IF v \in Network THEN "idle" ELSE "increment"]
      /\ UNCHANGED <<at, open, begun>>
  BY DEF Metrics!DefineCounter, Metrics!MetricName, Metrics!Goto
<1>2. /\ names \in Seq(Name) /\ count \in Seq(Nat) /\ Len(count) = Len(names) /\ n \in Name
      /\ Len(names) \in Nat /\ DOMAIN names = 1..Len(names)
      /\ counterId \in [VM -> [Name -> 0..Len(names)]]
      /\ \A a, b \in DOMAIN names : names[a] = names[b] => a = b
  BY DEF MetricsInv, CounterTypes, CounterIds
<1>3. /\ names' \in Seq(Name) /\ count' \in Seq(Nat) /\ Len(count') = Len(names')
      /\ Len(names') \in Nat /\ Len(names) <= Len(names') /\ DOMAIN names' = 1..Len(names')
      /\ \A i \in 1..Len(names) : names'[i] = names[i] /\ count'[i] = count[i]
      /\ \A i \in 1..Len(names') : i \notin 1..Len(names) => names'[i] = n /\ count'[i] = 0 /\ ~known
      /\ \E i \in DOMAIN names' : names'[i] = n
  <2>1. CASE known
    BY <1>1, <1>2, <2>1
  <2>2. CASE ~known
    <3> HIDE DEF n, j
    <3>1. names' = Append(names, n) /\ count' = Append(count, 0)
      BY <1>1, <2>2
    <3>2. /\ names' \in Seq(Name) /\ count' \in Seq(Nat) /\ Len(names') = Len(names) + 1
          /\ Len(count') = Len(names) + 1 /\ DOMAIN names' = 1..(Len(names) + 1)
          /\ names'[Len(names) + 1] = n /\ count'[Len(names) + 1] = 0
          /\ \A i \in 1..Len(names) : names'[i] = names[i] /\ count'[i] = count[i]
      BY <1>2, <3>1
    <3>3. \A i \in 1..(Len(names) + 1) : i \notin 1..Len(names) => i = Len(names) + 1
      BY <1>2
    <3>4. Len(names) + 1 \in 1..(Len(names) + 1)
      BY <1>2
    <3> HIDE DEF known
    <3> QED BY <1>2, <2>2, <3>2, <3>3, <3>4
  <2> QED BY <2>1, <2>2
<1>4. j \in 1..Len(names') /\ names'[j] = n /\ j # 0
  BY <1>3
<1>5. \A a, b \in DOMAIN names' : names'[a] = names'[b] => a = b
  <2>1. \A a, b \in 1..Len(names') : a \notin 1..Len(names) /\ b \notin 1..Len(names) => a = b
    BY <1>1, <1>2, <1>3
  <2> QED BY <1>2, <1>3, <2>1
<1> HIDE DEF j
<1>6. counterId' \in [VM -> [Name -> 0..Len(names')]]
  <2>1. \A k \in 0..Len(names) : k \in 0..Len(names')
    BY <1>2, <1>3
  <2>2. j \in 0..Len(names')
    BY <1>3, <1>4
  <2>3. \A w \in VM : counterId[w] \in [Name -> 0..Len(names')]
    BY <1>2, <2>1
  <2>4. [counterId[v] EXCEPT ![n] = j] \in [Name -> 0..Len(names')]
    BY <1>2, <2>2, <2>3
  <2>5. counterId' = [counterId EXCEPT ![v] = [counterId[v] EXCEPT ![n] = j]]
    BY <1>1
  <2> QED BY <1>2, <2>3, <2>4, <2>5
<1>7. CounterTypes'
  BY <1>1, <1>2, <1>3, <1>6 DEF MetricsInv, CounterTypes
<1>8. CounterIds'
  <2>1. \A w \in VM, m \in Name : counterId'[w][m] # 0 => names'[counterId'[w][m]] = m
    <3> SUFFICES ASSUME NEW w \in VM, NEW m \in Name, counterId'[w][m] # 0
                 PROVE  names'[counterId'[w][m]] = m
      OBVIOUS
    <3>1. CASE w = v /\ m = n
      BY <1>1, <1>2, <1>4, <3>1
    <3>2. CASE ~ (w = v /\ m = n)
      <4>1. counterId'[w][m] = counterId[w][m] /\ counterId[w][m] \in 1..Len(names)
        BY <1>1, <1>2, <3>2
      <4> QED BY <1>3, <4>1, SMTT(30) DEF MetricsInv, CounterIds
    <3> QED BY <3>1, <3>2
  <2>2. \A w \in VM : pc'[w] = "increment" => counterId'[w][at'[w]] # 0
    <3> SUFFICES ASSUME NEW w \in VM, pc'[w] = "increment"
                 PROVE  counterId'[w][at'[w]] # 0
      OBVIOUS
    <3>1. CASE w = v
      BY <1>1, <1>2, <1>4, <3>1
    <3>2. CASE w # v
      BY <1>1, <1>2, <3>2 DEF MetricsInv, CounterTypes, CounterIds
    <3> QED BY <3>1, <3>2
  <2> QED BY <1>5, <2>1, <2>2 DEF CounterIds
<1>9. Connected'
  <2>1. \A w \in VM : w # v => pc'[w] = pc[w] /\ counterId'[w] = counterId[w]
    BY <1>1, <1>2 DEF MetricsInv, CounterTypes
  <2>2. v \in Network => n = Connections /\ counterId'[v][Connections] # 0 /\ pc'[v] = "idle"
    BY <1>1, <1>2, <1>4 DEF MetricsInv, CounterTypes, Connected
  <2>3. v \notin Network => pc'[v] # "new"
    BY <1>1 DEF MetricsInv, CounterTypes
  <2> QED BY <1>1, <2>1, <2>2, <2>3 DEF MetricsInv, Connected
<1>10. ASSUME NEW m \in Name PROVE Metrics!Counted(m)' = Metrics!Counted(m)
  <2>1. /\ \A i \in DOMAIN names' : names'[i] = m => Position(names', m) = i
        /\ (\A i \in DOMAIN names' : names'[i] # m) => Position(names', m) = 0
    BY <1>3, <1>5, PositionOf
  <2>2. /\ \A i \in DOMAIN names : names[i] = m => Position(names, m) = i
        /\ (\A i \in DOMAIN names : names[i] # m) => Position(names, m) = 0
    BY <1>2, PositionOf
  <2>3. CASE \E i \in DOMAIN names : names[i] = m
    <3>1. PICK i \in 1..Len(names) : names[i] = m
      BY <1>2, <2>3
    <3>2. i \in DOMAIN names' /\ names'[i] = m /\ i # 0 /\ count'[i] = count[i]
      BY <1>2, <1>3, <3>1
    <3>3. Position(names', m) = i /\ Position(names, m) = i
      BY <1>2, <2>1, <2>2, <3>1, <3>2
    <3> QED BY <3>2, <3>3, CountedFound
  <2>4. CASE ~ \E i \in DOMAIN names : names[i] = m
    <3>1. Metrics!Counted(m) = 0
      BY <2>2, <2>4, CountedFound
    <3>2. CASE \A i \in DOMAIN names' : names'[i] # m
      BY <2>1, <3>1, <3>2, CountedFound
    <3>3. ASSUME NEW i \in DOMAIN names', names'[i] = m
          PROVE  Metrics!Counted(m)' = 0
      <4>1. i \notin 1..Len(names) /\ count'[i] = 0 /\ Position(names', m) = i /\ i # 0
        BY <1>2, <1>3, <2>1, <2>4, <3>3
      <4> QED BY <4>1, CountedFound
    <3> QED BY <3>1, <3>2, <3>3
  <2> QED BY <2>3, <2>4
<1>11. Exact'
  <2> SUFFICES ASSUME NEW m \in Name PROVE Metrics!Counted(m)' + Waiting(m)' = begun'[m]
    BY DEF Exact, Name, Metrics!Name
  <2>1. \A w \in VM : Metrics!Uncounted(w, m)' = Metrics!Uncounted(w, m)
    <3> SUFFICES ASSUME NEW w \in VM
                 PROVE  Metrics!Uncounted(w, m)' = Metrics!Uncounted(w, m)
      OBVIOUS
    <3>1. CASE w # v
      <4>1. pc'[w] = pc[w] /\ counterId'[w] = counterId[w]
        BY <1>1, <1>2, <3>1 DEF MetricsInv, CounterTypes
      <4> QED BY <1>1, <4>1 DEF Metrics!Uncounted
    <3>2. CASE w = v
      <4>1. /\ v \in Network => n = Connections /\ counterId[v][n] = 0 /\ pc'[v] = "idle"
            /\ v \notin Network => pc'[v] = "increment"
        BY <1>1, <1>2 DEF MetricsInv, CounterTypes, Connected
      <4> QED BY <1>1, <3>2, <4>1 DEF Metrics!Uncounted
    <3> QED BY <3>1, <3>2
  <2>2. Waiting(m)' = Waiting(m)
    BY <2>1 DEF Waiting
  <2>3. Metrics!Counted(m) + Waiting(m) = begun[m]
    BY DEF MetricsInv, Exact
  <2> QED BY <1>1, <1>10, <2>2, <2>3
<1> QED BY <1>7, <1>8, <1>9, <1>11 DEF MetricsInv

(* An increment counts what the VM was working on. *)
LEMMA IncrementStep ==
  ASSUME MetricsInv, NEW v \in VM, Metrics!Increment(v)
  PROVE  MetricsInv'
<1> DEFINE n == at[v]
           c == counterId[v][n]
<1>1. /\ pc[v] = "increment" /\ pc' = [pc EXCEPT ![v] = "idle"]
      /\ count' = [count EXCEPT ![c] = @ + 1]
      /\ UNCHANGED <<names, counterId, at, open, begun>>
  BY DEF Metrics!Increment, Metrics!CounterOf, Metrics!Goto
<1>2. /\ names \in Seq(Name) /\ count \in Seq(Nat) /\ Len(count) = Len(names) /\ n \in Name
      /\ Len(names) \in Nat /\ DOMAIN names = 1..Len(names)
      /\ counterId \in [VM -> [Name -> 0..Len(names)]] /\ open[v] \in Nat
      /\ \A a, b \in DOMAIN names : names[a] = names[b] => a = b
  BY DEF MetricsInv, CounterTypes, CounterIds
<1>3. c \in 1..Len(names) /\ names[c] = n /\ c # 0
  BY <1>1, <1>2 DEF MetricsInv, CounterIds
<1> HIDE DEF c, n
<1>4. /\ count' \in Seq(Nat) /\ Len(count') = Len(names) /\ count[c] \in Nat
      /\ count'[c] = count[c] + 1
      /\ \A i \in 1..Len(names) : i # c => count'[i] = count[i]
  BY <1>1, <1>2, <1>3
<1>5. CounterTypes'
  BY <1>1, <1>2, <1>4 DEF MetricsInv, CounterTypes
<1>6. CounterIds'
  BY <1>1 DEF MetricsInv, CounterTypes, CounterIds
<1>7. Connected'
  BY <1>1 DEF MetricsInv, CounterTypes, CounterIds, Connected, n, c
<1>8. ASSUME NEW m \in Name
      PROVE  Metrics!Counted(m)' = Metrics!Counted(m) + (IF m = n THEN 1 ELSE 0)
  <2>1. /\ \A i \in DOMAIN names : names[i] = m => Position(names, m) = i
        /\ (\A i \in DOMAIN names : names[i] # m) => Position(names, m) = 0
    BY <1>2, PositionOf
  <2>2. Metrics!Counted(m) \in Nat
    BY CountedIs DEF MetricsInv
  <2>3. CASE m = n
    <3>1. Position(names, m) = c
      BY <1>2, <1>3, <2>1, <2>3
    <3>2. Metrics!Counted(m) = count[c] /\ Metrics!Counted(m)' = count'[c]
      BY <1>1, <1>3, <3>1, CountedFound
    <3> QED BY <1>4, <2>3, <3>2
  <2>4. CASE m # n
    <3>1. Position(names, m) # c
      BY <1>2, <1>3, <2>1, <2>4
    <3>2. Position(names, m) = 0 \/ Position(names, m) \in 1..Len(names)
      BY <1>2, <2>1
    <3>3. Metrics!Counted(m)' = Metrics!Counted(m)
      BY <1>1, <1>4, <3>1, <3>2, CountedFound
    <3> QED BY <2>2, <2>4, <3>3
  <2> QED BY <2>3, <2>4
<1>9. Exact'
  <2> SUFFICES ASSUME NEW m \in Name PROVE Metrics!Counted(m)' + Waiting(m)' = begun'[m]
    BY DEF Exact, Name, Metrics!Name
  <2>1. \A w \in VM \ {v} : Metrics!Uncounted(w, m)' = Metrics!Uncounted(w, m)
    <3>1. \A w \in VM \ {v} : pc'[w] = pc[w]
      BY <1>1 DEF MetricsInv, CounterTypes
    <3> QED BY <1>1, <3>1 DEF Metrics!Uncounted
  <2>2. /\ Metrics!Uncounted(v, m)' \in Nat
        /\ Metrics!Uncounted(v, m) = Metrics!Uncounted(v, m)' + (IF m = n THEN 1 ELSE 0)
    <3>1. pc'[v] = "idle"
      BY <1>1 DEF MetricsInv, CounterTypes
    <3>2. m = n => counterId[v][m] # 0
      BY <1>3 DEF c
    <3>3. Metrics!Uncounted(v, m)' = IF m = Connections THEN open[v] ELSE 0
      <4>1. Metrics!Uncounted(v, m)' = (IF m = Connections THEN open[v] ELSE 0) + 0
        BY <1>1, <3>1 DEF Metrics!Uncounted
      <4> QED BY <1>2, <4>1
    <3>4. Metrics!Uncounted(v, m) = (IF m = Connections THEN open[v] ELSE 0)
                                      + (IF m = n THEN 1 ELSE 0)
      BY <1>1, <1>2, <3>2 DEF Metrics!Uncounted, n
    <3> QED BY <1>2, <3>3, <3>4
  <2>3. Waiting(m)' + Metrics!Uncounted(v, m) = Waiting(m) + Metrics!Uncounted(v, m)'
    BY <1>5, <2>1, WaitingChange DEF MetricsInv
  <2>4. Metrics!Counted(m) + Waiting(m) = begun[m]
    BY DEF MetricsInv, Exact
  <2>5. Metrics!Counted(m) \in Nat /\ Waiting(m) \in Nat /\ Waiting(m)' \in Nat
    <3> DEFINE g == [w \in VM |-> Metrics!Uncounted(w, m)']
    <3>1. \A w \in VM : g[w] \in Nat
      BY <2>1, <2>2, UncountedType DEF MetricsInv
    <3>2. SumFunctionOnSet(g, VM) \in Nat
      <4> HIDE DEF g
      <4> QED BY <3>1, NamesFinite, SumType
    <3>3. Waiting(m)' \in Nat
      BY <3>2 DEF Waiting
    <3> QED BY <3>3, CountedIs, WaitingType DEF MetricsInv
  <2>6. CASE m = n
    BY <1>1, <1>8, <2>2, <2>3, <2>4, <2>5, <2>6
  <2>7. CASE m # n
    BY <1>1, <1>8, <2>2, <2>3, <2>4, <2>5, <2>7
  <2> QED BY <2>6, <2>7
<1> QED BY <1>5, <1>6, <1>7, <1>9 DEF MetricsInv

LEMMA MetricsStep == MetricsInv /\ [Metrics!Next]_metricsVars => MetricsInv'
<1> SUFFICES ASSUME MetricsInv, [Metrics!Next]_metricsVars PROVE MetricsInv'
  OBVIOUS
<1>1. CASE Metrics!Next
  BY <1>1, RequestStep, CallbackStep, NewConnectionStep, StreamDoneStep, DefineStep,
     IncrementStep, Zenon DEF Metrics!Next
<1>2. CASE UNCHANGED metricsVars
  <2>1. UNCHANGED <<names, count, counterId, pc, at, open, begun>>
    BY <1>2 DEF metricsVars
  <2>2. CounterTypes' /\ CounterIds' /\ Connected'
    BY <2>1 DEF MetricsInv, CounterTypes, CounterIds, Connected
  <2>3. \A n \in Name : Metrics!Counted(n)' = Metrics!Counted(n)
    BY <2>1, CountedFound
  <2>4. \A n \in Name : Waiting(n)' = Waiting(n)
    BY <2>1 DEF Waiting, Metrics!Uncounted
  <2>5. Exact'
    BY <2>1, <2>3, <2>4 DEF MetricsInv, Exact, Name, Metrics!Name
  <2> QED BY <2>2, <2>5 DEF MetricsInv
<1> QED BY <1>1, <1>2

LEMMA MetricsInvariant == PluginsSpec => []MetricsInv
<1>1. PluginsInit => MetricsInv
  BY MetricsInit DEF PluginsInit
<1>2. MetricsInv /\ [PluginsNext]_<<active, vars, others>> => MetricsInv'
  BY MetricsStep, EachPluginSteps
<1> QED BY <1>1, <1>2, PTL DEF PluginsSpec

(* metrics/main.go:64-79, network/main.go:34, 119-122: for any number of VMs, values of
   the header and requests, in any order of the host calls, each name has one counter,
   and it has counted what was begun but for what the VMs are at. *)
THEOREM CountersCountAll == PluginsSpec => []CountersAreExact
<1>1. MetricsInv => CountersAreExact
  BY ExactMeansExact DEF MetricsInv
<1> QED BY <1>1, MetricsInvariant, PTL

LEMMA ElementsType ==
  ASSUME NEW A, NEW B, NEW c \in Seq(A), \A i \in 1..Len(c) : c[i] \in B
  PROVE  c \in Seq(B)
OBVIOUS

LEMMA MetricsTypes == MetricsInv => Metrics!TypeOK
<1> SUFFICES ASSUME MetricsInv PROVE Metrics!TypeOK
  OBVIOUS
<1>1. \A n \in Name : /\ begun[n] \in 0..MaxWork /\ Metrics!Counted(n) \in Nat /\ Waiting(n) \in Nat
                      /\ Metrics!Counted(n) + Waiting(n) = begun[n]
  BY BegunBound, CountedIs, WaitingType DEF MetricsInv, Exact
<1>2. \A n \in Name : Metrics!Counted(n) \in 0..MaxWork /\ Waiting(n) \in 0..MaxWork
  BY <1>1, FiniteAssumption
<1>3. count \in Seq(0..MaxWork)
  <2>1. count \in Seq(Nat) /\ Len(count) = Len(names) /\ names \in Seq(Name)
    BY DEF MetricsInv, CounterTypes
  <2>2. \A i \in 1..Len(names) : names[i] \in Name /\ count[i] = Metrics!Counted(names[i])
    BY <2>1, CountedIs DEF MetricsInv
  <2>3. \A i \in 1..Len(count) : count[i] \in 0..MaxWork
    BY <1>2, <2>1, <2>2
  <2> QED BY <2>1, <2>3, ElementsType
<1>4. \A v \in VM : open[v] \in 0..MaxWork
  <2> SUFFICES ASSUME NEW v \in VM PROVE open[v] \in 0..MaxWork
    OBVIOUS
  <2>1. Connections \in Name /\ open[v] \in Nat
    BY DEF Name, Metrics!Name, MetricsInv, CounterTypes
  <2>2. open[v] <= Metrics!Uncounted(v, Connections)
    BY <2>1 DEF Metrics!Uncounted
  <2>3. /\ Metrics!Uncounted(v, Connections) <= Waiting(Connections)
        /\ Metrics!Uncounted(v, Connections) \in Nat /\ Waiting(Connections) \in 0..MaxWork
    BY <1>2, <2>1, WaitingType, UncountedType DEF MetricsInv
  <2> QED BY <2>1, <2>2, <2>3, FiniteAssumption
<1>5. open \in [VM -> 0..MaxWork] /\ begun \in [Name -> 0..MaxWork]
  BY <1>1, <1>4 DEF MetricsInv, CounterTypes
<1> QED BY <1>3, <1>5 DEF MetricsInv, CounterTypes, Metrics!TypeOK, Name

(* The variables of all the plugins keep their types; that the counters stay within
   the bound takes CountersAreExact. *)
THEOREM PluginsAreTyped == PluginsSpec => []PluginTypes
<1>1. PostponeInv /\ AuthInv /\ TickInv /\ BodyInv /\ JsonInv /\ MetricsInv /\ HeadersInv
        => PluginTypes
  BY MetricsTypes DEF PostponeInv, AuthInv, TickInv, BodyInv, JsonInv, HeadersInv, PluginTypes
<1> QED BY <1>1, PostponeInvariant, AuthInvariant, TickInvariant, BodyInvariant, JsonInvariant,
           MetricsInvariant, HeadersInvariant, PTL

(* postpone_requests, continued.  The superfluous resumes are no more than the requests
   that went away without one and are not in the queue any more: those that are still
   in it are what the next tick resumes others for. *)
Surplus == [s \in Postponed |-> IF resumes[s] > 1 THEN resumes[s] - 1 ELSE 0]
MissedOnes == {s \in Postponed : postponeFate[s] = "gone" /\ resumes[s] = 0}
Queued == Postpone!ToSet(postponed)
QueuedUnresumed == \A s \in Queued : resumes[s] = 0
Covered == SumFunctionOnSet(Surplus, Postponed) <= Cardinality(MissedOnes \ Queued)
SurplusInv == PostponeInv /\ QueuedUnresumed /\ Covered

LEMMA QueueType ==
  ASSUME PostponeInv
  PROVE  /\ Len(postponed) \in Nat /\ DOMAIN postponed = 1..Len(postponed)
         /\ \A i \in DOMAIN postponed : postponed[i] \in Postponed /\ postponed[i] \in Queued
         /\ \A i, j \in DOMAIN postponed : postponed[i] = postponed[j] => i = j
         /\ \A s \in Queued : \E i \in DOMAIN postponed : postponed[i] = s
         /\ IsFiniteSet(DOMAIN postponed)
<1>1. Len(postponed) \in Nat /\ DOMAIN postponed = 1..Len(postponed)
  BY DEF PostponeInv, Postpone!TypeOK
<1>2. \A i \in DOMAIN postponed : postponed[i] \in Postponed /\ postponed[i] \in Queued
  BY DEF PostponeInv, Postpone!TypeOK, Queued, Postpone!ToSet
<1>3. \A i, j \in DOMAIN postponed : postponed[i] = postponed[j] => i = j
  BY DEF PostponeInv, Postpone!PausedIsQueued, Postpone!IsInjective
<1>4. \A s \in Queued : \E i \in DOMAIN postponed : postponed[i] = s
  BY DEF Queued, Postpone!ToSet
<1> QED BY <1>1, <1>2, <1>3, <1>4, FS_Interval

LEMMA MissedFinite ==
  ASSUME NEW A \in SUBSET Postponed PROVE IsFiniteSet(A) /\ Cardinality(A) \in Nat
BY FiniteAssumption, FS_Subset, FS_CardinalityType

LEMMA SurplusType ==
  ASSUME PostponeInv
  PROVE  /\ \A s \in Postponed : resumes[s] \in Nat /\ Surplus[s] \in Nat
         /\ SumFunctionOnSet(Surplus, Postponed) \in Nat
<1>1. \A s \in Postponed : resumes[s] \in Nat /\ Surplus[s] \in Nat
  BY DEF Surplus, PostponeInv, Postpone!TypeOK
<1> QED BY <1>1, SumType, FiniteAssumption

(* Which position is in effect in turn i. *)
LEMMA InEffectIs ==
  ASSUME PostponeInv, NEW i \in DOMAIN postponed
  PROVE  /\ i \in Postpone!Live => Postpone!InEffect(i) = i
         /\ Postpone!InEffect(i) # 0 => Postpone!InEffect(i) \in Postpone!Live
<1> DEFINE E == {j \in Postpone!Live : j <= i}
<1>1. i \in Nat /\ Postpone!Live \subseteq Nat /\ IsFiniteSet(Postpone!Live)
  BY QueueType, FS_Subset DEF Postpone!Live
<1>2. i \in Postpone!Live => Postpone!InEffect(i) = i
  <2> SUFFICES ASSUME i \in Postpone!Live PROVE Postpone!InEffect(i) = i
    OBVIOUS
  <2>1. i \in E /\ \A j \in E : i >= j
    BY <1>1
  <2>2. Postpone!Max(E) = i
    BY <1>1, <2>1 DEF Postpone!Max
  <2> QED BY <2>1, <2>2 DEF Postpone!InEffect
<1>3. ASSUME Postpone!InEffect(i) # 0 PROVE Postpone!InEffect(i) \in E
  <2>1. E # {} /\ Postpone!InEffect(i) = Postpone!Max(E)
    BY <1>3 DEF Postpone!InEffect
  <2>2. IsFiniteSet(E) /\ E \in SUBSET Nat
    BY <1>1, FS_Subset
  <2>3. \E m \in E : \A x \in E : m >= x
    <3> HIDE DEF E
    <3> QED BY <2>1, <2>2, GreatestExists
  <2> QED BY <2>1, <2>3 DEF Postpone!Max
<1> QED BY <1>2, <1>3

(* A tick resumes each request of the queue that has not gone once, and once more in
   each turn of one that has. *)
LEMMA SurplusOfTick ==
  ASSUME SurplusInv, Postpone!OnTick
  PROVE  SumFunctionOnSet(Surplus', Postponed) <= Cardinality(MissedOnes)
<1> DEFINE D == DOMAIN postponed
           Gone == D \ Postpone!Live
           T(s) == {i \in D : Postpone!InEffect(i) # 0 /\ postponed[Postpone!InEffect(i)] = s}
           X == [s \in Postponed |-> T(s) \ Postpone!Live]
           Y == [s \in Postponed |-> Cardinality(X[s])]
<1>1. PostponeInv /\ QueuedUnresumed /\ Covered
  BY DEF SurplusInv
<1>2. IsFiniteSet(D) /\ IsFiniteSet(Gone) /\ Cardinality(Gone) \in Nat
  BY <1>1, QueueType, FS_Subset, FS_CardinalityType
<1>3. \A s \in Postponed : /\ T(s) \subseteq D /\ IsFiniteSet(T(s)) /\ X[s] \subseteq Gone
                           /\ IsFiniteSet(X[s]) /\ Y[s] \in Nat /\ Y[s] = Cardinality(X[s])
                           /\ Postpone!Resumes(s) = Cardinality(T(s))
  <2>1. \A S : Postpone!Cardinality(S) = Cardinality(S)
    BY Zenon DEF Postpone!Cardinality, Cardinality
  <2>2. \A s \in Postponed : Postpone!Resumes(s) = Cardinality(T(s))
    BY <2>1 DEF Postpone!Resumes, Postpone!Turns
  <2>3. \A s \in Postponed : T(s) \subseteq D /\ X[s] \subseteq Gone /\ X[s] \subseteq D
    OBVIOUS
  <2> HIDE DEF T, X, D, Gone
  <2>4. \A s \in Postponed : /\ IsFiniteSet(T(s)) /\ IsFiniteSet(X[s])
                             /\ Cardinality(X[s]) \in Nat
    BY <1>2, <2>3, FS_Subset, FS_CardinalityType
  <2> QED BY <2>2, <2>3, <2>4
<1>4. SumFunctionOnSet(Y, Postponed) <= Cardinality(Gone)
  <2>1. \A s, r \in Postponed : s # r => X[s] \cap X[r] = {}
    OBVIOUS
  <2>2. \A s \in Postponed : X[s] \subseteq Gone
    OBVIOUS
  <2> HIDE DEF X, Gone
  <2> QED BY <1>2, <2>1, <2>2, SumOfDisjoint, FiniteAssumption
<1>5. ASSUME NEW s \in Postponed
      PROVE  Surplus'[s] = Surplus[s] + Y[s]
  <2>1. resumes'[s] = resumes[s] + Postpone!Resumes(s) /\ resumes[s] \in Nat
    BY <1>1 DEF Postpone!OnTick, PostponeInv, Postpone!TypeOK
  <2>2. Surplus'[s] = IF resumes'[s] > 1 THEN resumes'[s] - 1 ELSE 0
    BY DEF Surplus
  <2>3. Surplus[s] = IF resumes[s] > 1 THEN resumes[s] - 1 ELSE 0
    BY DEF Surplus
  <2>4. ASSUME NEW i \in Postpone!Live, postponed[i] = s
        PROVE  Surplus'[s] = Surplus[s] + Y[s]
    <3>1. i \in D /\ resumes[s] = 0
      BY <1>1, <2>4, QueueType DEF Postpone!Live, QueuedUnresumed
    <3>2. i \in T(s)
      <4>1. Postpone!InEffect(i) = i /\ i # 0
        BY <1>1, <2>4, <3>1, InEffectIs, QueueType
      <4> QED BY <2>4, <3>1, <4>1
    <3>3. T(s) = X[s] \cup {i} /\ i \notin X[s]
      <4>1. ASSUME NEW j \in T(s), j \in Postpone!Live PROVE j = i
        <5>1. j \in D /\ Postpone!InEffect(j) = j
          BY <1>1, <4>1, InEffectIs
        <5>2. postponed[j] = postponed[i]
          BY <2>4, <5>1
        <5> QED BY <1>1, <3>1, <5>1, <5>2, QueueType
      <4> QED BY <2>4, <3>2, <4>1
    <3>4. Cardinality(T(s)) = Y[s] + 1
      <4> HIDE DEF T, X, Y
      <4> QED BY <1>3, <3>3, FS_AddElement, ZenonT(30)
    <3> HIDE DEF T, X, Y
    <3> QED BY <1>3, <2>1, <2>2, <2>3, <3>1, <3>4
  <2>5. CASE \A i \in Postpone!Live : postponed[i] # s
    <3>1. T(s) = {}
      BY <1>1, <2>5, InEffectIs
    <3>2. Postpone!Resumes(s) = 0 /\ Y[s] = 0
      BY <1>3, <3>1, FS_EmptySet
    <3>3. Surplus[s] \in Nat
      BY <1>1, SurplusType
    <3> HIDE DEF Y
    <3> QED BY <2>1, <2>2, <2>3, <3>2, <3>3
  <2> QED BY <2>4, <2>5
<1>6. SumFunctionOnSet(Surplus', Postponed)
        = SumFunctionOnSet(Surplus, Postponed) + SumFunctionOnSet(Y, Postponed)
  <2>1. \A s \in Postponed : Surplus[s] \in Nat /\ Y[s] \in Nat
    BY <1>1, <1>3, SurplusType
  <2> HIDE DEF Y
  <2> QED BY <1>5, <2>1, FiniteAssumption, SumPlus
<1>7. Cardinality(Gone) <= Cardinality(MissedOnes \cap Queued)
  <2> DEFINE f == [i \in Gone |-> postponed[i]]
  <2>1. \A i \in Gone : postponed[i] \in MissedOnes \cap Queued
    BY <1>1, QueueType DEF Postpone!Live, MissedOnes, QueuedUnresumed
  <2>2. f \in Injection(Gone, MissedOnes \cap Queued)
    <3>1. f \in [Gone -> MissedOnes \cap Queued]
      BY <2>1
    <3>2. \A i, j \in Gone : f[i] = f[j] => i = j
      BY <1>1, QueueType
    <3> HIDE DEF f, Gone
    <3> QED BY <3>1, <3>2 DEF Injection, IsInjective
  <2>3. IsFiniteSet(MissedOnes \cap Queued)
    BY MissedFinite DEF MissedOnes
  <2> HIDE DEF f, Gone
  <2> QED BY <2>2, <2>3, FS_Injection
<1>8. /\ Cardinality(MissedOnes \ Queued) = Cardinality(MissedOnes) - Cardinality(MissedOnes \cap Queued)
      /\ Cardinality(MissedOnes) \in Nat /\ Cardinality(MissedOnes \cap Queued) \in Nat
  BY MissedFinite, FS_Difference DEF MissedOnes
<1>9. SumFunctionOnSet(Surplus, Postponed) \in Nat /\ SumFunctionOnSet(Y, Postponed) \in Nat
  <2> HIDE DEF Y
  <2> QED BY <1>1, <1>3, SurplusType, SumType, FiniteAssumption
<1> HIDE DEF Y, Gone
<1> QED BY <1>1, <1>2, <1>4, <1>6, <1>7, <1>8, <1>9 DEF Covered

LEMMA SurplusInit == Postpone!Init => SurplusInv
<1> SUFFICES ASSUME Postpone!Init PROVE SurplusInv
  OBVIOUS
<1>1. PostponeInv
  BY PostponeInit
<1>2. Queued = {} /\ \A s \in Postponed : Surplus[s] = 0
  BY DEF Postpone!Init, Queued, Postpone!ToSet, Surplus
<1>3. SumFunctionOnSet(Surplus, Postponed) = 0
  BY <1>2, SumZero, FiniteAssumption
<1>4. Cardinality(MissedOnes \ Queued) \in Nat
  BY MissedFinite DEF MissedOnes
<1> QED BY <1>1, <1>2, <1>3, <1>4 DEF SurplusInv, QueuedUnresumed, Covered

LEMMA SurplusStep == SurplusInv /\ [Postpone!Next]_postponeVars => SurplusInv'
<1> SUFFICES ASSUME SurplusInv, [Postpone!Next]_postponeVars PROVE SurplusInv'
  OBVIOUS
<1>1. PostponeInv /\ PostponeInv' /\ QueuedUnresumed /\ Covered
  BY PostponeStep DEF SurplusInv
<1>2. CASE UNCHANGED <<postponeFate, postponed, resumes>>
  <2>1. Surplus' = Surplus /\ MissedOnes' = MissedOnes /\ Queued' = Queued
    BY <1>2 DEF Surplus, MissedOnes, Queued, Postpone!ToSet
  <2> QED BY <1>1, <1>2, <2>1 DEF SurplusInv, QueuedUnresumed, Covered
<1>3. ASSUME NEW s \in Postponed, Postpone!OnHttpRequestHeaders(s) PROVE SurplusInv'
  <2>1. /\ postponeFate[s] = "new" /\ postponeFate' = [postponeFate EXCEPT ![s] = "paused"]
        /\ postponed' = Append(postponed, s) /\ UNCHANGED resumes
        /\ postponed \in Seq(Postponed)
        /\ postponeFate \in [Postponed -> {"new", "paused", "continued", "gone"}]
        /\ resumes[s] = 0
    BY <1>1, <1>3 DEF Postpone!OnHttpRequestHeaders, PostponeInv, Postpone!TypeOK, NewAreUnknown
  <2>2. Queued' = Queued \cup {s}
    <3>1. /\ Len(postponed) \in Nat /\ DOMAIN postponed = 1..Len(postponed)
          /\ DOMAIN postponed' = 1..(Len(postponed) + 1) /\ postponed'[Len(postponed) + 1] = s
          /\ \A i \in 1..Len(postponed) : postponed'[i] = postponed[i]
      BY <2>1
    <3>2. Queued' = {postponed'[i] : i \in 1..(Len(postponed) + 1)}
          /\ Queued = {postponed[i] : i \in 1..Len(postponed)}
      BY <3>1 DEF Queued, Postpone!ToSet
    <3> QED BY <3>1, <3>2
  <2>3. MissedOnes' \ Queued' = MissedOnes \ Queued
    BY <2>1, <2>2 DEF MissedOnes
  <2>4. Surplus' = Surplus
    BY <2>1 DEF Surplus
  <2>5. QueuedUnresumed'
    BY <1>1, <2>1, <2>2 DEF QueuedUnresumed
  <2>6. Covered'
    BY <1>1, <2>3, <2>4 DEF Covered
  <2> QED BY <1>1, <2>5, <2>6 DEF SurplusInv
<1>4. ASSUME NEW s \in Postponed, Postpone!StreamGone(s) PROVE SurplusInv'
  <2>1. /\ postponeFate[s] \in {"paused", "continued"}
        /\ postponeFate' = [postponeFate EXCEPT ![s] = "gone"] /\ UNCHANGED <<postponed, resumes>>
        /\ postponeFate \in [Postponed -> {"new", "paused", "continued", "gone"}]
        /\ resumes[s] \in Nat
    BY <1>1, <1>4 DEF Postpone!StreamGone, PostponeInv, Postpone!TypeOK
  <2>2. s \in Queued \/ resumes[s] # 0
    BY <1>1, <2>1 DEF PostponeInv, Postpone!PausedIsQueued, Queued
  <2>3. Queued' = Queued /\ Surplus' = Surplus
    BY <2>1 DEF Queued, Surplus, Postpone!ToSet
  <2>4. MissedOnes' \ Queued' = MissedOnes \ Queued
    BY <2>1, <2>2, <2>3 DEF MissedOnes
  <2>5. QueuedUnresumed' /\ Covered'
    BY <1>1, <2>1, <2>3, <2>4 DEF QueuedUnresumed, Covered
  <2> QED BY <1>1, <2>5 DEF SurplusInv
<1>5. CASE Postpone!OnTick
  <2>1. SumFunctionOnSet(Surplus', Postponed) <= Cardinality(MissedOnes)
    BY <1>5, SurplusOfTick
  <2>2. Queued' = {}
    BY <1>5 DEF Postpone!OnTick, Queued, Postpone!ToSet
  <2>3. MissedOnes' = MissedOnes
    <3> SUFFICES ASSUME NEW s \in Postponed
                 PROVE  (postponeFate'[s] = "gone" /\ resumes'[s] = 0)
                          <=> (postponeFate[s] = "gone" /\ resumes[s] = 0)
      BY DEF MissedOnes
    <3>1. /\ resumes'[s] = resumes[s] + Postpone!Resumes(s) /\ resumes[s] \in Nat
          /\ postponeFate'[s] = "gone" <=> postponeFate[s] = "gone"
      BY <1>1, <1>5 DEF Postpone!OnTick, PostponeInv, Postpone!TypeOK
    <3>2. /\ Postpone!Resumes(s) \in Nat
          /\ postponeFate[s] = "gone" => Postpone!Resumes(s) = 0
      BY <1>1, EachTurnResumes
    <3> QED BY <3>1, <3>2
  <2>4. MissedOnes' \ Queued' = MissedOnes
    BY <2>2, <2>3
  <2>5. QueuedUnresumed' /\ Covered'
    BY <2>1, <2>2, <2>4 DEF QueuedUnresumed, Covered
  <2> QED BY <1>1, <2>5 DEF SurplusInv
<1>6. CASE UNCHANGED postponeVars \/ Postpone!OnPluginStart
  BY <1>2, <1>6 DEF postponeVars, Postpone!OnPluginStart
<1> QED BY <1>3, <1>4, <1>5, <1>6 DEF Postpone!Next

LEMMA SurplusInvariant == PluginsSpec => []SurplusInv
<1>1. PluginsInit => SurplusInv
  BY SurplusInit DEF PluginsInit
<1>2. SurplusInv /\ [PluginsNext]_<<active, vars, others>> => SurplusInv'
  BY SurplusStep, EachPluginSteps
<1> QED BY <1>1, <1>2, PTL DEF PluginsSpec

(* postpone_requests/main.go:60-91: for any number of requests, each that is paused is in
   the queue, once, and the superfluous resumes are no more than the requests that
   went away without one. *)
THEOREM QueueIsRight == PluginsSpec => []PostponeQueue
<1>1. SurplusInv => PostponeQueue
  <2> SUFFICES ASSUME SurplusInv PROVE Postpone!ExtraResumes
    BY DEF SurplusInv, PostponeInv, PostponeQueue
  <2>1. Postpone!SumFunction(Surplus) = SumFunctionOnSet(Surplus, Postponed)
    <3>1. DOMAIN Surplus = Postponed
      BY DEF Surplus
    <3> QED BY <3>1, MetricsSums
  <2>2. \A S : Postpone!Cardinality(S) = Cardinality(S)
    BY Zenon DEF Postpone!Cardinality, Cardinality
  <2>3. Cardinality(MissedOnes \ Queued) <= Cardinality(MissedOnes)
    <3>1. /\ Cardinality(MissedOnes \ Queued)
               = Cardinality(MissedOnes) - Cardinality(MissedOnes \cap Queued)
          /\ Cardinality(MissedOnes) \in Nat /\ Cardinality(MissedOnes \cap Queued) \in Nat
      BY MissedFinite, FS_Difference DEF MissedOnes
    <3> QED BY <3>1
  <2>4. /\ SumFunctionOnSet(Surplus, Postponed) \in Nat
        /\ Cardinality(MissedOnes \ Queued) \in Nat /\ Cardinality(MissedOnes) \in Nat
    BY SurplusType, MissedFinite DEF SurplusInv, MissedOnes
  <2>5. SumFunctionOnSet(Surplus, Postponed) <= Cardinality(MissedOnes)
    BY <2>3, <2>4 DEF SurplusInv, Covered
  <2> QED BY <2>1, <2>2, <2>5, Zenon DEF Postpone!ExtraResumes, Surplus, MissedOnes
<1> QED BY <1>1, SurplusInvariant, PTL
=============================================================================
