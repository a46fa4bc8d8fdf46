------------------------- MODULE RulesEngineProofs -------------------------
(***************************************************************************)
(* Proofs about RulesEngine: what an evaluation orders, computes and       *)
(* returns, for every law, every set of outputs and every request.         *)
(***************************************************************************)
EXTENDS RulesEngine, FiniteSetTheorems, TLAPS

LEMMA DependenciesAreNames ==
  ASSUME law \in Laws, NEW n \in Name
  PROVE  DependenciesOf(n) \subseteq Name
<1>1. n.of \in Outputs
  BY DEF Name
<1>2. law.reads[n.of] \subseteq Outputs /\ law.fields[n.of] \subseteq Outputs
  BY <1>1, LawsAssumption DEF Law
<1>3. \A x \in Outputs : Output(x) \in Name /\ Field(x) \in Name
  BY DEF Output, Field, Name
<1>4. analyze_dependencies(n.of) \subseteq Name
  BY <1>2, <1>3 DEF analyze_dependencies
<1> QED
  BY <1>4 DEF DependenciesOf

LEMMA OutputIsName == \A x \in Outputs : Output(x) \in Name /\ ~ Output(x).field /\ Output(x).of = x
BY DEF Output, Name

LEMMA OneMoreOutput ==
  ASSUME NEW S, NEW n
  PROVE  OutputsOf(S \cup {n}) = IF n.field THEN OutputsOf(S) ELSE OutputsOf(S) \cup {n.of}
BY DEF OutputsOf

\* The law never changes, and with it what depends on what.
LEMMA LawStays ==
  ASSUME UNCHANGED <<law, request>>
  PROVE  /\ \A n : DependenciesOf(n)' = DependenciesOf(n)
         /\ \A D : Closed(D)' <=> Closed(D)
         /\ \A C : Circle(C)' <=> Circle(C)
         /\ DeclaredInOrder' <=> DeclaredInOrder
BY DEF DependenciesOf, analyze_dependencies, Closed, Circle, DeclaredInOrder

-----------------------------------------------------------------------------

LEMMA InitHolds == Init => EngineInv
<1> SUFFICES ASSUME Init PROVE EngineInv
  OBVIOUS
<1>1. SortedNames = {}
  BY DEF Init, SortedNames
<1>2. TypeOK
  <2>1. DOMAIN deps = {} /\ DOMAIN values = {} /\ Len(sorted) = 0 /\ sorted \in Seq(Name)
    BY DEF Init
  <2>2. deps \in [{} -> SUBSET Name]
    BY DEF Init
  <2>3. values \in [{} -> BOOLEAN]
    BY DEF Init
  <2>4. deps \in [DOMAIN deps -> SUBSET Name] /\ values \in [DOMAIN values -> BOOLEAN]
    BY <2>1, <2>2, <2>3, Zenon
  <2>5. \A i, j \in 1..Len(sorted) : sorted[i] = sorted[j] => i = j
    BY <2>1
  <2>6. /\ law \in Laws /\ request \in Outputs \cup {None}
        /\ pc = "requirements" /\ todo = {} /\ required = {} /\ ready = {} /\ at = 0 /\ missing = FALSE
    BY DEF Init
  <2>7. /\ sorted \in Seq(Name)
        /\ at \in 0..Len(sorted)
        /\ pc \in {"requirements", "close", "sort", "run", "raised", "done"}
        /\ todo \subseteq Name /\ required \subseteq Name
        /\ DOMAIN deps \subseteq required /\ ready \subseteq DOMAIN deps /\ DOMAIN values \subseteq Outputs
    BY <2>1, <2>6
  <2>8. missing \in BOOLEAN
    BY <2>6
  <2> QED
    BY <2>4, <2>5, <2>6, <2>7, <2>8, Zenon DEF TypeOK
<1>3. SearchInv
  BY DEF Init, SearchInv
<1>4. SortInv
  BY <1>1 DEF Init, SortInv, OrderRespected, RaisesExactlyOnCircles
<1>5. RunInv
  BY DEF Init, RunInv, AllOrNothing, ComputedFromComplete
<1> QED
  BY <1>2, <1>3, <1>4, <1>5 DEF EngineInv

LEMMA CheckRequirementsKeeps ==
  ASSUME EngineInv, CheckRequirements
  PROVE  EngineInv'
<1> USE DEF EngineInv
<1>0. /\ law \in Laws /\ request \in Outputs \cup {None}
      /\ todo = {} /\ required = {} /\ sorted = <<>> /\ at = 0 /\ DOMAIN values = {}
      /\ UNCHANGED <<law, request, required, deps, ready, at, values>>
  BY DEF CheckRequirements, TypeOK, SearchInv, RunInv
<1>1. request # None => Output(request) \in Name
  BY <1>0, OutputIsName
<1>2. request # None => sorted' = <<>>
  BY <1>0 DEF CheckRequirements
<1>3. /\ sorted' \in Seq(Name)
      /\ \A i, j \in 1..Len(sorted') : sorted'[i] = sorted'[j] => i = j
      /\ Len(sorted') \in Nat
  <2>1. CASE sorted' = <<>>
    BY <2>1
  <2>2. CASE sorted' = [i \in 1..Len(Declared) |-> Output(Declared[i])]
    BY <2>2, DeclaredAssumption, OutputIsName
  <2> QED
    BY <1>0, <2>1, <2>2 DEF CheckRequirements
<1>4. TypeOK'
  BY <1>0, <1>1, <1>3 DEF CheckRequirements, TypeOK
<1>5. SearchInv'
  BY <1>0, <1>1, LawStays DEF CheckRequirements, SearchInv
<1>6. SortInv'
  BY <1>0, <1>2, LawStays DEF CheckRequirements, SortInv, SortedNames, OrderRespected, RaisesExactlyOnCircles
<1>7. RunInv'
  <2>1. OutputsOf({sorted'[j] : j \in 1..at'}) = {}
    BY <1>0 DEF OutputsOf
  <2> QED
    BY <1>0, <2>1 DEF CheckRequirements, RunInv, AllOrNothing, ComputedFromComplete
<1> QED
  BY <1>4, <1>5, <1>6, <1>7
LEMMA FollowKeeps ==
  ASSUME EngineInv, NEW n \in todo, Follow(n)
  PROVE  EngineInv'
<1> USE DEF EngineInv
<1>0. /\ law \in Laws /\ n \in Name /\ todo \subseteq Name /\ pc = "close"
      /\ required' = required \cup {n}
      /\ todo' = (todo \ {n}) \cup (DependenciesOf(n) \ required')
      /\ UNCHANGED <<law, request, pc, deps, ready, sorted, at, values, missing>>
  BY DEF Follow, TypeOK
<1>1. request # None /\ sorted = <<>> /\ SortedNames = {} /\ SortedNames' = {}
  BY <1>0 DEF RunInv, SortInv, SortedNames
<1>2. DependenciesOf(n) \subseteq Name
  BY <1>0, DependenciesAreNames
<1>3. TypeOK'
  BY <1>0, <1>2 DEF TypeOK
<1>4. SearchInv'
  <2>1. ASSUME NEW D \in SUBSET Name, Output(request) \in D, Closed(D)
        PROVE  required' \cup todo' \subseteq D
    <3>1. required \cup todo \subseteq D
      BY <1>1, <2>1 DEF SearchInv
    <3> QED
      BY <1>0, <2>1, <3>1 DEF Closed
  <2>2. \A m \in required' : DependenciesOf(m) \subseteq required' \cup todo'
    BY <1>0, <1>1 DEF SearchInv
  <2>3. Output(request) \in required' \cup todo'
    BY <1>0, <1>1 DEF SearchInv
  <2>4. todo' \cap required' = {}
    BY <1>0 DEF SearchInv
  <2> QED
    BY <1>0, <2>1, <2>2, <2>3, <2>4, LawStays DEF SearchInv
<1>5. SortInv'
  BY <1>0, <1>1, LawStays DEF SortInv, OrderRespected, RaisesExactlyOnCircles
<1>6. RunInv'
  <2>1. ComputedFromComplete'
    BY <1>0 DEF RunInv, ComputedFromComplete
  <2> QED
    BY <1>0, <1>1, <2>1 DEF RunInv, AllOrNothing
<1> QED
  BY <1>3, <1>4, <1>5, <1>6

LEMMA BeginSortKeeps ==
  ASSUME EngineInv, BeginSort
  PROVE  EngineInv'
<1> USE DEF EngineInv
<1>0. /\ law \in Laws /\ pc = "close" /\ pc' = "sort" /\ todo = {}
      /\ deps' = [n \in required |-> DependenciesOf(n)]
      /\ ready' = {n \in required : DependenciesOf(n) = {}}
      /\ UNCHANGED <<law, request, todo, required, sorted, at, values, missing>>
  BY DEF BeginSort, TypeOK
<1>1. request # None /\ sorted = <<>> /\ SortedNames = {} /\ SortedNames' = {}
  BY <1>0 DEF RunInv, SortInv, SortedNames
<1>2. \A n \in required : DependenciesOf(n) \subseteq Name
  BY DependenciesAreNames DEF TypeOK
<1>3. TypeOK'
  BY <1>0, <1>2 DEF TypeOK
<1>4. SearchInv'
  BY <1>0, <1>1, LawStays DEF SearchInv
<1>5. SortInv'
  <2>1. ready' = {n \in required : deps'[n] = {} /\ n \notin SortedNames'}
    BY <1>0, <1>1
  <2>2. \A n \in required : deps'[n] = DependenciesOf(n) \ SortedNames'
    BY <1>0, <1>1
  <2> QED
    BY <1>0, <1>1, <2>1, <2>2, LawStays DEF SortInv, OrderRespected, RaisesExactlyOnCircles
<1>6. RunInv'
  <2>1. ComputedFromComplete'
    BY <1>0 DEF RunInv, ComputedFromComplete
  <2> QED
    BY <1>0, <1>1, <2>1 DEF RunInv, AllOrNothing
<1> QED
  BY <1>3, <1>4, <1>5, <1>6

LEMMA SortNodeKeeps ==
  ASSUME EngineInv, NEW n \in ready, SortNode(n)
  PROVE  EngineInv'
<1> USE DEF EngineInv
<1>0. /\ law \in Laws /\ pc = "sort" /\ sorted \in Seq(Name)
      /\ sorted' = Append(sorted, n)
      /\ deps' = [m \in DOMAIN deps |-> deps[m] \ {n}]
      /\ ready' = (ready \ {n}) \cup Released(n)
      /\ UNCHANGED <<law, request, pc, todo, required, at, values, missing>>
  BY DEF SortNode, TypeOK
<1>1. request # None
  BY <1>0 DEF RunInv
<1>2. /\ DOMAIN deps = required
      /\ \A m \in required : deps[m] = DependenciesOf(m) \ SortedNames
      /\ ready = {m \in required : deps[m] = {} /\ m \notin SortedNames}
      /\ SortedNames \subseteq required
  BY <1>0, <1>1 DEF SortInv
<1>3. n \in required /\ n \in Name /\ n \notin SortedNames /\ DependenciesOf(n) \subseteq SortedNames
  BY <1>2 DEF TypeOK
<1>4. /\ sorted' \in Seq(Name) /\ Len(sorted') = Len(sorted) + 1 /\ Len(sorted) \in Nat
      /\ sorted'[Len(sorted) + 1] = n
      /\ \A i \in 1..Len(sorted) : sorted'[i] = sorted[i]
  BY <1>0, <1>3
<1>5. SortedNames' = SortedNames \cup {n}
  BY <1>4 DEF SortedNames
<1>6. \A m \in required : deps'[m] = DependenciesOf(m) \ SortedNames'
  BY <1>0, <1>2, <1>5
<1>7. ready' = {m \in required : deps'[m] = {} /\ m \notin SortedNames'}
  <2>1. \A m \in Released(n) : m \in required /\ m \notin SortedNames'
    \* A sorted name has no dependency left, so n cannot be its last one.
    <3> SUFFICES ASSUME NEW m \in Released(n) PROVE m \in required /\ m \notin SortedNames'
      OBVIOUS
    <3>1. m \in required /\ n \in DependenciesOf(m)
      BY <1>2 DEF Released
    <3>2. m # n
      BY <1>3, <3>1
    <3>3. m \notin SortedNames
      <4> SUFFICES ASSUME m \in SortedNames PROVE FALSE
        OBVIOUS
      <4>1. PICK i \in 1..Len(sorted) : sorted[i] = m
        BY DEF SortedNames
      <4>2. \E j \in 1..(i - 1) : sorted[j] = n
        BY <1>1, <3>1, <4>1 DEF SortInv, OrderRespected
      <4> QED
        BY <1>3, <1>4, <4>1, <4>2 DEF SortedNames
    <3> QED
      BY <1>5, <3>1, <3>2, <3>3
  <2>2. ASSUME NEW m \in ready'
        PROVE  m \in required /\ deps'[m] = {} /\ m \notin SortedNames'
    BY <1>0, <1>2, <1>5, <2>1, <2>2 DEF Released
  <2>3. ASSUME NEW m \in required, deps'[m] = {}, m \notin SortedNames'
        PROVE  m \in ready'
    <3>1. deps[m] = {} \/ deps[m] = {n}
      BY <1>0, <1>2, <2>3
    <3> QED
      BY <1>0, <1>2, <1>5, <2>3, <3>1 DEF Released
  <2> QED
    BY <2>2, <2>3
<1>8. TypeOK'
  <2>1. deps' \in [DOMAIN deps' -> SUBSET Name] /\ DOMAIN deps' = DOMAIN deps
    BY <1>0 DEF TypeOK
  <2>2. ready' \subseteq DOMAIN deps'
    BY <1>2, <1>7, <2>1
  <2>3. \A i, j \in 1..Len(sorted') : sorted'[i] = sorted'[j] => i = j
    BY <1>3, <1>4 DEF TypeOK, SortedNames
  <2>4. at' \in 0..Len(sorted')
    BY <1>0, <1>4 DEF TypeOK
  <2> QED
    BY <1>0, <1>4, <2>1, <2>2, <2>3, <2>4 DEF TypeOK
<1>9. SearchInv'
  BY <1>0, LawStays DEF SearchInv
<1>10. SortInv'
  <2>1. OrderRespected'
    <3> SUFFICES ASSUME NEW i \in 1..Len(sorted'), NEW m \in DependenciesOf(sorted'[i])
                 PROVE  \E j \in 1..(i - 1) : sorted'[j] = m
      <4>1. UNCHANGED <<law, request>>
        BY <1>0
      <4> QED
        BY <4>1, LawStays DEF OrderRespected
    <3>1. CASE i = Len(sorted) + 1
      BY <1>3, <1>4, <3>1 DEF SortedNames
    <3>2. CASE i \in 1..Len(sorted)
      <4>1. PICK j \in 1..(i - 1) : sorted[j] = m
        BY <1>1, <1>4, <3>2 DEF SortInv, OrderRespected
      <4> QED
        BY <1>4, <3>2, <4>1
    <3> QED
      BY <1>4, <3>1, <3>2
  <2>2. ASSUME NEW C \in SUBSET required, Circle(C)
        PROVE  C \cap SortedNames' = {}
    BY <1>1, <1>3, <1>5, <2>2 DEF SortInv, Circle
  <2>3. SortedNames' \subseteq required
    BY <1>2, <1>3, <1>5
  <2> QED
    <3>1. /\ UNCHANGED <<law, request, required>> /\ pc' = "sort"
          /\ DOMAIN deps' = required
      BY <1>0, <1>2
    <3>2. RaisesExactlyOnCircles'
      BY <3>1 DEF RaisesExactlyOnCircles
    <3> QED
      BY <1>6, <1>7, <2>1, <2>2, <2>3, <3>1, <3>2, LawStays DEF SortInv
<1>11. RunInv'
  <2>1. ComputedFromComplete'
    BY <1>0, <1>1 DEF RunInv, ComputedFromComplete, RefersByName
  <2> QED
    BY <1>0, <1>1, <2>1 DEF RunInv, AllOrNothing
<1> QED
  BY <1>8, <1>9, <1>10, <1>11

LEMMA EndSortKeeps ==
  ASSUME EngineInv, EndSort
  PROVE  EngineInv'
<1> USE DEF EngineInv
<1>0. /\ law \in Laws /\ pc = "sort" /\ ready = {} /\ pc' \in {"raised", "run"}
      /\ pc' = "raised" <=> \E n \in DOMAIN deps : deps[n] # {}
      /\ UNCHANGED <<law, request, todo, required, deps, ready, sorted, at, values, missing>>
  BY DEF EndSort, TypeOK
<1>1. request # None
  BY <1>0 DEF RunInv
<1>2. /\ DOMAIN deps = required
      /\ \A m \in required : deps[m] = DependenciesOf(m) \ SortedNames
      /\ \A m \in required : deps[m] = {} => m \in SortedNames
      /\ SortedNames \subseteq required /\ Closed(required)
  BY <1>0, <1>1 DEF SortInv, SearchInv, Closed
<1>3. SortedNames' = SortedNames
  BY <1>0 DEF SortedNames
<1>4. TypeOK' /\ SearchInv'
  BY <1>0, LawStays DEF TypeOK, SearchInv
<1>5. RaisesExactlyOnCircles'
  <2>1. CASE pc' = "raised"
    \* The names that still wait for one another are a circle.
    <3> DEFINE Left == {m \in required : deps[m] # {}}
    <3>1. Left # {} /\ Left \in SUBSET required
      BY <1>0, <1>2, <2>1
    <3>2. \A m \in Left : DependenciesOf(m) \cap Left # {}
      <4> SUFFICES ASSUME NEW m \in Left PROVE DependenciesOf(m) \cap Left # {}
        OBVIOUS
      <4>1. PICK d \in DependenciesOf(m) : d \notin SortedNames
        BY <1>2
      <4>2. d \in required /\ deps[d] # {}
        BY <1>2, <4>1 DEF Closed
      <4> QED
        BY <4>1, <4>2
    <3>3. Circle(Left)
      BY <3>1, <3>2 DEF Circle
    <3> QED
      BY <1>0, <2>1, <3>1, <3>3, LawStays DEF RaisesExactlyOnCircles
  <2>2. CASE pc' = "run"
    <3>1. SortedNames = required
      BY <1>0, <1>2, <2>2
    <3>2. ASSUME NEW C \in SUBSET required, Circle(C) PROVE FALSE
      BY <1>1, <3>1, <3>2 DEF SortInv, Circle
    <3> QED
      BY <1>0, <1>3, <2>2, <3>1, <3>2, LawStays DEF RaisesExactlyOnCircles
  <2> QED
    BY <1>0, <2>1, <2>2
<1>6. SortInv'
  <2>1. OrderRespected'
    BY <1>0, <1>1, LawStays DEF SortInv, OrderRespected
  <2>2. \A C \in SUBSET required : Circle(C) => C \cap SortedNames = {}
    BY <1>1 DEF SortInv
  <2> QED
    BY <1>0, <1>2, <1>3, <1>5, <2>1, <2>2, LawStays DEF SortInv
<1>7. RunInv'
  <2>1. at = 0 /\ DOMAIN values = {}
    BY <1>0 DEF RunInv
  <2>2. OutputsOf({sorted'[j] : j \in 1..at'}) = {}
    BY <1>0, <2>1 DEF OutputsOf
  <2> QED
    BY <1>0, <1>1, <2>1, <2>2 DEF RunInv, AllOrNothing, ComputedFromComplete
<1> QED
  BY <1>4, <1>6, <1>7

\* The actions leave the order as the sort made it.
LEMMA SortStays ==
  ASSUME SortInv, UNCHANGED <<law, request, required, deps, ready, sorted>>,
         \/ pc = "run" /\ pc' \in {"run", "done"}
         \/ UNCHANGED pc
  PROVE  SortInv'
<1>1. SortedNames' = SortedNames
  BY DEF SortedNames
<1>0. UNCHANGED <<law, request>> /\ sorted' = sorted
  OBVIOUS
<1>2. ASSUME OrderRespected PROVE OrderRespected'
  BY <1>0, <1>2, LawStays DEF OrderRespected
<1>3. CASE request = None
  BY <1>3 DEF SortInv
<1>4. CASE request # None
  <2>1. RaisesExactlyOnCircles'
    BY <1>1, <1>4, LawStays DEF SortInv, RaisesExactlyOnCircles
  <2>2. OrderRespected'
    BY <1>2, <1>4 DEF SortInv
  <2> QED
    BY <1>1, <1>4, <2>1, <2>2, LawStays DEF SortInv
<1> QED
  BY <1>3, <1>4

LEMMA PassOverKeeps ==
  ASSUME EngineInv, PassOver
  PROVE  EngineInv'
<1> USE DEF EngineInv
<1>0. /\ law \in Laws /\ pc = "run" /\ at \in Nat /\ at < Len(sorted) /\ Len(sorted) \in Nat
      /\ sorted[at + 1].field /\ at' = at + 1
      /\ UNCHANGED <<law, request, pc, todo, required, deps, ready, sorted, values, missing>>
  BY DEF PassOver, TypeOK
<1>1. SortedNames' = SortedNames
  BY <1>0 DEF SortedNames
<1>2. TypeOK' /\ SearchInv'
  BY <1>0, LawStays DEF TypeOK, SearchInv
<1>3. SortInv'
  BY <1>0, SortStays
<1>4. RunInv'
  <2>1. OutputsOf({sorted'[j] : j \in 1..at'}) = OutputsOf({sorted[j] : j \in 1..at})
    <3>1. {sorted'[j] : j \in 1..at'} = {sorted[j] : j \in 1..at} \cup {sorted[at + 1]}
      BY <1>0
    <3> QED
      BY <1>0, <3>1, OneMoreOutput
  <2>2. ComputedFromComplete'
    BY <1>0, LawStays DEF RunInv, ComputedFromComplete, RefersByName
  <2> QED
    BY <1>0, <2>1, <2>2 DEF RunInv, AllOrNothing
<1> QED
  BY <1>2, <1>3, <1>4

\* What the next action refers to was computed before, if the law is well-ordered (no
\* request) or refers to outputs by name only (sorted).
LEMMA NextIsComplete ==
  ASSUME EngineInv, pc = "run", at < Len(sorted), ~ sorted[at + 1].field,
         IF request = None THEN DeclaredInOrder ELSE RefersByName
  PROVE  IsComplete(sorted[at + 1].of)
<1> USE DEF EngineInv
<1> DEFINE o == sorted[at + 1].of
<1>0. at \in Nat /\ Len(sorted) \in Nat /\ at + 1 \in 1..Len(sorted) /\ sorted \in Seq(Name) /\ law \in Laws
  BY DEF TypeOK
<1>1. \A i \in 1..Len(sorted) : sorted[i] \in Name
  BY <1>0
<1>2. ASSUME NEW j \in 1..at, ~ sorted[j].field
      PROVE  sorted[j].of \in DOMAIN values /\ values[sorted[j].of]
  BY <1>0, <1>2 DEF RunInv, ComputedFromComplete, OutputsOf
<1>3. CASE request = None
  <2>1. /\ at + 1 \in 1..Len(Declared) /\ Len(Declared) \in Nat
        /\ \A i \in 1..Len(Declared) : sorted[i] = Output(Declared[i])
    BY <1>0, <1>3, DeclaredAssumption DEF RunInv
  <2>2. \A i \in 1..Len(Declared) : sorted[i].of = Declared[i] /\ ~ sorted[i].field
    BY <2>1, DeclaredAssumption, OutputIsName
  <2>3. \A x \in law.reads[o] \cup law.fields[o] : \E j \in 1..at : Declared[j] = x
    <3>1. o = Declared[at + 1] /\ DeclaredInOrder
      BY <1>3, <2>1, <2>2
    <3>2. (at + 1) - 1 = at
      BY <1>0
    <3>3. \A x \in law.reads[Declared[at + 1]] \cup law.fields[Declared[at + 1]] :
            \E j \in 1..((at + 1) - 1) : Declared[j] = x
      BY <2>1, <3>1 DEF DeclaredInOrder
    <3> QED
      BY <3>1, <3>2, <3>3
  <2> QED
    BY <1>0, <1>2, <2>1, <2>2, <2>3 DEF IsComplete
<1>4. CASE request # None
  <2>1. SortedNames = required /\ Closed(required)
    BY <1>4 DEF SortInv, RaisesExactlyOnCircles, SearchInv, Closed
  <2>2. sorted[at + 1] \in required
    BY <1>0, <2>1 DEF SortedNames
  <2>3. DependenciesOf(sorted[at + 1]) = analyze_dependencies(o)
    BY DEF DependenciesOf
  <2>4. law.fields[o] = {}
    <3> SUFFICES ASSUME NEW x \in law.fields[o] PROVE FALSE
      OBVIOUS
    <3>1. Field(x) \in required
      BY <2>1, <2>2, <2>3 DEF Closed, analyze_dependencies
    <3> QED
      BY <1>4, <3>1 DEF RefersByName, Field
  <2>5. \A x \in law.reads[o] : \E j \in 1..at : sorted[j] = Output(x)
    <3> SUFFICES ASSUME NEW x \in law.reads[o] PROVE \E j \in 1..at : sorted[j] = Output(x)
      OBVIOUS
    <3>1. Output(x) \in DependenciesOf(sorted[at + 1])
      BY <2>3 DEF analyze_dependencies
    <3>2. \E j \in 1..((at + 1) - 1) : sorted[j] = Output(x)
      BY <1>0, <1>4, <3>1 DEF SortInv, OrderRespected
    <3> QED
      BY <1>0, <3>2
  <2>6. \A x \in law.reads[o] : ~ Output(x).field /\ Output(x).of = x
    BY DEF Output
  <2> QED
    BY <1>2, <2>4, <2>5, <2>6 DEF IsComplete
<1> QED
  BY <1>3, <1>4

LEMMA RunActionKeeps ==
  ASSUME EngineInv, RunAction
  PROVE  EngineInv'
<1> USE DEF EngineInv
<1> DEFINE o == sorted[at + 1].of
<1>0. /\ law \in Laws /\ pc = "run" /\ at \in Nat /\ at < Len(sorted) /\ Len(sorted) \in Nat
      /\ sorted \in Seq(Name) /\ ~ sorted[at + 1].field /\ at' = at + 1
      /\ DOMAIN values \subseteq Outputs /\ \A x \in DOMAIN values : values[x] \in BOOLEAN
      /\ UNCHANGED <<law, request, todo, required, deps, ready, sorted>>
  BY DEF RunAction, TypeOK
<1>1. o \in Outputs
  <2>1. sorted[at + 1] \in Name
    BY <1>0
  <2> QED
    BY <2>1 DEF Name
<1>2. \/ missing' /\ values' = [x \in {} |-> TRUE] /\ pc' = "done"
      \/ /\ pc' = "run"
         /\ values' = [x \in DOMAIN values \cup {o} |-> IF x = o THEN IsComplete(o) ELSE values[x]]
  BY <1>0 DEF RunAction
<1>3. missing' \in BOOLEAN /\ IsComplete(o) \in BOOLEAN
  BY DEF RunAction, TypeOK, IsComplete
<1>4. SortedNames' = SortedNames
  BY <1>0 DEF SortedNames
<1>5. /\ \/ pc' = "done" /\ DOMAIN values' = {}
         \/ pc' = "run" /\ DOMAIN values' = DOMAIN values \cup {o}
      /\ values' \in [DOMAIN values' -> BOOLEAN]
  <2>1. CASE values' = [x \in {} |-> TRUE] /\ pc' = "done"
    <3>1. DOMAIN values' = {} /\ values' \in [{} -> BOOLEAN]
      BY <2>1
    <3> QED
      BY <2>1, <3>1, Zenon
  <2>2. CASE pc' = "run" /\ values' = [x \in DOMAIN values \cup {o} |-> IF x = o THEN IsComplete(o) ELSE values[x]]
    <3>1. DOMAIN values' = DOMAIN values \cup {o}
      BY <2>2
    <3>2. values' \in [DOMAIN values \cup {o} -> BOOLEAN]
      BY <1>0, <1>3, <2>2
    <3> QED
      BY <2>2, <3>1, <3>2, Zenon
  <2> QED
    BY <1>2, <2>1, <2>2
<1>6. TypeOK'
  <2>1. DOMAIN values' \subseteq Outputs /\ at' \in 0..Len(sorted')
        /\ pc' \in {"requirements", "close", "sort", "run", "raised", "done"}
    BY <1>0, <1>1, <1>5
  <2> QED
    BY <1>0, <1>3, <1>5, <2>1 DEF TypeOK
<1>7. SearchInv'
  BY <1>0, <1>5, LawStays DEF SearchInv
<1>8. SortInv'
  BY <1>0, <1>5, SortStays
<1>9. RunInv'
  <2>1. ComputedFromComplete'
    <3> SUFFICES ASSUME IF request = None THEN DeclaredInOrder ELSE RefersByName, NEW x \in DOMAIN values'
                 PROVE  values'[x]
      BY <1>0, LawStays DEF ComputedFromComplete, RefersByName
    <3>1. IsComplete(o)
      BY <1>0, NextIsComplete
    <3>2. \A y \in DOMAIN values : values[y]
      BY DEF RunInv, ComputedFromComplete
    <3> QED
      BY <1>2, <1>5, <3>1, <3>2
  <2>2. pc' = "run" => DOMAIN values' = OutputsOf({sorted'[j] : j \in 1..at'})
    <3>1. DOMAIN values = OutputsOf({sorted[j] : j \in 1..at})
      BY <1>0 DEF RunInv
    <3>2. {sorted'[j] : j \in 1..at'} = {sorted[j] : j \in 1..at} \cup {sorted[at + 1]}
      BY <1>0
    <3>3. OutputsOf({sorted[j] : j \in 1..at} \cup {sorted[at + 1]})
            = OutputsOf({sorted[j] : j \in 1..at}) \cup {o}
      BY <1>0, OneMoreOutput
    <3> QED
      BY <1>5, <3>1, <3>2, <3>3
  <2> QED
    BY <1>0, <1>5, <2>1, <2>2 DEF RunInv, AllOrNothing
<1> QED
  BY <1>6, <1>7, <1>8, <1>9

LEMMA FinishKeeps ==
  ASSUME EngineInv, Finish
  PROVE  EngineInv'
<1> USE DEF EngineInv
<1>0. /\ pc = "run" /\ at = Len(sorted) /\ pc' = "done"
      /\ UNCHANGED <<law, request, todo, required, deps, ready, sorted, at, values, missing>>
  BY DEF Finish
<1>1. SortedNames' = SortedNames
  BY <1>0 DEF SortedNames
<1>2. TypeOK' /\ SearchInv'
  BY <1>0, LawStays DEF TypeOK, SearchInv
<1>3. SortInv'
  BY <1>0, SortStays
<1>4. RunInv'
  <2>1. DOMAIN values = OutputsOf(SortedNames)
    BY <1>0 DEF RunInv, SortedNames
  <2>2. ComputedFromComplete'
    BY <1>0, LawStays DEF RunInv, ComputedFromComplete, RefersByName
  <2> QED
    BY <1>0, <1>1, <2>1, <2>2 DEF RunInv, AllOrNothing
<1> QED
  BY <1>2, <1>3, <1>4

-----------------------------------------------------------------------------

\* EngineInv is inductive: the evaluation of any law keeps the search, the sort and the
\* values consistent (RulesEngine.get_required_actions, topological_sort, evaluate).
THEOREM EngineInvariantHolds == Spec => []EngineInv
<1>1. Init => EngineInv
  BY InitHolds
<1>2. EngineInv /\ [Next]_vars => EngineInv'
  <2> SUFFICES ASSUME EngineInv, [Next]_vars PROVE EngineInv'
    OBVIOUS
  <2>1. CASE CheckRequirements
    BY <2>1, CheckRequirementsKeeps
  <2>2. CASE \E n \in todo : Follow(n)
    BY <2>2, FollowKeeps
  <2>3. CASE BeginSort
    BY <2>3, BeginSortKeeps
  <2>4. CASE \E n \in ready : SortNode(n)
    BY <2>4, SortNodeKeeps
  <2>5. CASE EndSort
    BY <2>5, EndSortKeeps
  <2>6. CASE PassOver
    BY <2>6, PassOverKeeps
  <2>7. CASE RunAction
    BY <2>7, RunActionKeeps
  <2>8. CASE Finish
    BY <2>8, FinishKeeps
  <2>9. CASE UNCHANGED vars
    <3>1. UNCHANGED <<law, request, pc, todo, required, deps, ready, sorted, at, values, missing>>
      BY <2>9 DEF vars
    <3>2. SortedNames' = SortedNames
      BY <3>1 DEF SortedNames
    <3>3. TypeOK' /\ SearchInv'
      BY <3>1, LawStays DEF EngineInv, TypeOK, SearchInv
    <3>4. SortInv'
      BY <3>1, SortStays DEF EngineInv
    <3>5. ComputedFromComplete'
      BY <3>1, LawStays DEF EngineInv, RunInv, ComputedFromComplete, RefersByName
    <3>6. RunInv'
      BY <3>1, <3>2, <3>5 DEF EngineInv, RunInv, AllOrNothing
    <3> QED
      BY <3>3, <3>4, <3>6 DEF EngineInv
  <2> QED
    BY <2>1, <2>2, <2>3, <2>4, <2>5, <2>6, <2>7, <2>8, <2>9 DEF Next
<1> QED
  BY <1>1, <1>2, PTL DEF Spec

\* Every variable keeps its type, and no name is sorted twice.
THEOREM EngineTypeCorrect == Spec => []TypeOK
<1>1. EngineInv => TypeOK
  BY DEF EngineInv
<1> QED
  BY <1>1, EngineInvariantHolds, PTL

\* get_required_actions finds what the request needs, all of it and nothing else.
THEOREM RequiredFound == Spec => []RequiredExactly
<1>1. EngineInv => RequiredExactly
  BY DEF EngineInv, SearchInv, Closed, RequiredExactly
<1> QED
  BY <1>1, EngineInvariantHolds, PTL

\* topological_sort puts every name after those it depends on.
THEOREM OrderCorrect == Spec => []OrderRespected
<1>1. EngineInv => OrderRespected
  BY DEF EngineInv, SortInv, OrderRespected
<1> QED
  BY <1>1, EngineInvariantHolds, PTL

\* topological_sort raises exactly if what is required contains a circle.
THEOREM CirclesFound == Spec => []RaisesExactlyOnCircles
<1>1. EngineInv => RaisesExactlyOnCircles
  BY DEF EngineInv, SortInv, RaisesExactlyOnCircles
<1> QED
  BY <1>1, EngineInvariantHolds, PTL

\* evaluate returns every output it set out to compute, or none.
THEOREM ResultWhole == Spec => []AllOrNothing
<1>1. EngineInv => AllOrNothing
  BY DEF EngineInv, RunInv
<1> QED
  BY <1>1, EngineInvariantHolds, PTL

\* evaluate computes no output from one that is still to come, except through the
\* references to fields that the analysis of dependencies takes for other names.
THEOREM ValuesComplete == Spec => []ComputedFromComplete
<1>1. EngineInv => ComputedFromComplete
  BY DEF EngineInv, RunInv
<1> QED
  BY <1>1, EngineInvariantHolds, PTL

-----------------------------------------------------------------------------
(* The end of an evaluation                                                 *)

\* There are two names for each output: its own and one for its fields.
LEMMA NamesAreFinite == IsFiniteSet(Name) /\ Cardinality(Name) \in Nat
<1> DEFINE Own == {Output(x) : x \in Outputs}
           Of  == {Field(x) : x \in Outputs}
           own == [x \in Outputs |-> Output(x)]
           of  == [x \in Outputs |-> Field(x)]
<1>1. own \in Surjection(Outputs, Own) /\ of \in Surjection(Outputs, Of)
  BY DEF Surjection
<1>2. IsFiniteSet(Own) /\ IsFiniteSet(Of)
  BY <1>1, FS_Surjection, LawsAssumption
<1>3. Name = Own \cup Of
  <2>1. ASSUME NEW n \in Name PROVE n \in Own \cup Of
    <3>1. n.of \in Outputs /\ n.field \in BOOLEAN /\ n = [of |-> n.of, field |-> n.field]
      BY DEF Name
    <3>2. n = Output(n.of) \/ n = Field(n.of)
      BY <3>1 DEF Output, Field
    <3> QED
      BY <3>1, <3>2
  <2>2. Own \cup Of \subseteq Name
    <3>1. \A x \in Outputs : Output(x) \in Name /\ Field(x) \in Name
      BY DEF Name, Output, Field
    <3> QED
      BY <3>1
  <2> QED
    BY <2>1, <2>2
<1> QED
  BY <1>2, <1>3, FS_Union, FS_CardinalityType

\* What was found and what was sorted are names, none of them twice.
LEMMA NamesCounted ==
  ASSUME TypeOK
  PROVE  /\ IsFiniteSet(required) /\ Cardinality(required) \in 0..Cardinality(Name)
         /\ IsFiniteSet(SortedNames) /\ Cardinality(SortedNames) = Len(sorted)
         /\ Len(sorted) \in 0..Cardinality(Name)
<1>1. \A S \in SUBSET Name : IsFiniteSet(S) /\ Cardinality(S) \in 0..Cardinality(Name)
  BY NamesAreFinite, FS_Subset, FS_CardinalityType
<1>2. /\ required \in SUBSET Name /\ sorted \in Seq(Name) /\ Len(sorted) \in Nat
      /\ \A i, j \in 1..Len(sorted) : sorted[i] = sorted[j] => i = j
  BY DEF TypeOK
<1>3. SortedNames \in SUBSET Name
  BY <1>2 DEF SortedNames
<1>4. sorted \in Bijection(1..Len(sorted), SortedNames)
  <2>1. sorted \in [1..Len(sorted) -> SortedNames]
    BY <1>2 DEF SortedNames
  <2>2. \A n \in SortedNames : \E i \in 1..Len(sorted) : sorted[i] = n
    BY DEF SortedNames
  <2>3. sorted \in Injection(1..Len(sorted), SortedNames)
    BY <1>2, <2>1 DEF Injection, IsInjective
  <2>4. sorted \in Surjection(1..Len(sorted), SortedNames)
    BY <2>1, <2>2 DEF Surjection
  <2> QED
    BY <2>3, <2>4 DEF Bijection
<1>5. Cardinality(SortedNames) = Len(sorted)
  BY <1>2, <1>4, FS_CountingElements DEF ExistsBijection
<1> QED
  BY <1>1, <1>2, <1>3, <1>5

LEMMA StepsAreCounted == EngineInv => StepsLeft \in Nat
<1> DEFINE N == Cardinality(Name)
<1> SUFFICES ASSUME EngineInv PROVE StepsLeft \in Nat
  OBVIOUS
<1>1. /\ N \in Nat /\ Len(Declared) \in Nat
      /\ Cardinality(required) \in 0..N /\ Len(sorted) \in 0..N /\ at \in 0..Len(sorted)
  BY NamesAreFinite, NamesCounted, DeclaredAssumption DEF EngineInv, TypeOK
<1>2. \/ StepsLeft = 3 * N + Len(Declared) + 4
      \/ StepsLeft = (N - Cardinality(required)) + 2 * N + 3
      \/ StepsLeft = (N - Len(sorted)) + N + 2
      \/ StepsLeft = Len(sorted) - at + 1
      \/ StepsLeft = 0
  BY DEF StepsLeft, NamesLeft
<1> HIDE DEF N
<1> QED
  BY <1>1, <1>2

LEMMA StepsGrowFewer ==
  ASSUME EngineInv, EngineInv', Next
  PROVE  StepsLeft' < StepsLeft
<1> DEFINE N == Cardinality(Name)
<1>1. /\ N \in Nat /\ Len(Declared) \in Nat
      /\ Cardinality(required) \in 0..N /\ Len(sorted) \in 0..N /\ at \in 0..Len(sorted)
      /\ IsFiniteSet(required)
  BY NamesAreFinite, NamesCounted, DeclaredAssumption DEF EngineInv, TypeOK
<1>2. N' = N
  BY DEF Name
<1> HIDE DEF N
<1>3. CASE CheckRequirements
  <2>1. pc = "requirements" /\ required = {} /\ required' = {}
    BY <1>3 DEF CheckRequirements, EngineInv, SearchInv
  <2>2. at' = 0 /\ Cardinality(required') = 0
    BY <1>3, <2>1, FS_EmptySet DEF CheckRequirements, EngineInv, RunInv
  <2>3. pc' = "run" => Len(sorted') = Len(Declared)
    BY <1>1, <1>3 DEF CheckRequirements
  <2>4. StepsLeft = 3 * N + Len(Declared) + 4
    BY <2>1 DEF StepsLeft, N
  <2>5. \/ pc' = "done" /\ StepsLeft' = 0
        \/ pc' = "run" /\ StepsLeft' = Len(Declared) - 0 + 1
        \/ pc' = "close" /\ StepsLeft' = (N - 0) + 2 * N + 3
    BY <1>2, <1>3, <2>2, <2>3 DEF CheckRequirements, StepsLeft, NamesLeft, N
  <2> QED
    BY <1>1, <2>4, <2>5
<1>4. ASSUME NEW n \in todo, Follow(n) PROVE StepsLeft' < StepsLeft
  <2>1. n \notin required
    BY <1>4 DEF Follow, EngineInv, SearchInv, RunInv
  <2>2. Cardinality(required') = Cardinality(required) + 1
    BY <1>1, <1>4, <2>1, FS_AddElement DEF Follow
  <2>3. /\ StepsLeft = (N - Cardinality(required)) + 2 * N + 3
        /\ StepsLeft' = (N - (Cardinality(required) + 1)) + 2 * N + 3
    BY <1>2, <1>4, <2>2 DEF Follow, StepsLeft, NamesLeft, N
  <2> QED
    BY <1>1, <2>3
<1>5. CASE BeginSort
  <2>1. sorted = <<>>
    BY <1>5 DEF BeginSort, EngineInv, SortInv, RunInv
  <2>2. /\ StepsLeft = (N - Cardinality(required)) + 2 * N + 3
        /\ StepsLeft' = (N - 0) + N + 2
    BY <1>2, <1>5, <2>1 DEF BeginSort, StepsLeft, NamesLeft, N
  <2> QED
    BY <1>1, <2>2
<1>6. ASSUME NEW n \in ready, SortNode(n) PROVE StepsLeft' < StepsLeft
  <2>1. Len(sorted') = Len(sorted) + 1
    BY <1>6 DEF SortNode, EngineInv, TypeOK
  <2>2. /\ StepsLeft = (N - Len(sorted)) + N + 2
        /\ StepsLeft' = (N - (Len(sorted) + 1)) + N + 2
    BY <1>2, <1>6, <2>1 DEF SortNode, StepsLeft, NamesLeft, N
  <2> QED
    BY <1>1, <2>2
<1>7. CASE EndSort
  <2>1. /\ StepsLeft = (N - Len(sorted)) + N + 2
        /\ StepsLeft' = IF pc' = "run" THEN Len(sorted) - at + 1 ELSE 0
    BY <1>2, <1>7 DEF EndSort, StepsLeft, NamesLeft, N
  <2> QED
    BY <1>1, <2>1
<1>8. CASE PassOver \/ RunAction
  <2>1. /\ StepsLeft = Len(sorted) - at + 1
        /\ StepsLeft' = IF pc' = "run" THEN Len(sorted) - (at + 1) + 1 ELSE 0
    BY <1>8 DEF PassOver, RunAction, StepsLeft
  <2> QED
    BY <1>1, <1>8, <2>1 DEF PassOver, RunAction
<1>9. CASE Finish
  <2>1. StepsLeft = Len(sorted) - at + 1 /\ StepsLeft' = 0
    BY <1>9 DEF Finish, StepsLeft
  <2> QED
    BY <1>1, <2>1
<1> QED
  BY <1>3, <1>4, <1>5, <1>6, <1>7, <1>8, <1>9 DEF Next

\* An evaluation of any law, circles included, takes no more steps than three for each
\* name and one for each action: get_required_actions, topological_sort and the loop of
\* evaluate come to their ends.
THEOREM EvaluationBounded == Spec => [](StepsLeft \in Nat) /\ EveryStepCounts
<1>1. EngineInv /\ EngineInv' /\ [Next]_vars => [StepsLeft' < StepsLeft]_vars
  BY StepsGrowFewer
<1> QED
  BY <1>1, StepsAreCounted, EngineInvariantHolds, PTL DEF Spec, EveryStepCounts

=============================================================================
