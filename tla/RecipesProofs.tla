--------------------------- MODULE RecipesProofs ---------------------------
(***************************************************************************)
(* Proofs about the registry: what from_config builds from any file, and   *)
(* the symmetry of the fight for a lane.                                   *)
(***************************************************************************)
EXTENDS Recipes, SequenceTheorems, WellFoundedInduction, TLAPS

-----------------------------------------------------------------------------
(* from_config *)

\* g is what the loop has built after each of the first n entries.
Built(raw, n, g) ==
  g = [ i \in 0..n |-> IF i = 0 THEN << >> ELSE Put(g[i - 1], raw[i]) ]

\* A set of natural numbers has a least one: induction, as the provers take it.
LEMMA Least ==
  ASSUME NEW T, T \subseteq Nat, T # {}
  PROVE  \E i \in T : \A k \in T : i <= k
  <1>1. PICK i \in T : \A k \in T : << k, i >> \notin OpToRel(<, Nat)
    BY NatLessThanWellFounded, WFMin
  <1>2. \A k \in T : ~(k < i)
    BY <1>1 DEF OpToRel
  <1>. QED
    BY <1>2

\* The recursion has a solution, so that FromConfig speaks of it.
LEMMA BuiltExists ==
  ASSUME NEW raw, NEW len \in Nat
  PROVE  \E g : Built(raw, len, g)
  <1>. DEFINE T == { n \in Nat : ~ \E g : Built(raw, n, g) }
  <1>1. SUFFICES ASSUME T # {} PROVE FALSE
    OBVIOUS
  <1>2. PICK n \in T : \A k \in T : n <= k
    BY <1>1, Least
  <1>3. CASE n = 0
    <2>1. Built(raw, 0, [ i \in 0..0 |-> << >> ])
      BY DEF Built
    <2>. QED
      BY <1>2, <1>3, <2>1
  <1>4. CASE n # 0
    <2>1. n - 1 \in Nat /\ n - 1 \notin T
      BY <1>2, <1>4
    <2>2. PICK g : Built(raw, n - 1, g)
      BY <2>1
    <2>. DEFINE h == [ i \in 0..n |-> IF i < n THEN g[i] ELSE Put(g[n - 1], raw[n]) ]
    <2>3. \A i \in 0..n : h[i] = IF i = 0 THEN << >> ELSE Put(h[i - 1], raw[i])
      BY <1>4, <2>1, <2>2 DEF Built
    <2>4. Built(raw, n, h)
      BY <2>3 DEF Built
    <2>. QED
      BY <1>2, <2>4
  <1>. QED
    BY <1>3, <1>4

LEMMA FromConfigBuilt ==
  ASSUME NEW raw, Len(raw) \in Nat
  PROVE  \E g : Built(raw, Len(raw), g) /\ FromConfig(raw) = g[Len(raw)]
  <1>1. \E g : Built(raw, Len(raw), g)
    BY BuiltExists
  <1>. DEFINE built == CHOOSE g : Built(raw, Len(raw), g)
  <1>2. Built(raw, Len(raw), built)
    BY <1>1
  <1>3. FromConfig(raw) = built[Len(raw)]
    BY DEF FromConfig, Built
  <1>. QED
    BY <1>2, <1>3

\* One assignment to the dict keeps what the dict is to what was read.
LEMMA PutKeeps ==
  ASSUME NEW S, NEW raw \in Seq(S), NEW n \in Nat, n < Len(raw),
         NEW recipes \in Seq(S), IsDict(recipes, raw, n)
  PROVE  Put(recipes, raw[n + 1]) \in Seq(S) /\ IsDict(Put(recipes, raw[n + 1]), raw, n + 1)
  <1>. DEFINE entry == raw[n + 1]
              now == Put(recipes, entry)
              same(i) == recipes[i].id = entry.id
  <1>1. /\ entry \in S
        /\ 1..(n + 1) = 1..n \cup {n + 1} /\ DOMAIN recipes = 1..Len(recipes)
        /\ Len(recipes) \in Nat
    BY ElementOfSeq
  <1>2. ASSUME NEW i \in DOMAIN recipes
        PROVE  /\ recipes[i].id \in { raw[m].id : m \in 1..n }
               /\ \E m \in 1..n :
                    recipes[i] = raw[m] /\ \A l \in (m + 1)..n : raw[l].id # raw[m].id
    BY DEF IsDict
  <1>3. ASSUME NEW i \in DOMAIN recipes, NEW k \in DOMAIN recipes, i < k
        PROVE  \E m \in 1..n :
                 raw[m].id = recipes[i].id /\ \A l \in 1..m : raw[l].id # recipes[k].id
    BY <1>3 DEF IsDict
  <1>4. \A m \in 1..n : \E i \in DOMAIN recipes : recipes[i].id = raw[m].id
    <2>1. \A m \in 1..n : raw[m].id \in { recipes[i].id : i \in DOMAIN recipes }
      BY DEF IsDict
    <2>. QED
      BY <2>1
  <1>5. ASSUME NEW d, \A i \in DOMAIN d : d[i].id \in { raw[m].id : m \in 1..(n + 1) },
               \A m \in 1..(n + 1) : \E i \in DOMAIN d : d[i].id = raw[m].id
        PROVE  { d[i].id : i \in DOMAIN d } = { raw[m].id : m \in 1..(n + 1) }
    BY <1>5
  <1>6. CASE \E i \in DOMAIN recipes : same(i)
    <2>1. /\ now \in Seq(S) /\ DOMAIN now = DOMAIN recipes
          /\ \A i \in DOMAIN recipes : now[i] = IF same(i) THEN entry ELSE recipes[i]
      BY <1>1, <1>6 DEF Put
    <2>. HIDE DEF now
    <2>2. \A i \in DOMAIN recipes : now[i].id = recipes[i].id
      BY <2>1
    <2>3. { now[i].id : i \in DOMAIN now } = { raw[m].id : m \in 1..(n + 1) }
      <3>1. \A i \in DOMAIN now : now[i].id \in { raw[m].id : m \in 1..(n + 1) }
        BY <1>1, <1>2, <2>1, <2>2
      <3>2. \A m \in 1..(n + 1) : \E i \in DOMAIN now : now[i].id = raw[m].id
        BY <1>1, <1>6, <1>4, <2>1, <2>2
      <3>. QED
        BY <1>5, <3>1, <3>2
    <2>4. ASSUME NEW i \in DOMAIN now
          PROVE  \E m \in 1..(n + 1) :
                   now[i] = raw[m] /\ \A l \in (m + 1)..(n + 1) : raw[l].id # raw[m].id
      <3>1. CASE same(i)
        BY <2>1, <3>1
      <3>2. CASE ~same(i)
        <4>1. PICK m \in 1..n :
                recipes[i] = raw[m] /\ \A l \in (m + 1)..n : raw[l].id # raw[m].id
          BY <1>2, <2>1
        <4>2. \A l \in (m + 1)..(n + 1) : raw[l].id # raw[m].id
          BY <3>2, <4>1
        <4>. QED
          BY <2>1, <3>2, <4>1, <4>2
      <3>. QED
        BY <3>1, <3>2
    <2>5. ASSUME NEW i \in DOMAIN now, NEW k \in DOMAIN now, i < k
          PROVE  \E m \in 1..(n + 1) :
                   raw[m].id = now[i].id /\ \A l \in 1..m : raw[l].id # now[k].id
      BY <1>1, <1>3, <2>1, <2>2, <2>5
    <2>. QED
      BY <2>1, <2>3, <2>4, <2>5 DEF IsDict, now
  <1>7. CASE ~ \E i \in DOMAIN recipes : same(i)
    <2>1. /\ now \in Seq(S) /\ DOMAIN now = DOMAIN recipes \cup {Len(recipes) + 1}
          /\ \A i \in DOMAIN recipes : now[i] = recipes[i]
          /\ now[Len(recipes) + 1] = entry
      BY <1>1, <1>7, AppendProperties DEF Put
    <2>. HIDE DEF now
    <2>2. \A m \in 1..n : raw[m].id # entry.id
      BY <1>7, <1>4
    <2>3. { now[i].id : i \in DOMAIN now } = { raw[m].id : m \in 1..(n + 1) }
      <3>1. \A i \in DOMAIN now : now[i].id \in { raw[m].id : m \in 1..(n + 1) }
        BY <1>1, <1>2, <2>1
      <3>2. \A m \in 1..(n + 1) : \E i \in DOMAIN now : now[i].id = raw[m].id
        BY <1>1, <1>4, <2>1
      <3>. QED
        BY <1>5, <3>1, <3>2
    <2>4. ASSUME NEW i \in DOMAIN now
          PROVE  \E m \in 1..(n + 1) :
                   now[i] = raw[m] /\ \A l \in (m + 1)..(n + 1) : raw[l].id # raw[m].id
      <3>1. CASE i = Len(recipes) + 1
        BY <2>1, <3>1
      <3>2. CASE i \in DOMAIN recipes
        <4>1. PICK m \in 1..n :
                recipes[i] = raw[m] /\ \A l \in (m + 1)..n : raw[l].id # raw[m].id
          BY <1>2, <3>2
        <4>2. \A l \in (m + 1)..(n + 1) : raw[l].id # raw[m].id
          BY <2>2, <4>1
        <4>. QED
          BY <2>1, <3>2, <4>1, <4>2
      <3>. QED
        BY <2>1, <3>1, <3>2
    <2>5. ASSUME NEW i \in DOMAIN now, NEW k \in DOMAIN now, i < k
          PROVE  \E m \in 1..(n + 1) :
                   raw[m].id = now[i].id /\ \A l \in 1..m : raw[l].id # now[k].id
      <3>1. i \in DOMAIN recipes
        BY <1>1, <2>1, <2>5
      <3>2. CASE k \in DOMAIN recipes
        <4>1. PICK m \in 1..n :
                raw[m].id = recipes[i].id /\ \A l \in 1..m : raw[l].id # recipes[k].id
          BY <1>3, <2>5, <3>1, <3>2
        <4>. QED
          BY <1>1, <2>1, <3>1, <3>2, <4>1
      <3>3. CASE k = Len(recipes) + 1
        <4>1. PICK m \in 1..n : recipes[i] = raw[m]
          BY <1>2, <3>1
        <4>2. \A l \in 1..m : raw[l].id # entry.id
          BY <2>2
        <4>. QED
          BY <2>1, <3>1, <3>3, <4>1, <4>2
      <3>. QED
        BY <2>1, <3>2, <3>3
    <2>. QED
      BY <2>1, <2>3, <2>4, <2>5 DEF IsDict, now
  <1>. QED
    BY <1>6, <1>7

\* The loop invariant of from_config, from the least entry that breaks it.
LEMMA BuiltIsDict ==
  ASSUME NEW S, NEW raw \in Seq(S), NEW g, Built(raw, Len(raw), g)
  PROVE  \A n \in 0..Len(raw) : g[n] \in Seq(S) /\ IsDict(g[n], raw, n)
  <1>. DEFINE T == { n \in 0..Len(raw) : ~(g[n] \in Seq(S) /\ IsDict(g[n], raw, n)) }
  <1>1. SUFFICES ASSUME T # {} PROVE FALSE
    OBVIOUS
  <1>2. PICK n \in T : \A k \in T : n <= k
    <2>1. T \subseteq Nat
      OBVIOUS
    <2>. QED
      BY <1>1, <2>1, Least
  <1>3. CASE n = 0
    <2>1. g[0] = << >>
      BY DEF Built
    <2>2. << >> \in Seq(S) /\ DOMAIN << >> = {} /\ 1..0 = {}
      OBVIOUS
    <2>3. IsDict(<< >>, raw, 0)
      BY <2>2 DEF IsDict
    <2>. QED
      BY <1>2, <1>3, <2>1, <2>2, <2>3
  <1>4. CASE n # 0
    <2>1. n - 1 \in Nat /\ n - 1 < Len(raw) /\ n - 1 \notin T /\ n = (n - 1) + 1
      BY <1>2, <1>4
    <2>2. g[n - 1] \in Seq(S) /\ IsDict(g[n - 1], raw, n - 1)
      BY <2>1
    <2>3. g[n] = Put(g[n - 1], raw[n])
      BY <1>4 DEF Built
    <2>. QED
      BY <1>2, <2>1, <2>2, <2>3, PutKeeps
  <1>. QED
    BY <1>3, <1>4

\* from_config: whatever the file lists, the registry has each id it mentions
\* once, in the order of first mention and with its latest contents.
THEOREM ConfigIsDict ==
  ASSUME NEW raw \in Seq(RecipeType)
  PROVE  FromConfig(raw) \in Seq(RecipeType) /\ IsDict(FromConfig(raw), raw, Len(raw))
  <1>1. PICK g : Built(raw, Len(raw), g) /\ FromConfig(raw) = g[Len(raw)]
    BY FromConfigBuilt
  <1>2. Len(raw) \in 0..Len(raw)
    OBVIOUS
  <1>. QED
    BY <1>1, <1>2, BuiltIsDict

\* What the other modules assume of Registry is what from_config leaves: a
\* file whose recipes all list a node gives a registry.
THEOREM ConfigIsRegistry ==
  ASSUME NEW raw \in Seq(RecipeType), \A n \in DOMAIN raw : raw[n].nodes # << >>
  PROVE  LET recipes == FromConfig(raw) IN
         /\ recipes \in Seq(RecipeType)
         /\ \A i \in DOMAIN recipes : recipes[i].nodes # << >>
         /\ \A i, k \in DOMAIN recipes : recipes[i].id = recipes[k].id => i = k
  <1>. DEFINE recipes == FromConfig(raw)
  <1>1. recipes \in Seq(RecipeType) /\ IsDict(recipes, raw, Len(raw))
    BY ConfigIsDict
  <1>. HIDE DEF recipes
  <1>2. \A i \in DOMAIN recipes : recipes[i].nodes # << >>
    BY <1>1 DEF IsDict
  <1>3. ASSUME NEW i \in DOMAIN recipes, NEW k \in DOMAIN recipes, i < k
        PROVE  recipes[i].id # recipes[k].id
    <2>1. PICK m \in 1..Len(raw) :
            raw[m].id = recipes[i].id /\ \A l \in 1..m : raw[l].id # recipes[k].id
      BY <1>1, <1>3 DEF IsDict
    <2>. QED
      BY <2>1
  <1>4. \A i \in DOMAIN recipes : i \in Nat
    BY <1>1
  <1>. QED
    BY <1>1, <1>2, <1>3, <1>4 DEF recipes

-----------------------------------------------------------------------------
(* conflicting *)

\* conflicting is symmetric: whoever fights a recipe is fought by it,
\* whichever side declares it.
THEOREM ConflictsAreMutual ==
  ASSUME NEW a \in RecipeIds, NEW b \in RecipeIds
  PROVE  a \in Conflicting(b) <=> b \in Conflicting(a)
  BY DEF Conflicting, SamePort

=============================================================================
