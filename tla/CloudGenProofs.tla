--------------------------- MODULE CloudGenProofs ---------------------------
(***************************************************************************)
(* What CloudGen promises for every set of specifications, overlay files   *)
(* and spellings.  First the recursions of schemaNames are unfolded: no    *)
(* two schemas ever get the same Go name.  Then what the overlays do to a  *)
(* specification: they respell keys and leave the rest alone.  Last the    *)
(* run, killed or not.                                                     *)
(***************************************************************************)
EXTENDS CloudGen, FiniteSetTheorems, SequenceTheorems, WellFoundedInduction, TLAPS

-----------------------------------------------------------------------------
(* Recursion over 0..n.                                                    *)

\* What is true of 0, and of i when it is of i-1, is true of all of 0..n.
LEMMA Climb ==
    ASSUME NEW n \in Nat, NEW P,
           0 \in P, \A i \in 1..n : i - 1 \in P => i \in P
    PROVE  \A i \in 0..n : i \in P
<1> SUFFICES ASSUME NEW j \in 0..n, j \notin P PROVE FALSE
  OBVIOUS
<1> DEFINE T == {i \in 0..n : i \notin P}
<1>1. T \in SUBSET Nat /\ T # {}
  OBVIOUS
<1>2. PICK m \in T : \A i \in T : ~(<<i, m>> \in OpToRel(<, Nat))
  BY <1>1, NatLessThanWellFounded, WFMin
<1>3. m \in 1..n
  OBVIOUS
<1>4. <<m - 1, m>> \in OpToRel(<, Nat)
  BY <1>3 DEF OpToRel
<1>5. m - 1 \notin T
  BY <1>2, <1>4
<1> QED
  BY <1>3, <1>5

\* g begins with first, and step gives its next value.
Iterates(n, first, step, g) == g = [i \in 0..n |-> IF i = 0 THEN first ELSE step[<<i, g[i - 1]>>]]

\* There is such a g, whatever step is.
LEMMA Recursion ==
    ASSUME NEW n \in Nat, NEW first, NEW step
    PROVE  \E g : Iterates(n, first, step, g)
<1> DEFINE Runs(m, g) == g = [i \in 0..m |-> IF i = 0 THEN first ELSE step[<<i, g[i - 1]>>]]
           P == {m \in 0..n : \E g : Runs(m, g)}
<1>1. 0 \in P
  <2>1. Runs(0, [i \in 0..0 |-> first])
    OBVIOUS
  <2> HIDE DEF Runs
  <2> QED
    BY <2>1
<1>2. ASSUME NEW m \in 1..n, m - 1 \in P
      PROVE  m \in P
  <2>1. PICK g : Runs(m - 1, g)
    BY <1>2
  <2> DEFINE h == [i \in 0..m |-> IF i = m THEN step[<<m, g[m - 1]>>] ELSE g[i]]
  <2>2. \A i \in 0..(m - 1) : g[i] = IF i = 0 THEN first ELSE step[<<i, g[i - 1]>>]
    BY <2>1
  <2>3. ASSUME NEW i \in 0..m
        PROVE  h[i] = IF i = 0 THEN first ELSE step[<<i, h[i - 1]>>]
    <3>1. CASE i = m
      BY <3>1
    <3>2. CASE i # m
      <4>1. i \in 0..(m - 1) /\ h[i] = g[i] /\ (i # 0 => h[i - 1] = g[i - 1])
        BY <3>2
      <4> QED
        BY <2>2, <4>1
    <3> QED
      BY <3>1, <3>2
  <2> HIDE DEF h
  <2>4. h = [i \in 0..m |-> h[i]]
    BY DEF h
  <2>5. Runs(m, h)
    BY <2>3, <2>4
  <2> QED
    BY <2>5
<1> HIDE DEF P
<1>3. \A m \in 0..n : m \in P
  BY <1>1, <1>2, Climb
<1>4. n \in P
  BY <1>3
<1> QED
  BY <1>4 DEF P, Iterates

\* The values of a recursion stay where each step leads.
LEMMA RecursionStays ==
    ASSUME NEW n \in Nat, NEW g, NEW good,
           g[0] \in good[0],
           \A i \in 1..n : g[i - 1] \in good[i - 1] => g[i] \in good[i]
    PROVE  \A i \in 0..n : g[i] \in good[i]
<1> DEFINE P == {i \in 0..n : g[i] \in good[i]}
<1>1. 0 \in P /\ \A i \in 1..n : i - 1 \in P => i \in P
  OBVIOUS
<1> HIDE DEF P
<1>2. \A i \in 0..n : i \in P
  BY <1>1, Climb
<1> QED
  BY <1>2 DEF P

-----------------------------------------------------------------------------
(* Names.                                                                  *)

Name == Seq(STRING)

ConcatRun(segs, C) == C = [i \in 0..Len(segs) |-> IF i = 0 THEN <<>> ELSE C[i-1] \o segs[i]]

\* Names can be put together.
LEMMA Names ==
    /\ <<>> \in Name
    /\ \A x, y \in Name : x \o y \in Name
    /\ \A x \in Name, w \in STRING : /\ Append(x, w) \in Name
                                     /\ Len(Append(x, w)) = Len(x) + 1
                                     /\ Append(x, w)[Len(x) + 1] = w
    /\ \A x \in Name : Len(x) \in Nat
<1>1. <<>> \in Name
  BY DEF Name
<1>2. \A x, y \in Name : x \o y \in Name
  BY ConcatProperties DEF Name
<1>3. \A x \in Name, w \in STRING : /\ Append(x, w) \in Name
                                     /\ Len(Append(x, w)) = Len(x) + 1
                                     /\ Append(x, w)[Len(x) + 1] = w
  BY AppendProperties DEF Name
<1>4. \A x \in Name : Len(x) \in Nat
  BY LenProperties DEF Name
<1> QED
  BY <1>1, <1>2, <1>3, <1>4

\* Segments, put together, are a sequence of words.
LEMMA ConcatType ==
    ASSUME NEW segs \in Seq(Name)
    PROVE  Concat(segs) \in Name
<1> DEFINE n     == Len(segs)
           empty == <<>>
           step  == [p \in (1..n) \X Name |-> p[2] \o segs[p[1]]]
           good  == [i \in 0..n |-> Name]
           C     == CHOOSE C : ConcatRun(segs, C)
<1>0. n \in Nat /\ empty \in Name
  BY Names
<1>n. \A i \in 1..n : i - 1 \in 0..n /\ i \in 0..n
  BY <1>0
<1>1. \A i \in 0..n : good[i] = Name
  OBVIOUS
<1>2. ASSUME NEW i \in 1..n, NEW x \in Name
      PROVE  x \o segs[i] \in Name /\ step[<<i, x>>] = x \o segs[i]
  <2>1. segs[i] \in Name
    OBVIOUS
  <2> QED
    BY <2>1, Names
<1>3. \E c : ConcatRun(segs, c)
  <2> HIDE DEF step, good, empty
  <2>1. PICK g : Iterates(n, empty, step, g)
    <3> HIDE DEF n
    <3> QED
      BY <1>0, Recursion
  <2>2. /\ g[0] = empty /\ \A i \in 1..n : g[i] = step[<<i, g[i - 1]>>]
        /\ g = [i \in 0..n |-> g[i]]
    BY <1>0, <2>1 DEF Iterates
  <2>3. \A i \in 1..n : g[i - 1] \in good[i - 1] => g[i] \in good[i]
    <3> SUFFICES ASSUME NEW i \in 1..n, g[i - 1] \in Name PROVE g[i] \in Name
      BY <1>1, <1>n
    <3> QED
      BY <1>2, <2>2
  <2>4. \A i \in 0..n : g[i] \in Name
    <3>1. g[0] \in good[0]
      BY <1>0, <1>1, <2>2
    <3> HIDE DEF n
    <3> QED
      BY <1>0, <1>1, <2>3, <3>1, RecursionStays
  <2>5. \A i \in 1..n : g[i] = g[i-1] \o segs[i]
    BY <1>2, <1>n, <2>2, <2>4
  <2>6. \A i \in 0..n : g[i] = IF i = 0 THEN empty ELSE g[i-1] \o segs[i]
    BY <1>0, <2>2, <2>5
  <2>7. g = [i \in 0..n |-> IF i = 0 THEN empty ELSE g[i-1] \o segs[i]]
    BY <2>2, <2>6
  <2> QED
    BY <2>7 DEF ConcatRun, empty
<1>4. ConcatRun(segs, C)
  BY <1>3
<1>5. Concat(segs) = C[n]
  BY DEF Concat, ConcatRun
<1> HIDE DEF C, good
<1>6. C[0] = <<>> /\ \A i \in 1..n : C[i] = C[i-1] \o segs[i]
  BY <1>0, <1>4 DEF ConcatRun
<1>7. C[0] \in good[0] /\ \A i \in 1..n : C[i - 1] \in good[i - 1] => C[i] \in good[i]
  <2>1. C[0] \in good[0]
    BY <1>0, <1>1, <1>6, Names
  <2> SUFFICES ASSUME NEW i \in 1..n, C[i - 1] \in Name PROVE C[i] \in Name
    BY <1>1, <1>n, <2>1
  <2> QED
    BY <1>2, <1>6
<1>8. \A i \in 0..n : C[i] \in good[i]
  <2> HIDE DEF n
  <2> QED
    BY <1>0, <1>7, RecursionStays
<1> QED
  BY <1>0, <1>1, <1>5, <1>8

\* The last segments of a key spell a name.
LEMMA NameAtType ==
    ASSUME NEW k \in DOMAIN Words, NEW depth \in 1..Len(Words[k])
    PROVE  NameAt(k, depth) \in Name
<1> DEFINE w == Words[k]
<1>1. w \in Seq(Name)
  BY NameAssumption DEF NameAssumption, Name
<1>2. SubSeq(w, Len(w) - depth + 1, Len(w)) \in Seq(Name)
  <2>1. /\ Len(w) \in Nat /\ Len(w) - depth + 1 \in 1..Len(w) + 1 /\ Len(w) \in 0..Len(w)
        /\ Len(w) - depth + 1 \in Int
    BY <1>1
  <2> HIDE DEF w
  <2> QED
    BY <1>1, <2>1, SubSeqProperties
<1> QED
  BY <1>2, ConcatType DEF NameAt

\* A numbered name is a name, and two numbers make two names.
LEMMA NumberedDiffer ==
    ASSUME NEW name \in Name, NEW i \in 1..Len(Words), NEW j \in 1..Len(Words)
    PROVE  /\ Numbered(name, i) \in Name
           /\ Numbered(name, i) = Numbered(name, j) => i = j
<1>1. /\ Numeral \in [1..Len(Words) -> STRING]
      /\ \A a, b \in 1..Len(Words) : Numeral[a] = Numeral[b] => a = b
  BY NameAssumption DEF NameAssumption, IsInjective
<1>2. \A a \in 1..Len(Words) :
        /\ Append(name, Numeral[a]) \in Name
        /\ Len(Append(name, Numeral[a])) = Len(name) + 1
        /\ Append(name, Numeral[a])[Len(name) + 1] = Numeral[a]
        /\ Len(name) \in Nat
  BY <1>1, Names
<1>3. Numbered(name, i) = Numbered(name, j) => i = j
  <2>0. \A a \in 1..Len(Words) : Append(name, Numeral[a]) # name
    BY <1>2
  <2>1. CASE i = 1 \/ j = 1
    BY <2>0, <2>1 DEF Numbered
  <2>2. CASE i # 1 /\ j # 1
    BY <1>1, <1>2, <2>2 DEF Numbered
  <2> QED
    BY <2>1, <2>2
<1> QED
  BY <1>2, <1>3 DEF Numbered

\* A number is left when fewer names are used than there are keys.
LEMMA UnusedIsNew ==
    ASSUME NEW name \in Name, NEW used, IsFiniteSet(used), Cardinality(used) < Len(Words)
    PROVE  Unused(name, used) \in Name /\ Unused(name, used) \notin used
<1> DEFINE L == Len(Words)
           Fits(i) == Numbered(name, i) \notin used /\ \A j \in 1..(i-1) : Numbered(name, j) \in used
           T == {i \in 1..L : Numbered(name, i) \notin used}
<1>0. L \in Nat
  BY NameAssumption DEF NameAssumption
<1>1. T # {}
  <2> SUFFICES ASSUME T = {} PROVE FALSE
    OBVIOUS
  <2> DEFINE f == [i \in 1..L |-> Numbered(name, i)]
  <2>1. f \in [1..L -> used]
    OBVIOUS
  <2>2. \A i, j \in 1..L : f[i] = f[j] => i = j
    BY NumberedDiffer
  <2>3. IsFiniteSet(1..L) /\ Cardinality(1..L) = L
    BY <1>0, FS_Interval
  <2>4. f \in Injection(1..L, used)
    <3> HIDE DEF f
    <3> QED
      BY <2>1, <2>2 DEF Injection, IsInjective
  <2>5. Cardinality(1..L) <= Cardinality(used) /\ Cardinality(used) \in Nat
    <3> HIDE DEF f, L
    <3> QED
      BY <2>4, FS_Injection, FS_CardinalityType
  <2> QED
    BY <1>0, <2>3, <2>5
<1>2. PICK m \in T : \A i \in T : ~(<<i, m>> \in OpToRel(<, Nat))
  <2>1. T \in SUBSET Nat
    OBVIOUS
  <2> HIDE DEF T
  <2> QED
    BY <1>1, <2>1, NatLessThanWellFounded, WFMin
<1>3. \A i \in T : m <= i
  <2> SUFFICES ASSUME NEW i \in T, i < m PROVE FALSE
    BY <1>0
  <2>1. <<i, m>> \in OpToRel(<, Nat)
    BY DEF OpToRel
  <2> QED
    BY <1>2, <2>1
<1>4. m \in 1..L /\ Fits(m)
  BY <1>0, <1>3
<1> DEFINE c == CHOOSE i \in 1..L : Fits(i)
<1>5. c \in 1..L /\ Fits(c)
  <2> HIDE DEF Fits
  <2> QED
    BY <1>4
<1>6. Unused(name, used) = Numbered(name, c)
  BY DEF Unused
<1> HIDE DEF c
<1> QED
  BY <1>5, <1>6, NumberedDiffer
\* As many segments of each key as it has.
DepthsOf(keys) == {d \in [keys -> Nat] : \A k \in keys : d[k] \in 1..Len(Words[k])}

DepthRun(keys, D) ==
    D = [n \in 0..Rounds |->
           IF n = 0 THEN [k \in keys |-> 1]
           ELSE LET depth == D[n-1]
                    next  == Longer(keys, depth)
                IN  IF next = depth THEN depth ELSE next]

\* A key is never asked for more segments than it has.
LEMMA DepthsType ==
    ASSUME NEW keys \in SUBSET DOMAIN Words
    PROVE  Depths(keys) \in DepthsOf(keys)
<1> DEFINE one  == [k \in keys |-> 1]
           S    == DepthsOf(keys)
           step == [p \in (1..Rounds) \X S |-> Longer(keys, p[2])]
           good == [i \in 0..Rounds |-> S]
           D    == CHOOSE D : DepthRun(keys, D)
<1>0. one \in S
  <2>1. \A k \in keys : Len(Words[k]) \in Nat /\ Len(Words[k]) # 0
    BY NameAssumption DEF NameAssumption
  <2> QED
    BY <2>1 DEF DepthsOf
<1>1. ASSUME NEW d \in S
      PROVE  Longer(keys, d) \in S
  <2>1. \A k \in keys : Len(Words[k]) \in Nat
    BY NameAssumption DEF NameAssumption
  <2>2. /\ Longer(keys, d) = [k \in keys |-> Longer(keys, d)[k]]
        /\ \A k \in keys : \/ Longer(keys, d)[k] = d[k]
                           \/ d[k] < Len(Words[k]) /\ Longer(keys, d)[k] = d[k] + 1
    BY DEF Longer
  <2>3. \A k \in keys : Longer(keys, d)[k] \in Nat /\ Longer(keys, d)[k] \in 1..Len(Words[k])
    BY <2>1, <2>2 DEF DepthsOf
  <2> HIDE DEF S
  <2> QED
    BY <2>2, <2>3 DEF S, DepthsOf
<1>2. /\ Rounds \in Nat
      /\ \A i \in 1..Rounds : i - 1 \in 0..Rounds /\ i \in 0..Rounds /\ i # 0
      /\ 0 \in 0..Rounds /\ Rounds \in 0..Rounds
      /\ \A i \in 0..Rounds : i # 0 => i \in 1..Rounds
  BY DEF Rounds
<1>3. /\ \A i \in 0..Rounds : good[i] = S
      /\ \A i \in 1..Rounds : \A d \in S : step[<<i, d>>] = Longer(keys, d)
  OBVIOUS
<1> HIDE DEF S, one, step, good
<1>4. \E f : DepthRun(keys, f)
  <2>1. PICK g : Iterates(Rounds, one, step, g)
    BY <1>2, Recursion
  <2>2. /\ g = [i \in 0..Rounds |-> IF i = 0 THEN one ELSE step[<<i, g[i - 1]>>]]
        /\ g[0] = one /\ \A i \in 1..Rounds : g[i] = step[<<i, g[i - 1]>>]
    BY <1>2, <2>1 DEF Iterates
  <2>3. \A i \in 0..Rounds : g[i] \in good[i]
    <3>1. \A i \in 1..Rounds : g[i - 1] \in good[i - 1] => g[i] \in good[i]
      BY <1>1, <1>2, <1>3, <2>2
    <3>2. g[0] \in good[0]
      BY <1>0, <1>2, <1>3, <2>2
    <3> QED
      BY <1>2, <3>1, <3>2, RecursionStays
  <2>4. ASSUME NEW i \in 0..Rounds
        PROVE  g[i] = IF i = 0 THEN one ELSE LET depth == g[i-1]
                                                 next  == Longer(keys, depth)
                                             IN  IF next = depth THEN depth ELSE next
    BY <1>2, <1>3, <2>2, <2>3
  <2>5. g = [i \in 0..Rounds |-> IF i = 0 THEN one ELSE LET depth == g[i-1]
                                                             next  == Longer(keys, depth)
                                                         IN  IF next = depth THEN depth ELSE next]
    BY <2>2, <2>4
  <2> QED
    BY <2>5 DEF DepthRun, one
<1>5. DepthRun(keys, D)
  BY <1>4
<1>6. Depths(keys) = D[Rounds]
  BY DEF Depths, DepthRun
<1> HIDE DEF D
<1>7. D[0] = one /\ \A i \in 1..Rounds : D[i] = Longer(keys, D[i-1])
  BY <1>2, <1>5 DEF DepthRun, one
<1>8. \A i \in 0..Rounds : D[i] \in good[i]
  <2>1. \A i \in 1..Rounds : D[i - 1] \in good[i - 1] => D[i] \in good[i]
    BY <1>1, <1>2, <1>3, <1>7
  <2>2. D[0] \in good[0]
    BY <1>0, <1>2, <1>3, <1>7
  <2> QED
    BY <1>2, <2>1, <2>2, RecursionStays
<1> QED
  BY <1>2, <1>3, <1>6, <1>8 DEF S
\* The names given to the first i keys.
NamesOf(keys, i) == {g \in [keys \cap 1..i -> Name] : IsInjective(g)}

\* The name of one more key, if it is one.
Given(keys, depth, n, given) ==
    IF n \in keys THEN Extended(given, n, Unused(NameAt(n, depth[n]), Range(given))) ELSE given

NameRun(keys, depth, Out) ==
    Out = [n \in 0..Len(Words) |-> IF n = 0 THEN <<>> ELSE Given(keys, depth, n, Out[n-1])]

\* One more key gets a name of its own.
LEMMA OneMoreName ==
    ASSUME NEW keys \in SUBSET DOMAIN Words, NEW depth \in DepthsOf(keys),
           NEW i \in 1..Len(Words), NEW given \in NamesOf(keys, i - 1)
    PROVE  Given(keys, depth, i, given) \in NamesOf(keys, i)
<1>0. Len(Words) \in Nat /\ DOMAIN Words = 1..Len(Words)
  BY NameAssumption DEF NameAssumption
<1>1. given \in [keys \cap 1..(i-1) -> Name] /\ IsInjective(given)
  BY DEF NamesOf
<1>2. CASE i \notin keys
  <2>1. keys \cap 1..i = keys \cap 1..(i-1)
    BY <1>0, <1>2
  <2> QED
    BY <1>1, <1>2, <2>1 DEF Given, NamesOf
<1>3. CASE i \in keys
  <2> DEFINE K == keys \cap 1..(i-1)
             used == Range(given)
             new == Unused(NameAt(i, depth[i]), used)
             next == Extended(given, i, new)
  <2>1. IsFiniteSet(used) /\ Cardinality(used) < Len(Words)
    <3>1. IsFiniteSet(1..(i-1)) /\ Cardinality(1..(i-1)) = i - 1
      BY <1>0, FS_Interval
    <3>2. IsFiniteSet(K) /\ Cardinality(K) <= i - 1
      BY <3>1, FS_Subset
    <3>3. given \in Surjection(K, used)
      BY <1>1 DEF Surjection, Range
    <3>4. IsFiniteSet(used) /\ Cardinality(used) <= Cardinality(K)
      <4> HIDE DEF K, used
      <4> QED
        BY <3>2, <3>3, FS_Surjection
    <3>5. Cardinality(K) \in Nat /\ Cardinality(used) \in Nat
      <4> HIDE DEF K, used
      <4> QED
        BY <3>2, <3>4, FS_CardinalityType
    <3> HIDE DEF K, used
    <3> QED
      BY <1>0, <3>2, <3>4, <3>5
  <2>2. NameAt(i, depth[i]) \in Name
    BY <1>0, <1>3, NameAtType DEF DepthsOf
  <2>3. new \in Name /\ new \notin used
    <3> HIDE DEF used
    <3> QED
      BY <2>1, <2>2, UnusedIsNew
  <2>4. /\ i \notin K /\ keys \cap 1..i = K \cup {i}
        /\ \A k \in K : given[k] \in used
    BY <1>0, <1>1, <1>3 DEF Range
  <2> HIDE DEF new, used
  <2>5. next = [k \in K \cup {i} |-> IF k = i THEN new ELSE given[k]]
    BY <1>1, <2>4 DEF Extended
  <2> HIDE DEF next, K
  <2>6. next \in [K \cup {i} -> Name]
    BY <1>1, <2>3, <2>5 DEF K
  <2>7. IsInjective(next)
    BY <1>1, <2>3, <2>4, <2>5 DEF IsInjective, K
  <2>8. Given(keys, depth, i, given) = next
    BY <1>3 DEF Given, next, new, used
  <2> QED
    BY <2>4, <2>6, <2>7, <2>8 DEF NamesOf
<1> QED
  BY <1>2, <1>3

\* Every schema gets a Go name, and no two the same.
LEMMA NamesDiffer ==
    ASSUME NEW d, DOMAIN d.schemas \in SUBSET DOMAIN Words
    PROVE  /\ schemaNames(d) \in [DOMAIN d.schemas -> Name]
           /\ IsInjective(schemaNames(d))
<1> DEFINE keys  == DOMAIN d.schemas
           depth == Depths(keys)
           n     == Len(Words)
           empty == <<>>
           S     == UNION {NamesOf(keys, i) : i \in 0..n}
           step  == [p \in (1..n) \X S |-> Given(keys, depth, p[1], p[2])]
           good  == [i \in 0..n |-> NamesOf(keys, i)]
           Out   == CHOOSE Out : NameRun(keys, depth, Out)
<1>0. n \in Nat /\ DOMAIN Words = 1..n
  BY NameAssumption DEF NameAssumption
<1>k. keys \in SUBSET DOMAIN Words /\ keys \in SUBSET (1..n)
  BY <1>0
<1>1. depth \in DepthsOf(keys)
  <2> HIDE DEF keys
  <2> QED
    BY <1>k, DepthsType
<1>2. /\ \A i \in 1..n : i - 1 \in 0..n /\ i \in 0..n /\ i # 0
      /\ \A i \in 0..n : i # 0 => i \in 1..n
      /\ 0 \in 0..n /\ n \in 0..n
  BY <1>0
<1>3. schemaNames(d) = Out[n]
  BY DEF schemaNames, NameRun, Given
<1>4. empty \in NamesOf(keys, 0)
  <2>1. keys \cap 1..0 = {}
    OBVIOUS
  <2>2. empty \in [{} -> Name] /\ DOMAIN empty = {}
    OBVIOUS
  <2> HIDE DEF keys, empty
  <2> QED
    BY <2>1, <2>2 DEF NamesOf, IsInjective
<1> HIDE DEF keys, depth, n
<1>5. /\ \A i \in 0..n : good[i] = NamesOf(keys, i) /\ NamesOf(keys, i) \subseteq S
      /\ \A i \in 1..n : \A g \in S : step[<<i, g>>] = Given(keys, depth, i, g)
  OBVIOUS
<1>6. \A i \in 1..n : \A g \in good[i - 1] : Given(keys, depth, i, g) \in good[i]
  <2> SUFFICES ASSUME NEW i \in 1..n, NEW g \in NamesOf(keys, i - 1)
               PROVE  Given(keys, depth, i, g) \in NamesOf(keys, i)
    BY <1>2, <1>5
  <2> QED
    BY <1>1, <1>k, OneMoreName DEF n
<1> HIDE DEF S, step, good, empty, Out
<1>7. \E f : NameRun(keys, depth, f)
  <2>1. PICK g : Iterates(n, empty, step, g)
    BY <1>0, Recursion
  <2>2. /\ g = [i \in 0..n |-> IF i = 0 THEN empty ELSE step[<<i, g[i - 1]>>]]
        /\ g[0] = empty /\ \A i \in 1..n : g[i] = step[<<i, g[i - 1]>>]
    BY <1>2, <2>1 DEF Iterates
  <2>3. \A i \in 0..n : g[i] \in good[i]
    <3>1. \A i \in 1..n : g[i - 1] \in good[i - 1] => g[i] \in good[i]
      BY <1>2, <1>5, <1>6, <2>2
    <3>2. g[0] \in good[0]
      BY <1>2, <1>4, <1>5, <2>2
    <3> QED
      BY <1>0, <3>1, <3>2, RecursionStays
  <2>4. ASSUME NEW i \in 0..n
        PROVE  g[i] = IF i = 0 THEN empty ELSE Given(keys, depth, i, g[i-1])
    BY <1>2, <1>5, <2>2, <2>3
  <2>5. g = [i \in 0..n |-> IF i = 0 THEN empty ELSE Given(keys, depth, i, g[i-1])]
    BY <2>2, <2>4
  <2> QED
    BY <2>5 DEF NameRun, empty, n
<1>8. NameRun(keys, depth, Out)
  BY <1>7 DEF Out
<1>9. Out[0] = empty /\ \A i \in 1..n : Out[i] = Given(keys, depth, i, Out[i-1])
  BY <1>2, <1>8 DEF NameRun, empty, n
<1>10. \A i \in 0..n : Out[i] \in good[i]
  <2>1. \A i \in 1..n : Out[i - 1] \in good[i - 1] => Out[i] \in good[i]
    BY <1>2, <1>6, <1>9
  <2>2. Out[0] \in good[0]
    BY <1>2, <1>4, <1>5, <1>9
  <2> QED
    BY <1>0, <2>1, <2>2, RecursionStays
<1>11. keys \cap 1..n = keys
  BY <1>k
<1> QED
  BY <1>2, <1>3, <1>5, <1>10, <1>11 DEF NamesOf, keys

-----------------------------------------------------------------------------
(* What is emitted.                                                        *)

\* From a respelt specification come one type for each schema of the original, named for it
\* alone, and references to the types of the schemas the original refers to.
LEMMA RespeltIsEmitted ==
    ASSUME NEW r \in Specs, NEW d, NEW key \in Injection(DOMAIN r.schemas, DOMAIN Words),
           Respelt(r, d, key)
    PROVE  OneTypeEach(r, Emit(d), EmitOperations(d))
<1> DEFINE keys  == DOMAIN r.schemas
           names == schemaNames(d)
           type  == [k \in keys |-> names[key[k]]]
           Written(j) == [name |-> names[j], body |-> d.schemas[j].body,
                          refs |-> {GoName(names, i) :
                                      i \in {t \in d.schemas[j].refs : ~(t \in DOMAIN names /\ d.schemas[t].poly)}},
                          embeds |-> {GoName(names, i) : i \in d.schemas[j].parents}]
           Own(k) == [name |-> type[k], body |-> r.schemas[k].body,
                      refs |-> {type[i] : i \in {t \in r.schemas[k].refs : ~r.schemas[t].poly}},
                      embeds |-> {type[i] : i \in r.schemas[k].parents}]
<1>1. /\ key \in [keys -> DOMAIN Words]
      /\ \A j, k \in keys : key[j] = key[k] => j = k
      /\ None \notin DOMAIN Words
  BY NameAssumption DEF Injection, IsInjective, NameAssumption
<1>2. /\ \A k \in keys : r.schemas[k].refs \subseteq keys /\ r.schemas[k].parents \subseteq keys
      /\ \A k, j \in keys : r.schemas[k].body = r.schemas[j].body => k = j
      /\ \A o \in DOMAIN r.ops : r.ops[o].request \in keys \cup {None}
      /\ keys \subseteq DOMAIN Words
  BY SpecAssumption DEF SpecAssumption
<1>3. /\ DOMAIN d.schemas = Range(key)
      /\ \A k \in keys : d.schemas[key[k]] = [body    |-> r.schemas[k].body,
                                              refs    |-> {key[j] : j \in r.schemas[k].refs},
                                              parents |-> {key[j] : j \in r.schemas[k].parents},
                                              poly    |-> r.schemas[k].poly]
      /\ d.ops = [o \in DOMAIN r.ops |-> [live |-> r.ops[o].live,
                                          request |-> IF r.ops[o].request = None THEN None
                                                        ELSE key[r.ops[o].request],
                                          carries |-> d.ops[o].carries]]
  BY DEF Respelt
<1>4. DOMAIN d.schemas \in SUBSET DOMAIN Words
  BY <1>1, <1>3 DEF Range
<1>5. DOMAIN names = DOMAIN d.schemas /\ IsInjective(names)
  BY <1>4, NamesDiffer
<1>6. Emit(d) = {Written(j) : j \in DOMAIN names}
  BY DEF Emit
<1> HIDE DEF names, keys
<1>7. \A k \in keys : key[k] \in DOMAIN names
  BY <1>1, <1>3, <1>5 DEF Range
<1>8. \A j, k \in keys : type[j] = type[k] => j = k
  BY <1>1, <1>5, <1>7 DEF IsInjective
<1>9. ASSUME NEW k \in keys
      PROVE  Written(key[k]) = Own(k)
  <2>1. /\ d.schemas[key[k]].body = r.schemas[k].body
        /\ d.schemas[key[k]].refs = {key[j] : j \in r.schemas[k].refs}
        /\ d.schemas[key[k]].parents = {key[j] : j \in r.schemas[k].parents}
    <3>1. d.schemas[key[k]] = [body    |-> r.schemas[k].body,
                               refs    |-> {key[j] : j \in r.schemas[k].refs},
                               parents |-> {key[j] : j \in r.schemas[k].parents},
                               poly    |-> r.schemas[k].poly]
      BY <1>3
    <3> QED
      BY <3>1
  <2>2. \A j \in keys : /\ GoName(names, key[j]) = type[j]
                        /\ key[j] \in DOMAIN names
                        /\ d.schemas[key[j]].poly = r.schemas[j].poly
    <3> SUFFICES ASSUME NEW j \in keys
                 PROVE  /\ GoName(names, key[j]) = type[j]
                        /\ key[j] \in DOMAIN names
                        /\ d.schemas[key[j]].poly = r.schemas[j].poly
      OBVIOUS
    <3>1. d.schemas[key[j]] = [body    |-> r.schemas[j].body,
                               refs    |-> {key[i] : i \in r.schemas[j].refs},
                               parents |-> {key[i] : i \in r.schemas[j].parents},
                               poly    |-> r.schemas[j].poly]
      BY <1>3
    <3>2. d.schemas[key[j]].poly = r.schemas[j].poly
      BY <3>1
    <3> QED
      BY <1>7, <3>2 DEF GoName
  <2> HIDE DEF type
  <2>3. {GoName(names, i) : i \in d.schemas[key[k]].parents} = {type[i] : i \in r.schemas[k].parents}
    <3>1. {GoName(names, i) : i \in {key[j] : j \in r.schemas[k].parents}}
          = {GoName(names, key[j]) : j \in r.schemas[k].parents}
      OBVIOUS
    <3>2. \A j \in r.schemas[k].parents : GoName(names, key[j]) = type[j]
      BY <1>2, <2>2
    <3> QED
      BY <2>1, <3>1, <3>2
  <2>4. {GoName(names, i) : i \in {t \in d.schemas[key[k]].refs : ~(t \in DOMAIN names /\ d.schemas[t].poly)}}
        = {type[i] : i \in {t \in r.schemas[k].refs : ~r.schemas[t].poly}}
    <3> DEFINE raws == {t \in r.schemas[k].refs : ~r.schemas[t].poly}
               news == {t \in d.schemas[key[k]].refs : ~(t \in DOMAIN names /\ d.schemas[t].poly)}
    <3>0. raws \subseteq keys
      BY <1>2
    <3>1. news = {key[j] : j \in raws}
      BY <1>2, <2>1, <2>2
    <3> HIDE DEF raws, news
    <3>2. \A j \in raws : GoName(names, key[j]) = type[j]
      BY <2>2, <3>0
    <3>3. {GoName(names, i) : i \in news} = {type[j] : j \in raws}
      BY <3>1, <3>2
    <3> QED
      BY <3>3 DEF raws, news
  <2>5. names[key[k]] = type[k]
    BY DEF type
  <2> QED
    BY <2>1, <2>3, <2>4, <2>5
<1>o. \A k \in keys : /\ Own(k).name = type[k] /\ Own(k).body = r.schemas[k].body
                      /\ Own(k).refs = {type[i] : i \in {t \in r.schemas[k].refs : ~r.schemas[t].poly}}
                      /\ Own(k).embeds = {type[i] : i \in r.schemas[k].parents}
  OBVIOUS
<1>t. type = [k \in keys |-> type[k]]
  OBVIOUS
<1> HIDE DEF Written, type, Own
<1>10. Emit(d) = {Own(k) : k \in keys}
  <2>1. DOMAIN names = {key[k] : k \in keys}
    BY <1>1, <1>3, <1>5 DEF Range
  <2> QED
    BY <1>6, <1>9, <2>1
<1> DEFINE declare == [k \in keys |-> CHOOSE t \in Emit(d) : t.body = r.schemas[k].body]
<1>11. \A k \in keys : declare[k] = Own(k)
  <2> SUFFICES ASSUME NEW k \in keys PROVE declare[k] = Own(k)
    OBVIOUS
  <2>2. Own(k) \in Emit(d) /\ \A t \in Emit(d) : t.body = r.schemas[k].body => t = Own(k)
    BY <1>2, <1>10, <1>o DEF keys
  <2> QED
    BY <1>o, <2>2
<1>d. declare = [k \in keys |-> declare[k]]
  OBVIOUS
<1>e. OneTypeEach(r, Emit(d), EmitOperations(d)) <=>
        LET type1 == [k \in keys |-> declare[k].name]
            Meant1(k) == IF k = None THEN <<>> ELSE type1[k]
        IN  /\ Emit(d) = Range(declare)
            /\ IsInjective(type1)
            /\ \A k \in keys :
                 /\ declare[k].embeds = {type1[j] : j \in r.schemas[k].parents}
                 /\ declare[k].refs = {type1[j] : j \in {i \in r.schemas[k].refs : ~r.schemas[i].poly}}
            /\ EmitOperations(d) = {[op |-> o, request |-> Meant1(r.ops[o].request)] :
                                     o \in {p \in DOMAIN r.ops : r.ops[p].live}}
  BY Zenon DEF OneTypeEach, keys
<1> HIDE DEF declare
<1>12. type = [k \in keys |-> declare[k].name]
  BY <1>11, <1>o, <1>t
<1>13. Emit(d) = Range(declare)
  BY <1>10, <1>11, <1>d DEF Range
<1>14. IsInjective(type)
  BY <1>8 DEF IsInjective, type
<1>15. \A k \in keys : /\ declare[k].embeds = {type[j] : j \in r.schemas[k].parents}
                       /\ declare[k].refs = {type[j] : j \in {i \in r.schemas[k].refs : ~r.schemas[i].poly}}
  BY <1>11, <1>o
<1>16. EmitOperations(d) = {[op |-> o, request |-> IF r.ops[o].request = None THEN <<>> ELSE type[r.ops[o].request]] :
                              o \in {p \in DOMAIN r.ops : r.ops[p].live}}
  <2>1. EmitOperations(d) = {[op |-> o, request |-> GoName(names, d.ops[o].request)] :
                              o \in {p \in DOMAIN d.ops : d.ops[p].live}}
    BY DEF EmitOperations, names
  <2>2. None \notin DOMAIN names
    BY <1>1, <1>4, <1>5
  <2>3. \A o \in DOMAIN r.ops : /\ d.ops[o].live = r.ops[o].live
                                /\ GoName(names, d.ops[o].request)
                                     = IF r.ops[o].request = None THEN <<>> ELSE type[r.ops[o].request]
    BY <1>2, <1>3, <1>7, <2>2 DEF GoName, type, keys
  <2>4. DOMAIN d.ops = DOMAIN r.ops
    BY <1>3
  <2> QED
    BY <2>1, <2>3, <2>4
<1> HIDE DEF keys
<1> QED
  BY <1>12, <1>13, <1>14, <1>15, <1>16, <1>e

-----------------------------------------------------------------------------
(* What the overlays do.                                                   *)

\* A guard that holds was compared with what the action found.
LEMMA GuardCompared ==
    ASSUME NEW d, NEW guard, NEW i \in DOMAIN Overlays, ApplyOK(d, Overlays[i], guard)
    PROVE  Found(d, Overlays[i]) = guard
<1> DEFINE a == Overlays[i]
<1>1. a.op \in Ops
  BY OverlayAssumption DEF OverlayAssumption
<1>2. CASE a.op = "set"
  BY <1>2 DEF ApplyOK, setOK, check
<1>3. CASE a.op = "merge"
  BY <1>3 DEF ApplyOK, mergeOK, setOK, check
<1>4. CASE a.op = "removeParameter"
  BY <1>4 DEF ApplyOK, removeParameterOK, Found
<1>5. CASE a.op = "renameSchema"
  BY <1>5 DEF ApplyOK, renameSchemaOK, check
<1> QED
  BY <1>1, <1>2, <1>3, <1>4, <1>5 DEF Ops

\* A fragment is repaired where it stands.
LEMMA FragmentRepaired ==
    ASSUME NEW r \in Specs, NEW d, NEW key \in Injection(DOMAIN r.schemas, DOMAIN Words),
           Respelt(r, d, key),
           NEW i \in DOMAIN Overlays, Fragment(Overlays[i]), NEW value,
           NEW new, new = [d EXCEPT !.frags[Overlays[i].target] = value]
    PROVE  /\ Respelt(r, new, key)
           /\ \A j \in DOMAIN Overlays :
                Repaired(j) /\ j # i => Found(new, Overlays[j]) = Found(d, Overlays[j])
<1> DEFINE t == Overlays[i].target
<1>1. /\ d = [frags |-> d.frags, schemas |-> d.schemas, ops |-> d.ops]
      /\ d.frags = [x \in DOMAIN r.frags |-> d.frags[x]]
  BY DEF Respelt
<1>2. new = [frags |-> [d.frags EXCEPT ![t] = value], schemas |-> d.schemas, ops |-> d.ops]
  BY <1>1
<1>3. new.frags = [d.frags EXCEPT ![t] = value] /\ new.schemas = d.schemas /\ new.ops = d.ops
  BY <1>2
<1>4. new = [frags |-> new.frags, schemas |-> new.schemas, ops |-> new.ops]
  BY <1>2, <1>3
<1>5. /\ new.frags = [x \in DOMAIN r.frags |-> new.frags[x]]
      /\ \A x \in DOMAIN r.frags : x # t => new.frags[x] = d.frags[x]
  BY <1>1, <1>3
<1>6. Respelt(r, new, key)
  BY <1>3, <1>4, <1>5 DEF Respelt
<1>7. ASSUME NEW j \in DOMAIN Overlays, Repaired(j), j # i
      PROVE  Found(new, Overlays[j]) = Found(d, Overlays[j])
  <2>1. CASE Fragment(Overlays[j])
    <3>1. Overlays[j].target # t /\ Overlays[j].target \in DOMAIN r.frags
      BY <1>7, <2>1, OverlayAssumption DEF OverlayAssumption
    <3> QED
      BY <1>5, <2>1, <3>1 DEF Found, Fragment
  <2>2. CASE Remove(Overlays[j])
    BY <1>3, <2>2 DEF Found, Remove, Carriers
  <2>3. Overlays[j].op \in Ops
    BY OverlayAssumption DEF OverlayAssumption
  <2> QED
    BY <1>7, <2>1, <2>2, <2>3 DEF Ops, Repaired, Rename, Remove, Fragment
<1> QED
  BY <1>6, <1>7

\* The parameter is taken from the operations, and nothing else.
LEMMA ParameterRemoved ==
    ASSUME NEW r \in Specs, NEW d, NEW key \in Injection(DOMAIN r.schemas, DOMAIN Words),
           Respelt(r, d, key),
           NEW i \in DOMAIN Overlays, Remove(Overlays[i])
    PROVE  /\ Respelt(r, removeParameter(d), key)
           /\ \A j \in DOMAIN Overlays :
                Repaired(j) /\ j # i => Found(removeParameter(d), Overlays[j]) = Found(d, Overlays[j])
<1> DEFINE new == removeParameter(d)
           Spelt(k) == IF k = None THEN None ELSE key[k]
<1>1. /\ d = [frags |-> d.frags, schemas |-> d.schemas, ops |-> d.ops]
      /\ d.ops = [o \in DOMAIN r.ops |-> [live |-> r.ops[o].live, request |-> Spelt(r.ops[o].request),
                                          carries |-> d.ops[o].carries]]
  BY DEF Respelt
<1>2. new = [frags |-> d.frags, schemas |-> d.schemas,
             ops |-> [o \in DOMAIN d.ops |-> [d.ops[o] EXCEPT !.carries = FALSE]]]
  <2>1. PICK f, s, ops : d = [frags |-> f, schemas |-> s, ops |-> ops]
    <3> HIDE DEF Spelt
    <3> QED
      BY <1>1
  <2>2. d.frags = f /\ d.schemas = s /\ d.ops = ops
    BY <2>1
  <2>3. [o \in DOMAIN d.ops |-> [d.ops[o] EXCEPT !.carries = FALSE]]
        = [o \in DOMAIN ops |-> [ops[o] EXCEPT !.carries = FALSE]]
    BY <2>2
  <2>4. new = [d EXCEPT !.ops = [o \in DOMAIN d.ops |-> [d.ops[o] EXCEPT !.carries = FALSE]]]
    BY Zenon DEF removeParameter
  <2> DEFINE without == [o \in DOMAIN d.ops |-> [d.ops[o] EXCEPT !.carries = FALSE]]
  <2> HIDE DEF without, new
  <2>5. new = [d EXCEPT !.ops = without]
    BY <2>4 DEF without
  <2>6. new = [frags |-> f, schemas |-> s, ops |-> without]
    BY <2>1, <2>5
  <2> QED
    BY <2>2, <2>6 DEF without
<1> HIDE DEF new, Spelt
<1>3. /\ new.frags = d.frags /\ new.schemas = d.schemas
      /\ new.ops = [o \in DOMAIN d.ops |-> [d.ops[o] EXCEPT !.carries = FALSE]]
  BY <1>2
<1>4. new = [frags |-> new.frags, schemas |-> new.schemas, ops |-> new.ops]
  BY <1>2, <1>3
<1>5. ASSUME NEW o \in DOMAIN r.ops
      PROVE  new.ops[o] = [live |-> r.ops[o].live, request |-> Spelt(r.ops[o].request), carries |-> new.ops[o].carries]
  <2>1. o \in DOMAIN d.ops
    BY <1>1
  <2>2. PICK c : d.ops[o] = [live |-> r.ops[o].live, request |-> Spelt(r.ops[o].request), carries |-> c]
    <3>1. d.ops[o] = [live |-> r.ops[o].live, request |-> Spelt(r.ops[o].request), carries |-> d.ops[o].carries]
      BY <1>1
    <3> QED
      BY <3>1
  <2>3. PICK no : new.ops[o] = [d.ops[o] EXCEPT !.carries = no]
    BY <1>3, <2>1
  <2>4. new.ops[o] = [live |-> r.ops[o].live, request |-> Spelt(r.ops[o].request), carries |-> no]
    BY <2>2, <2>3
  <2> QED
    BY <2>4
<1>6. new.ops = [o \in DOMAIN r.ops |-> [live |-> r.ops[o].live, request |-> Spelt(r.ops[o].request),
                                         carries |-> new.ops[o].carries]]
  <2>1. DOMAIN d.ops = DOMAIN r.ops
    BY <1>1
  <2>2. new.ops = [o \in DOMAIN r.ops |-> new.ops[o]]
    BY <1>3, <2>1
  <2> QED
    BY <1>5, <2>2
<1>7. Respelt(r, new, key)
  BY <1>3, <1>4, <1>6 DEF Respelt, Spelt
<1>8. ASSUME NEW j \in DOMAIN Overlays, Repaired(j), j # i
      PROVE  Found(new, Overlays[j]) = Found(d, Overlays[j])
  <2>1. ~Remove(Overlays[j]) /\ Overlays[j].op \in Ops
    BY <1>8, OverlayAssumption DEF OverlayAssumption
  <2>2. Fragment(Overlays[j])
    BY <1>8, <2>1 DEF Ops, Repaired, Rename, Remove, Fragment
  <2> QED
    BY <1>3, <2>2 DEF Found, Fragment
<1> QED
  BY <1>7, <1>8 DEF new

\* A key that is in use gets a new spelling, and whatever refers to it follows.
LEMMA SchemaRenamed ==
    ASSUME NEW r \in Specs, NEW d, NEW key \in Injection(DOMAIN r.schemas, DOMAIN Words),
           Respelt(r, d, key),
           NEW i \in DOMAIN Overlays, Rename(Overlays[i]),
           Overlays[i].target \in DOMAIN d.schemas, Overlays[i].value \notin DOMAIN d.schemas
    PROVE  /\ \E key2 \in Injection(DOMAIN r.schemas, DOMAIN Words) :
                Respelt(r, renameSchema(d, Overlays[i]), key2)
           /\ \A j \in DOMAIN Overlays :
                Repaired(j) => Found(renameSchema(d, Overlays[i]), Overlays[j]) = Found(d, Overlays[j])
<1> DEFINE keys   == DOMAIN r.schemas
           from   == Overlays[i].target
           to     == Overlays[i].value
           new    == renameSchema(d, Overlays[i])
           Ref(k) == IF k = from THEN to ELSE k
           key2   == [k \in keys |-> Ref(key[k])]
           moved  == Extended(Restrict(d.schemas, DOMAIN d.schemas \ {from}), to, d.schemas[from])
           schemas2 == [k \in DOMAIN moved |-> [body    |-> moved[k].body,
                                                refs    |-> {Ref(j) : j \in moved[k].refs},
                                                parents |-> {Ref(j) : j \in moved[k].parents},
                                                poly    |-> moved[k].poly]]
           ops2   == [o \in DOMAIN d.ops |-> [d.ops[o] EXCEPT !.request = Ref(@)]]
           Spelt(k)  == IF k = None THEN None ELSE key[k]
           Spelt2(k) == IF k = None THEN None ELSE key2[k]
<1>1. /\ key \in [keys -> DOMAIN Words]
      /\ \A j, k \in keys : key[j] = key[k] => j = k
      /\ None \notin DOMAIN Words
  BY NameAssumption DEF Injection, IsInjective, NameAssumption
<1>2. from \in DOMAIN Words /\ to \in DOMAIN Words /\ from # None
  <2>1. {from, to} \subseteq DOMAIN Words
    BY OverlayAssumption DEF OverlayAssumption
  <2> QED
    BY <1>1, <2>1
<1>3. /\ \A k \in keys : r.schemas[k].refs \subseteq keys /\ r.schemas[k].parents \subseteq keys
      /\ \A o \in DOMAIN r.ops : r.ops[o].request \in keys \cup {None}
      /\ keys \subseteq DOMAIN Words
  BY SpecAssumption DEF SpecAssumption
<1>4. /\ d = [frags |-> d.frags, schemas |-> d.schemas, ops |-> d.ops]
      /\ d.frags = [t \in DOMAIN r.frags |-> d.frags[t]]
      /\ DOMAIN d.schemas = Range(key)
      /\ \A k \in keys : d.schemas[key[k]] = [body    |-> r.schemas[k].body,
                                              refs    |-> {key[j] : j \in r.schemas[k].refs},
                                              parents |-> {key[j] : j \in r.schemas[k].parents},
                                              poly    |-> r.schemas[k].poly]
      /\ d.ops = [o \in DOMAIN r.ops |-> [live |-> r.ops[o].live, request |-> Spelt(r.ops[o].request),
                                          carries |-> d.ops[o].carries]]
  BY DEF Respelt
<1>5. new = [frags |-> d.frags, schemas |-> schemas2, ops |-> ops2]
  <2>1. PICK f, s, ops : d = [frags |-> f, schemas |-> s, ops |-> ops]
    <3>1. \A f, s, ops : f = d.frags /\ s = d.schemas /\ ops = d.ops => d = [frags |-> f, schemas |-> s, ops |-> ops]
      BY <1>4
    <3> QED
      BY <3>1
  <2>2. d.frags = f /\ d.schemas = s /\ d.ops = ops
    BY <2>1
  <2> DEFINE d1 == [d EXCEPT !.schemas = moved]
  <2>3. new = [frags   |-> d1.frags,
               schemas |-> [k \in DOMAIN d1.schemas |-> [body    |-> d1.schemas[k].body,
                                                            refs    |-> {Ref(j) : j \in d1.schemas[k].refs},
                                                            parents |-> {Ref(j) : j \in d1.schemas[k].parents},
                                                            poly    |-> d1.schemas[k].poly]],
               ops     |-> [o \in DOMAIN d1.ops |-> [d1.ops[o] EXCEPT !.request = Ref(@)]]]
    BY Zenon DEF renameSchema, rewriteRefs
  <2> HIDE DEF moved, new
  <2>4. d1 = [frags |-> f, schemas |-> moved, ops |-> ops]
    BY <2>1
  <2>5. d1.frags = d.frags /\ d1.schemas = moved /\ d1.ops = d.ops
    BY <2>2, <2>4
  <2> HIDE DEF d1, Ref
  <2> QED
    BY Zenon, <2>3, <2>5
<1> HIDE DEF new, Spelt
<1>6. new.frags = d.frags /\ new.schemas = schemas2 /\ new.ops = ops2
  <2> HIDE DEF schemas2, ops2
  <2> QED
    BY <1>5
<1>7. new = [frags |-> new.frags, schemas |-> new.schemas, ops |-> new.ops]
  <2> HIDE DEF schemas2, ops2
  <2> QED
    BY <1>5, <1>6
<1>8. key2 \in Injection(keys, DOMAIN Words)
  <2>1. \A k \in keys : key[k] # to
    BY <1>1, <1>4 DEF Range
  <2>2. key2 \in [keys -> DOMAIN Words]
    BY <1>1, <1>2
  <2>3. \A j, k \in keys : key2[j] = key2[k] => j = k
    BY <1>1, <2>1
  <2> HIDE DEF key2
  <2> QED
    BY <2>2, <2>3 DEF Injection, IsInjective
<1>9. /\ moved = [k \in (DOMAIN d.schemas \ {from}) \cup {to} |-> IF k = to THEN d.schemas[from] ELSE d.schemas[k]]
      /\ DOMAIN moved = Range(key2)
      /\ \A k \in keys : moved[key2[k]] = d.schemas[key[k]]
  <2>1. moved = [k \in (DOMAIN d.schemas \ {from}) \cup {to} |-> IF k = to THEN d.schemas[from] ELSE d.schemas[k]]
    BY DEF Extended, Restrict
  <2>2. Range(key2) = (DOMAIN d.schemas \ {from}) \cup {to}
    <3>1. Range(key2) = {Ref(key[k]) : k \in keys}
      BY DEF Range
    <3>2. DOMAIN d.schemas = {key[k] : k \in keys}
      BY <1>1, <1>4 DEF Range
    <3> QED
      BY <3>1, <3>2
  <2>3. \A k \in keys : key[k] \in DOMAIN d.schemas
    BY <1>1, <1>4 DEF Range
  <2> QED
    BY <2>1, <2>2, <2>3
<1>r. \A k \in keys : key2[k] = Ref(key[k])
  OBVIOUS
<1> HIDE DEF moved, key2, Ref
<1>10. ASSUME NEW k \in keys
       PROVE  new.schemas[key2[k]] = [body    |-> r.schemas[k].body,
                                      refs    |-> {key2[j] : j \in r.schemas[k].refs},
                                      parents |-> {key2[j] : j \in r.schemas[k].parents},
                                      poly    |-> r.schemas[k].poly]
  <2>1. key2[k] \in DOMAIN moved
    BY <1>8, <1>9 DEF Range, Injection
  <2>2. new.schemas[key2[k]] = [body    |-> moved[key2[k]].body,
                                refs    |-> {Ref(j) : j \in moved[key2[k]].refs},
                                parents |-> {Ref(j) : j \in moved[key2[k]].parents},
                                poly    |-> moved[key2[k]].poly]
    BY <1>6, <2>1
  <2> DEFINE refs == {key[j] : j \in r.schemas[k].refs}
             parents == {key[j] : j \in r.schemas[k].parents}
  <2>3. moved[key2[k]] = [body |-> r.schemas[k].body, refs |-> refs, parents |-> parents, poly |-> r.schemas[k].poly]
    BY <1>4, <1>9
  <2>4. /\ {Ref(j) : j \in refs} = {key2[j] : j \in r.schemas[k].refs}
        /\ {Ref(j) : j \in parents} = {key2[j] : j \in r.schemas[k].parents}
    BY <1>3, <1>r
  <2> HIDE DEF refs, parents
  <2>5. /\ moved[key2[k]].refs = refs /\ moved[key2[k]].parents = parents
        /\ moved[key2[k]].body = r.schemas[k].body /\ moved[key2[k]].poly = r.schemas[k].poly
    BY <2>3
  <2> QED
    BY <2>2, <2>4, <2>5
<1>11. ASSUME NEW o \in DOMAIN r.ops
       PROVE  new.ops[o] = [live |-> r.ops[o].live, request |-> Spelt2(r.ops[o].request), carries |-> d.ops[o].carries]
  <2>1. PICK c : d.ops[o] = [live |-> r.ops[o].live, request |-> Spelt(r.ops[o].request), carries |-> c]
    <3>1. d.ops[o] = [live |-> r.ops[o].live, request |-> Spelt(r.ops[o].request), carries |-> d.ops[o].carries]
      BY <1>4
    <3> QED
      BY <3>1
  <2>2. d.ops[o].request = Spelt(r.ops[o].request) /\ d.ops[o].carries = c /\ o \in DOMAIN d.ops
    BY <1>4, <2>1
  <2>3. new.ops[o] = [d.ops[o] EXCEPT !.request = Ref(Spelt(r.ops[o].request))]
    BY <1>6, <2>2
  <2>4. Ref(Spelt(r.ops[o].request)) = Spelt2(r.ops[o].request)
    BY <1>2, <1>3, <1>r DEF Spelt, Ref
  <2> DEFINE q == Spelt2(r.ops[o].request)
  <2> HIDE DEF q
  <2>5. new.ops[o] = [d.ops[o] EXCEPT !.request = q]
    BY <2>3, <2>4 DEF q
  <2>6. new.ops[o] = [live |-> r.ops[o].live, request |-> q, carries |-> c]
    BY <2>1, <2>5
  <2> QED
    BY <2>2, <2>6 DEF q
<1>12. new.ops = [o \in DOMAIN r.ops |-> [live |-> r.ops[o].live, request |-> Spelt2(r.ops[o].request),
                                          carries |-> new.ops[o].carries]]
  <2>1. DOMAIN d.ops = DOMAIN r.ops
    BY <1>4
  <2>2. new.ops = [o \in DOMAIN r.ops |-> new.ops[o]]
    BY <1>6, <2>1
  <2> HIDE DEF Spelt2
  <2>3. ASSUME NEW o \in DOMAIN r.ops
        PROVE  new.ops[o].carries = d.ops[o].carries
    <3>1. new.ops[o] = [live |-> r.ops[o].live, request |-> Spelt2(r.ops[o].request), carries |-> d.ops[o].carries]
      BY <1>11
    <3> QED
      BY <3>1
  <2> QED
    BY <1>11, <2>2, <2>3
<1>13. DOMAIN new.schemas = Range(key2)
  BY <1>6, <1>9
<1>14. Respelt(r, new, key2)
  BY <1>4, <1>6, <1>7, <1>10, <1>12, <1>13 DEF Respelt
<1>15. ASSUME NEW j \in DOMAIN Overlays, Repaired(j)
       PROVE  Found(new, Overlays[j]) = Found(d, Overlays[j])
  <2>1. CASE Fragment(Overlays[j])
    BY <1>6, <2>1 DEF Found, Fragment
  <2>2. CASE Remove(Overlays[j])
    <3>1. DOMAIN new.ops = DOMAIN d.ops /\ \A o \in DOMAIN d.ops : new.ops[o].carries = d.ops[o].carries
      <4>1. DOMAIN d.ops = DOMAIN r.ops
        BY <1>4
      <4> HIDE DEF Spelt2
      <4>2. ASSUME NEW o \in DOMAIN r.ops
            PROVE  new.ops[o].carries = d.ops[o].carries
        <5>1. new.ops[o] = [live |-> r.ops[o].live, request |-> Spelt2(r.ops[o].request), carries |-> d.ops[o].carries]
          BY <1>11
        <5> QED
          BY <5>1
      <4> QED
        BY <1>12, <4>1, <4>2
    <3>2. Carriers(new) = Carriers(d)
      BY <3>1 DEF Carriers
    <3> QED
      BY <2>2, <3>2 DEF Found, Remove
  <2>3. Overlays[j].op \in Ops
    BY OverlayAssumption DEF OverlayAssumption
  <2> QED
    BY <1>15, <2>1, <2>2, <2>3 DEF Ops, Repaired, Rename, Remove, Fragment
<1> QED
  BY <1>8, <1>14, <1>15 DEF new

\* An action whose guard holds leaves a respelt specification, in which the other actions
\* find what they would have found before it.
LEMMA OverlayApplied ==
    ASSUME NEW r \in Specs, NEW d, NEW key \in Injection(DOMAIN r.schemas, DOMAIN Words),
           Respelt(r, d, key),
           NEW i \in DOMAIN Overlays, NEW guard, ApplyOK(d, Overlays[i], guard),
           Rename(Overlays[i]) => guard # Absent
    PROVE  /\ \E key2 \in Injection(DOMAIN r.schemas, DOMAIN Words) :
                Respelt(r, Apply(d, Overlays[i]), key2)
           /\ \A j \in DOMAIN Overlays :
                Repaired(j) /\ j # i => Found(Apply(d, Overlays[i]), Overlays[j]) = Found(d, Overlays[j])
<1> DEFINE a == Overlays[i]
<1>1. a.op \in Ops
  BY OverlayAssumption DEF OverlayAssumption
<1>2. CASE a.op = "set"
  <2>1. Fragment(a) /\ Apply(d, a) = [d EXCEPT !.frags[a.target] = a.value]
    BY <1>2 DEF Fragment, Apply, set
  <2> QED
    BY <2>1, FragmentRepaired
<1>3. CASE a.op = "merge"
  <2>1. Fragment(a) /\ Apply(d, a) = [d EXCEPT !.frags[a.target] = a.value @@ @]
    BY <1>3 DEF Fragment, Apply, merge
  <2>2. PICK value : Apply(d, a) = [d EXCEPT !.frags[a.target] = value]
    BY <2>1
  <2> QED
    BY <2>1, <2>2, FragmentRepaired
<1>4. CASE a.op = "removeParameter"
  <2>1. Remove(a) /\ Apply(d, a) = removeParameter(d)
    BY <1>4 DEF Remove, Apply
  <2> QED
    BY <2>1, ParameterRemoved
<1>5. CASE a.op = "renameSchema"
  <2>1. Rename(a) /\ Apply(d, a) = renameSchema(d, a)
    BY <1>5 DEF Rename, Apply
  <2>2. renameSchemaOK(d, a, guard)
    BY <1>5 DEF ApplyOK
  <2>3. a.target \in DOMAIN d.schemas /\ a.value \notin DOMAIN d.schemas
    BY <1>5, <2>1, <2>2 DEF renameSchemaOK, Clash, check, Found
  <2> QED
    BY <2>1, <2>3, SchemaRenamed
<1> QED
  BY <1>1, <1>2, <1>3, <1>4, <1>5 DEF Ops

\* A specification is itself in its own spelling.
LEMMA AsPublished ==
    ASSUME NEW r \in Specs
    PROVE  \E key \in Injection(DOMAIN r.schemas, DOMAIN Words) : Respelt(r, r, key)
<1> DEFINE keys == DOMAIN r.schemas
           bodies == {r.schemas[k].body : k \in keys}
           key == [k \in keys |-> k]
           Spelt(k) == IF k = None THEN None ELSE key[k]
<1>1. /\ keys \subseteq DOMAIN Words
      /\ r \in [frags   : [DOMAIN r.frags -> Range(r.frags)],
                schemas : [keys -> [body : bodies, refs : SUBSET keys, parents : SUBSET keys, poly : BOOLEAN]],
                ops     : [DOMAIN r.ops -> [live : BOOLEAN, request : keys \cup {None}, carries : BOOLEAN]]]
  BY SpecAssumption DEF SpecAssumption
<1>2. key \in Injection(keys, DOMAIN Words)
  BY <1>1 DEF Injection, IsInjective
<1>3. DOMAIN r.schemas = Range(key)
  BY DEF Range
<1>4. ASSUME NEW k \in keys
      PROVE  r.schemas[key[k]] = [body    |-> r.schemas[k].body,
                                  refs    |-> {key[j] : j \in r.schemas[k].refs},
                                  parents |-> {key[j] : j \in r.schemas[k].parents},
                                  poly    |-> r.schemas[k].poly]
  <2>1. r.schemas[k] \in [body : bodies, refs : SUBSET keys, parents : SUBSET keys, poly : BOOLEAN]
    <3> HIDE DEF bodies
    <3> QED
      BY <1>1
  <2>2. /\ r.schemas[k] = [body |-> r.schemas[k].body, refs |-> r.schemas[k].refs,
                           parents |-> r.schemas[k].parents, poly |-> r.schemas[k].poly]
        /\ r.schemas[k].refs \subseteq keys /\ r.schemas[k].parents \subseteq keys
    <3> HIDE DEF bodies
    <3> QED
      BY <2>1
  <2>3. /\ {key[j] : j \in r.schemas[k].refs} = r.schemas[k].refs
        /\ {key[j] : j \in r.schemas[k].parents} = r.schemas[k].parents
    BY <2>2
  <2>4. key[k] = k
    OBVIOUS
  <2> HIDE DEF key
  <2> QED
    BY <2>2, <2>3, <2>4
<1>5. ASSUME NEW o \in DOMAIN r.ops
      PROVE  r.ops[o] = [live |-> r.ops[o].live, request |-> Spelt(r.ops[o].request), carries |-> r.ops[o].carries]
  <2>1. r.ops[o] \in [live : BOOLEAN, request : keys \cup {None}, carries : BOOLEAN]
    <3> HIDE DEF bodies
    <3> QED
      BY <1>1
  <2>2. /\ r.ops[o] = [live |-> r.ops[o].live, request |-> r.ops[o].request, carries |-> r.ops[o].carries]
        /\ r.ops[o].request \in keys \cup {None}
    BY <2>1
  <2>3. Spelt(r.ops[o].request) = r.ops[o].request
    BY <2>2
  <2> HIDE DEF Spelt
  <2> QED
    BY <2>2, <2>3
<1>6. /\ r = [frags |-> r.frags, schemas |-> r.schemas, ops |-> r.ops]
      /\ r.frags = [t \in DOMAIN r.frags |-> r.frags[t]]
      /\ r.ops = [o \in DOMAIN r.ops |-> r.ops[o]]
  <2> HIDE DEF bodies
  <2> QED
    BY <1>1
<1>7. r.ops = [o \in DOMAIN r.ops |-> [live |-> r.ops[o].live, request |-> Spelt(r.ops[o].request),
                                       carries |-> r.ops[o].carries]]
  <2> HIDE DEF Spelt
  <2> QED
    BY <1>5, <1>6
<1> HIDE DEF key
<1>8. Respelt(r, r, key)
  BY <1>3, <1>4, <1>6, <1>7 DEF Respelt
<1> QED
  BY <1>2, <1>8

-----------------------------------------------------------------------------
(* The run.                                                                *)

\* An idle generator that did not just succeed has nothing to answer for.
LEMMA NothingToShow ==
    ASSUME RunType', phase' \notin {"repair", "write"}, result' # "ok"
    PROVE  IInv'
  BY DEF IInv, PinChecked, GuardsRead, OnlyRespelt, HalfWritten, Repairing, PublishedIsPinned, EverySchemaItsType

\* The shape of what is on disk.
LEMMA FilesShape ==
    ASSUME RunType, NEW f \in Files, NEW from, NEW text, NEW whole
    PROVE  LET new == [files EXCEPT ![f] = [from |-> from, text |-> text, whole |-> whole]]
           IN  /\ new = [g \in Files |-> [from |-> new[g].from, text |-> new[g].text, whole |-> new[g].whole]]
               /\ new[f] = [from |-> from, text |-> text, whole |-> whole]
               /\ \A g \in Files : g # f => new[g] = files[g]
<1> DEFINE new == [files EXCEPT ![f] = [from |-> from, text |-> text, whole |-> whole]]
<1>1. files = [g \in Files |-> [from |-> files[g].from, text |-> files[g].text, whole |-> files[g].whole]]
  BY DEF RunType
<1>2. DOMAIN files = Files /\ new = [g \in Files |-> new[g]]
  BY <1>1
<1>3. /\ new[f] = [from |-> from, text |-> text, whole |-> whole]
      /\ \A g \in Files : g # f => new[g] = files[g]
  BY <1>2
<1>4. ASSUME NEW g \in Files
      PROVE  new[g] = [from |-> new[g].from, text |-> new[g].text, whole |-> new[g].whole]
  <2>1. CASE g = f
    BY <1>3, <2>1
  <2>2. CASE g # f
    <3>1. files[g] = [from |-> files[g].from, text |-> files[g].text, whole |-> files[g].whole]
      BY <1>1
    <3> HIDE DEF new
    <3> QED
      BY <1>3, <2>2, <3>1
  <2> QED
    BY <2>1, <2>2
<1> HIDE DEF new
<1>5. new = [g \in Files |-> [from |-> new[g].from, text |-> new[g].text, whole |-> new[g].whole]]
  BY <1>2, <1>4
<1> QED
  BY <1>3, <1>5 DEF new

\* However a run stops, it leaves the invariant behind.
LEMMA StopKeeps ==
    ASSUME IInv, Stop, upstream' \in Specs, expect' = expect,
           files' = [f \in Files |-> [from |-> files'[f].from, text |-> files'[f].text, whole |-> files'[f].whole]]
    PROVE  IInv'
<1>1. RunType'
  BY OverlayAssumption DEF IInv, RunType, Stop, OverlayAssumption
<1> QED
  BY <1>1, NothingToShow DEF Stop

\* It holds when nothing has run yet.
LEMMA InvInit == Init => IInv
<1> SUFFICES ASSUME Init PROVE IInv
  OBVIOUS
<1>1. RunType
  <2>1. files = [f \in Files |-> [from |-> files[f].from, text |-> files[f].text, whole |-> files[f].whole]]
    BY DEF Init
  <2> QED
    BY <2>1, OverlayAssumption DEF Init, RunType, OverlayAssumption
<1> QED
  BY <1>1 DEF Init, IInv, PinChecked, GuardsRead, OnlyRespelt, HalfWritten, Repairing,
              PublishedIsPinned, EverySchemaItsType

\* A step in which the run does nothing keeps what is said of the run.
LEMMA RunStands ==
    ASSUME IInv, UNCHANGED <<pin, phase, raw, doc, at, todo, files, result>>,
           upstream' \in Specs,
           \/ UNCHANGED expect
           \/ /\ phase = "idle" /\ DOMAIN expect' = DOMAIN expect
              /\ \A i \in DOMAIN Overlays : Rename(Overlays[i]) => expect'[i] # Absent
    PROVE  IInv'
<1>1. RunType'
  BY DEF IInv, RunType
<1>2. PinChecked' /\ OnlyRespelt'
  BY DEF IInv, PinChecked, OnlyRespelt, Repairing
<1>3. GuardsRead'
  BY DEF IInv, GuardsRead, Repairing
<1>4. HalfWritten'
  BY DEF IInv, HalfWritten, Rendered
<1>5. PublishedIsPinned' /\ EverySchemaItsType'
  BY DEF IInv, PublishedIsPinned, EverySchemaItsType
<1> QED
  BY <1>1, <1>2, <1>3, <1>4, <1>5 DEF IInv

\* Past the pin the run starts from the specification as it was published.
LEMMA PassedKeeps ==
    ASSUME IInv, phase = "pin", Passed, pin' = raw, UNCHANGED <<upstream, expect, files>>
    PROVE  IInv'
<1>1. raw \in Specs /\ result' = "none" /\ phase' = "repair" /\ at' = 1 /\ doc' = raw /\ raw' = raw
  BY DEF IInv, RunType, Passed
<1>2. RunType'
  BY <1>1, OverlayAssumption DEF IInv, RunType, OverlayAssumption
<1>3. OnlyRespelt'
  BY <1>1, AsPublished DEF OnlyRespelt
<1>4. GuardsRead'
  <2>1. \A i \in DOMAIN Overlays : ~(i < 1)
    BY OverlayAssumption DEF OverlayAssumption
  <2> QED
    BY <1>1, <2>1 DEF GuardsRead
<1> QED
  BY <1>1, <1>2, <1>3, <1>4 DEF IInv, PinChecked, HalfWritten, PublishedIsPinned, EverySchemaItsType

\* An overlay action is applied, or stops the run.
LEMMA OverlayKeeps ==
    ASSUME IInv, applyOverlays
    PROVE  IInv'
<1> DEFINE a == Overlays[at]
<1>1. /\ phase = "repair" /\ at \in DOMAIN Overlays /\ Len(Overlays) \in Nat
      /\ raw \in Specs /\ pin = raw /\ result = "none"
  BY OverlayAssumption DEF IInv, RunType, PinChecked, Repairing, applyOverlays, OverlayAssumption
<1>2. CASE ~ApplyOK(doc, a, expect[at])
  BY <1>2, StopKeeps DEF applyOverlays, IInv, RunType
<1>3. CASE ApplyOK(doc, a, expect[at])
  <2>1. /\ doc' = Apply(doc, a) /\ at' = at + 1
        /\ UNCHANGED <<upstream, pin, expect, phase, repin, raw, todo, files, result>>
    BY <1>3 DEF applyOverlays
  <2>2. PICK key \in Injection(DOMAIN raw.schemas, DOMAIN Words) : Respelt(raw, doc, key)
    BY <1>1 DEF IInv, OnlyRespelt, Repairing
  <2>3. Rename(a) => expect[at] # Absent
    BY <1>1 DEF IInv, RunType
  <2>4. /\ \E key2 \in Injection(DOMAIN raw.schemas, DOMAIN Words) : Respelt(raw, Apply(doc, a), key2)
        /\ \A j \in DOMAIN Overlays :
             Repaired(j) /\ j # at => Found(Apply(doc, a), Overlays[j]) = Found(doc, Overlays[j])
    BY <1>1, <1>3, <2>2, <2>3, OverlayApplied
  <2>5. Found(doc, a) = expect[at]
    BY <1>1, <1>3, GuardCompared
  <2>6. GuardsRead'
    <3> SUFFICES ASSUME NEW i \in DOMAIN Overlays, Repaired(i)
                 PROVE  Found(raw, Overlays[i]) = IF i < at + 1 THEN expect[i]
                                                    ELSE Found(Apply(doc, a), Overlays[i])
      BY <2>1 DEF GuardsRead
    <3>1. Found(raw, Overlays[i]) = IF i < at THEN expect[i] ELSE Found(doc, Overlays[i])
      BY <1>1 DEF IInv, GuardsRead, Repairing
    <3>2. i \in Nat /\ at \in Nat
      BY <1>1, OverlayAssumption DEF OverlayAssumption
    <3>3. CASE i < at
      BY <3>1, <3>2, <3>3
    <3>4. CASE i = at
      BY <2>5, <3>1, <3>2, <3>4
    <3>5. CASE i > at
      BY <2>4, <3>1, <3>2, <3>5
    <3> QED
      BY <3>2, <3>3, <3>4, <3>5
  <2>7. OnlyRespelt'
    BY <2>1, <2>4 DEF OnlyRespelt
  <2>8. RunType'
    BY <1>1, <2>1, OverlayAssumption DEF IInv, RunType, OverlayAssumption
  <2>9. PinChecked' /\ HalfWritten' /\ PublishedIsPinned' /\ EverySchemaItsType'
    BY <1>1, <2>1 DEF IInv, PinChecked, HalfWritten, PublishedIsPinned, EverySchemaItsType
  <2> QED
    BY <2>6, <2>7, <2>8, <2>9 DEF IInv
<1> QED
  BY <1>2, <1>3

\* A file is written; the second one makes the run a success.
LEMMA WriteKeeps ==
    ASSUME IInv, NEW f \in Files, WriteFile(f)
    PROVE  IInv'
<1>1. /\ phase = "write" /\ f \in todo /\ todo \subseteq Files /\ raw \in Specs /\ pin = raw /\ result = "none"
      /\ \A g \in Files \ todo : files[g] = [from |-> raw, text |-> Rendered(g), whole |-> TRUE]
      /\ \E key \in Injection(DOMAIN raw.schemas, DOMAIN Words) : Respelt(raw, doc, key)
      /\ at > Len(Overlays)
  BY DEF IInv, RunType, PinChecked, HalfWritten, OnlyRespelt, Repairing, WriteFile
<1>2. /\ files' = [files EXCEPT ![f] = [from |-> raw, text |-> Rendered(f), whole |-> TRUE]]
      /\ todo' = todo \ {f} /\ UNCHANGED <<upstream, pin, expect>>
  BY DEF WriteFile
<1>3. /\ files' = [g \in Files |-> [from |-> files'[g].from, text |-> files'[g].text, whole |-> files'[g].whole]]
      /\ files'[f] = [from |-> raw, text |-> Rendered(f), whole |-> TRUE]
      /\ \A g \in Files : g # f => files'[g] = files[g]
  BY <1>2, FilesShape DEF IInv
<1>4. \A g \in Files \ todo' : files'[g] = [from |-> raw, text |-> Rendered(g), whole |-> TRUE]
  BY <1>1, <1>2, <1>3
<1>5. CASE todo # {f}
  <2>1. UNCHANGED <<phase, result, raw, doc, at, repin>> /\ todo' # {} /\ todo' \subseteq Files
    BY <1>1, <1>2, <1>5 DEF WriteFile
  <2>2. RunType'
    BY <1>2, <1>3, <2>1 DEF IInv, RunType
  <2>3. PinChecked' /\ GuardsRead' /\ OnlyRespelt'
    BY <1>2, <2>1 DEF IInv, PinChecked, GuardsRead, OnlyRespelt, Repairing
  <2>4. HalfWritten'
    BY <1>1, <1>4, <2>1 DEF HalfWritten, Rendered
  <2>5. PublishedIsPinned' /\ EverySchemaItsType'
    BY <1>1, <2>1 DEF PublishedIsPinned, EverySchemaItsType
  <2> QED
    BY <2>2, <2>3, <2>4, <2>5 DEF IInv
<1>6. CASE todo = {f}
  <2>1. phase' = "idle" /\ result' = "ok" /\ at' = 1
    BY <1>6 DEF WriteFile
  <2>2. RunType'
    BY <1>2, <1>3, <2>1, OverlayAssumption DEF IInv, RunType, OverlayAssumption
  <2>3. \A g \in Files : files'[g] = [from |-> pin', text |-> Rendered(g), whole |-> TRUE]
    BY <1>1, <1>2, <1>4, <1>6
  <2>4. PublishedIsPinned'
    <3>1. ASSUME NEW g \in Files
          PROVE  files'[g].from = pin' /\ files'[g].whole
      <4>1. files'[g] = [from |-> pin', text |-> Rendered(g), whole |-> TRUE]
        BY <2>3
      <4> QED
        BY <4>1
    <3> QED
      BY <3>1 DEF PublishedIsPinned
  <2>5. EverySchemaItsType'
    <3>1. files'["types"].text = Emit(doc)
      <4>1. files'["types"] = [from |-> pin', text |-> Rendered("types"), whole |-> TRUE]
        BY <2>3 DEF Files
      <4> QED
        BY <4>1 DEF Rendered
    <3>2. files'["operations"].text = EmitOperations(doc)
      <4>1. files'["operations"] = [from |-> pin', text |-> Rendered("operations"), whole |-> TRUE]
        BY <2>3 DEF Files
      <4> QED
        BY <4>1 DEF Rendered
    <3>3. OneTypeEach(raw, Emit(doc), EmitOperations(doc))
      BY <1>1, RespeltIsEmitted
    <3> QED
      BY <1>1, <1>2, <3>1, <3>2, <3>3 DEF EverySchemaItsType
  <2> QED
    BY <2>1, <2>2, <2>4, <2>5 DEF IInv, PinChecked, GuardsRead, OnlyRespelt, HalfWritten, Repairing
<1> QED
  BY <1>5, <1>6

\* Every step keeps the invariant.
LEMMA InvNext == IInv /\ [Next]_vars => IInv'
<1> SUFFICES ASSUME IInv, [Next]_vars PROVE IInv'
  OBVIOUS
<1>f. files = [f \in Files |-> [from |-> files[f].from, text |-> files[f].text, whole |-> files[f].whole]]
  BY DEF IInv, RunType
<1>1. CASE Drift
  BY <1>1, RunStands DEF Drift
<1>2. ASSUME NEW i \in DOMAIN Overlays, Review(i)
      PROVE  IInv'
  BY <1>2, RunStands DEF Review, IInv, RunType
<1>3. CASE Fetch
  <2>1. CASE Stop
    BY <1>3, <1>f, <2>1, StopKeeps DEF Fetch, IInv, RunType
  <2>2. CASE ~Stop
    <3>1. /\ raw' = upstream /\ phase' = "pin" /\ result' = "none"
          /\ UNCHANGED <<doc, at, todo, upstream, pin, expect, files>>
      BY <1>3, <2>2 DEF Fetch
    <3>2. RunType'
      BY <3>1 DEF IInv, RunType
    <3> QED
      BY <3>1, <3>2, NothingToShow
  <2> QED
    BY <2>1, <2>2
<1>4. CASE checkPin
  <2>1. CASE Stop
    BY <1>4, <1>f, <2>1, StopKeeps DEF checkPin, IInv, RunType
  <2>2. CASE ~Stop
    BY <1>4, <2>2, PassedKeeps DEF checkPin
  <2> QED
    BY <2>1, <2>2
<1>5. CASE applyOverlays
  BY <1>5, OverlayKeeps
<1>6. CASE Render
  <2>1. /\ phase' = "write" /\ todo' = Files /\ at > Len(Overlays) /\ phase = "repair"
        /\ UNCHANGED <<upstream, pin, expect, repin, raw, doc, at, files, result>>
    BY <1>6 DEF Render
  <2>2. RunType'
    BY <2>1 DEF IInv, RunType
  <2>3. PinChecked' /\ GuardsRead' /\ OnlyRespelt'
    BY <2>1 DEF IInv, PinChecked, GuardsRead, OnlyRespelt, Repairing
  <2>4. HalfWritten'
    BY <2>1 DEF HalfWritten, Files
  <2>5. PublishedIsPinned' /\ EverySchemaItsType'
    BY <2>1 DEF IInv, RunType, PublishedIsPinned, EverySchemaItsType
  <2> QED
    BY <2>2, <2>3, <2>4, <2>5 DEF IInv
<1>7. CASE Killed
  <2>1. files' = [f \in Files |-> [from |-> files'[f].from, text |-> files'[f].text, whole |-> files'[f].whole]]
    <3>1. CASE UNCHANGED files
      BY <1>f, <3>1
    <3>2. ASSUME NEW f \in todo, files' = [files EXCEPT ![f].whole = FALSE]
          PROVE  files' = [g \in Files |-> [from |-> files'[g].from, text |-> files'[g].text, whole |-> files'[g].whole]]
      <4>1. PICK v : files' = [files EXCEPT ![f].whole = v]
        BY <3>2
      <4>2. ASSUME NEW g \in Files
            PROVE  files'[g] = [from |-> files'[g].from, text |-> files'[g].text, whole |-> files'[g].whole]
        <5>1. PICK a, b, c : files[g] = [from |-> a, text |-> b, whole |-> c]
          BY <1>f
        <5>2. files'[g] = IF g = f THEN [files[g] EXCEPT !.whole = v] ELSE files[g]
          BY <1>f, <4>1
        <5>3. files'[g] = [from |-> a, text |-> b, whole |-> IF g = f THEN v ELSE c]
          BY <5>1, <5>2
        <5> QED
          BY <5>3
      <4>3. files' = [g \in Files |-> files'[g]]
        BY <1>f, <4>1
      <4> QED
        BY <4>2, <4>3
    <3> QED
      BY <1>7, <3>1, <3>2 DEF Killed
  <2> QED
    BY <1>7, <2>1, StopKeeps DEF Killed, IInv, RunType
<1>8. ASSUME NEW f \in Files, WriteFile(f)
      PROVE  IInv'
  BY <1>8, WriteKeeps
<1>9. CASE UNCHANGED vars
  BY <1>9, RunStands DEF vars, IInv, RunType
<1> QED
  BY <1>1, <1>2, <1>3, <1>4, <1>5, <1>6, <1>7, <1>8, <1>9 DEF Next

\* The run keeps its invariant, whatever upstream, the developer and the disk do.
THEOREM Invariance == Spec => []IInv
<1>1. Init => IInv
  BY InvInit
<1>2. IInv /\ [Next]_vars => IInv'
  BY InvNext
<1> QED
  BY <1>1, <1>2, PTL DEF Spec

\* What a run that succeeded left on disk is rendered from the one specification the pin names.
THEOREM PinIsPublished == Spec => []PublishedIsPinned
<1>1. IInv => PublishedIsPinned
  BY DEF IInv
<1> QED
  BY <1>1, Invariance, PTL

\* After a successful run every schema of the pinned specification has one Go type of its own,
\* and every reference is to the type of the schema that upstream meant.
THEOREM SchemasHaveTypes == Spec => []EverySchemaItsType
<1>1. IInv => EverySchemaItsType
  BY DEF IInv
<1> QED
  BY <1>1, Invariance, PTL

\* A run succeeds only on a specification where all that the overlays repair still was what
\* the author of the overlay had recorded.
THEOREM FixesAreSeen == Spec => FixedStaysFixed
<1>1. IInv /\ [Next]_vars =>
        [result' = "ok" /\ result # "ok" =>
           \A i \in DOMAIN Overlays : Repaired(i) => Found(raw, Overlays[i]) = expect[i]]_vars
  <2> SUFFICES ASSUME IInv, Next, result' = "ok", result # "ok",
                      NEW i \in DOMAIN Overlays, Repaired(i)
               PROVE  Found(raw, Overlays[i]) = expect[i]
    BY DEF vars
  <2>1. \E f \in Files : WriteFile(f)
    BY DEF Next, Drift, Review, Fetch, Stop, checkPin, Passed, applyOverlays, Render, Killed
  <2>2. phase = "write"
    BY <2>1 DEF WriteFile
  <2>3. at > Len(Overlays) /\ at \in Int /\ Len(Overlays) \in Nat /\ i \in 1..Len(Overlays)
    BY <2>2, OverlayAssumption DEF IInv, RunType, HalfWritten, OverlayAssumption
  <2> QED
    BY <2>2, <2>3 DEF IInv, GuardsRead, Repairing
<1> QED
  BY <1>1, Invariance, PTL DEF Spec, FixedStaysFixed
=============================================================================
