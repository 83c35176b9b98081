--------------------------- MODULE ServerGenProofs ---------------------------
(***************************************************************************)
(* What the generator of the iikoServer types promises for every catalog,   *)
(* every set of packages and of types written by hand, and whenever a run   *)
(* is killed or the catalog changed.  Two parts: the rounds of assign lead  *)
(* to the DTOs in use, in whatever order the catalog lists them; and the    *)
(* files of a run that came to its end are those it rendered.               *)
(***************************************************************************)
EXTENDS ServerGen, FiniteSetTheorems, WellFoundedInduction, TLAPS

-----------------------------------------------------------------------------
(* Counting up.                                                            *)

\* What holds of 0, and of a number if of the one before, holds up to n.
LEMMA Climb ==
  ASSUME NEW n \in Nat, NEW P,
         0 \in P, \A i \in 1..n : i - 1 \in P => i \in P
  PROVE  \A i \in 0..n : i \in P
<1> SUFFICES ASSUME NEW j \in 0..n, j \notin P PROVE FALSE
  OBVIOUS
<1> DEFINE T == {i \in 0..n : i \notin P}
<1>1. T \in SUBSET Nat /\ T # {}
  OBVIOUS
<1>2. PICK m \in T : \A i \in T : ~(<<i, m>> \in OpToRel(<, Nat))
  BY <1>1, NatLessThanWellFounded, WFMin
<1>3. m \in 1..n
  OBVIOUS
<1>4. <<m - 1, m>> \in OpToRel(<, Nat)
  BY <1>3 DEF OpToRel
<1>5. m - 1 \notin T
  BY <1>2, <1>4
<1> QED
  BY <1>3, <1>5

\* A set of numbers that is not empty has a least one.
LEMMA LeastNumber ==
  ASSUME NEW S \in SUBSET Nat, S # {}
  PROVE  Min(S) \in S /\ \A i \in S : Min(S) <= i
<1>1. PICK m \in S : \A i \in S : ~(<<i, m>> \in OpToRel(<, Nat))
  BY NatLessThanWellFounded, WFMin
<1>2. \A i \in S : m <= i
  <2> TAKE i \in S
  <2>1. ~ (i < m)
    BY <1>1 DEF OpToRel
  <2> QED
    BY <2>1
<1> QED
  BY <1>2 DEF Min

-----------------------------------------------------------------------------
(* One DTO is visited.                                                     *)

\* The assignments a run of assign goes through: each domain is one the start had.
Places(cat) == {First(cat)[n] : n \in Names(cat)} \cup {None}
Assignments(cat) == [Names(cat) -> Places(cat)]
Placed(out) == {n \in DOMAIN out : out[n] # None}

\* Who has a domain keeps it.
Grows(out, next) == \A n \in DOMAIN out : out[n] # None => next[n] = out[n]

\* The entries of a catalog.
LEMMA Entries ==
  ASSUME NEW cat \in Catalogs
  PROVE  /\ Len(cat) \in Nat /\ DOMAIN cat = 1..Len(cat)
         /\ ToSet(cat) = {cat[i] : i \in 1..Len(cat)}
         /\ Names(cat) = {cat[i].name : i \in 1..Len(cat)}
         /\ \A i \in 1..Len(cat) :
              /\ cat[i] \in ToSet(cat) /\ cat[i].name \in Names(cat)
              /\ IsSequence(cat[i].owners)
<1>1. IsSequence(cat) /\ \A i \in DOMAIN cat : IsSequence(cat[i].owners)
  BY CatalogAssumption
<1>2. Len(cat) \in Nat /\ DOMAIN cat = 1..Len(cat)
  BY <1>1 DEF IsSequence
<1>3. ToSet(cat) = {cat[i] : i \in 1..Len(cat)}
  BY <1>2 DEF ToSet
<1> QED
  BY <1>1, <1>2, <1>3 DEF Names

\* A name is the name of one entry, which is what First looks at.
LEMMA FirstSettles ==
  ASSUME NEW cat \in Catalogs
  PROVE  /\ First(cat) \in Assignments(cat)
         /\ \A d \in ToSet(cat) : d.name \in Names(cat) /\ First(cat)[d.name] = Settled(d)
<1>1. First(cat) \in Assignments(cat)
  BY DEF First, Assignments, Places
<1>2. ASSUME NEW d \in ToSet(cat)
      PROVE  d.name \in Names(cat) /\ First(cat)[d.name] = Settled(d)
  <2>1. PICK i \in 1..Len(cat) : d = cat[i]
    BY Entries
  <2>2. d.name \in Names(cat)
    BY <2>1, Entries
  <2>3. \A e \in ToSet(cat) : e.name = d.name => e = d
    <3> SUFFICES ASSUME NEW e \in ToSet(cat), e.name = d.name PROVE e = d
      OBVIOUS
    <3>1. PICK j \in 1..Len(cat) : e = cat[j]
      BY Entries
    <3> QED
      BY <2>1, <3>1, Entries, CatalogAssumption
  <2>4. (CHOOSE e \in ToSet(cat) : e.name = d.name) = d
    BY <2>3
  <2> QED
    BY <2>2, <2>4 DEF First
<1> QED
  BY <1>1, <1>2

\* A DTO inherits from one of its owners, unless none of them has a domain.
LEMMA InheritsFromOwner ==
  ASSUME NEW cat \in Catalogs, NEW out \in Assignments(cat), NEW d \in ToSet(cat)
  PROVE  \/ /\ Inherited(out, d) = None
            /\ \A u \in ToSet(d.owners) \cap Names(cat) : out[u] = None
         \/ \E u \in ToSet(d.owners) \cap Names(cat) : out[u] # None /\ Inherited(out, d) = out[u]
<1>1. PICK i \in 1..Len(cat) : d = cat[i]
  BY Entries
<1>2. /\ DOMAIN d.owners = 1..Len(d.owners) /\ Len(d.owners) \in Nat
      /\ ToSet(d.owners) = {d.owners[k] : k \in DOMAIN d.owners}
  BY <1>1, Entries DEF IsSequence, ToSet
<1>3. DOMAIN out = Names(cat)
  BY DEF Assignments
<1> DEFINE placed == {k \in DOMAIN d.owners : d.owners[k] \in DOMAIN out /\ out[d.owners[k]] # None}
<1>4. Inherited(out, d) = IF placed = {} THEN None ELSE out[d.owners[Min(placed)]]
  BY DEF Inherited
<1>5. CASE placed = {}
  <2>1. \A u \in ToSet(d.owners) \cap Names(cat) : out[u] = None
    BY <1>2, <1>3, <1>5
  <2> QED
    BY <1>4, <1>5, <2>1
<1>6. CASE placed # {}
  <2>1. placed \in SUBSET Nat
    BY <1>2
  <2> HIDE DEF placed
  <2>2. Min(placed) \in placed
    BY <1>6, <2>1, LeastNumber
  <2> QED
    BY <1>2, <1>3, <1>4, <1>6, <2>2 DEF placed
<1> QED
  BY <1>5, <1>6

\* A visit moves nobody, and places a DTO only next to one of its owners.
LEMMA VisitStep ==
  ASSUME NEW cat \in Catalogs, NEW out \in Assignments(cat), NEW d \in ToSet(cat)
  PROVE  /\ Visit(out, d) \in Assignments(cat)
         /\ Grows(out, Visit(out, d))
         /\ \A n \in Names(cat) :
              out[n] = None /\ Visit(out, d)[n] # None =>
                /\ n = d.name /\ n \notin skipped
                /\ \E u \in ToSet(d.owners) \cap Names(cat) :
                     out[u] # None /\ Visit(out, d)[n] = out[u]
         /\ Visit(out, d) = out /\ out[d.name] = None /\ d.name \notin skipped =>
              \A u \in ToSet(d.owners) \cap Names(cat) : out[u] = None
<1>1. d.name \in Names(cat) /\ DOMAIN out = Names(cat)
  BY FirstSettles DEF Assignments
<1>2. CASE out[d.name] # None \/ d.name \in skipped
  <2>1. Visit(out, d) = out
    BY <1>2 DEF Visit
  <2> QED
    BY <1>2, <2>1 DEF Grows
<1>3. CASE out[d.name] = None /\ d.name \notin skipped
  <2>1. Visit(out, d) = [out EXCEPT ![d.name] = Inherited(out, d)]
    BY <1>3 DEF Visit
  <2>2. Inherited(out, d) \in Places(cat)
    BY InheritsFromOwner DEF Assignments, Places
  <2>3. Visit(out, d) \in Assignments(cat)
    BY <1>1, <2>1, <2>2 DEF Assignments
  <2>4. /\ Visit(out, d)[d.name] = Inherited(out, d)
        /\ \A n \in Names(cat) : n # d.name => Visit(out, d)[n] = out[n]
    BY <1>1, <2>1
  <2>5. Grows(out, Visit(out, d))
    BY <1>1, <1>3, <2>4 DEF Grows
  <2> QED
    BY <1>3, <2>3, <2>4, <2>5, InheritsFromOwner
<1> QED
  BY <1>2, <1>3

-----------------------------------------------------------------------------
(* One round over the catalog, and the rounds of assign.                   *)

\* g begins with first, and step gives its next value.
Iterates(n, first, step, g) ==
  g = [i \in 0..n |-> IF i = 0 THEN first ELSE step[<<i, g[i - 1]>>]]

\* There is such a g, whatever step is.
LEMMA Recursion ==
  ASSUME NEW n \in Nat, NEW first, NEW step
  PROVE  \E g : Iterates(n, first, step, g)
<1> DEFINE Runs(m, g) == g = [i \in 0..m |-> IF i = 0 THEN first ELSE step[<<i, g[i - 1]>>]]
           P == {m \in 0..n : \E g : Runs(m, g)}
<1>1. 0 \in P
  <2>1. Runs(0, [i \in 0..0 |-> first])
    OBVIOUS
  <2> HIDE DEF Runs
  <2> QED
    BY <2>1
<1>2. ASSUME NEW m \in 1..n, m - 1 \in P
      PROVE  m \in P
  <2>1. PICK g : Runs(m - 1, g)
    BY <1>2
  <2> DEFINE h == [i \in 0..m |-> IF i = m THEN step[<<m, g[m - 1]>>] ELSE g[i]]
  <2>2. \A i \in 0..(m - 1) : g[i] = IF i = 0 THEN first ELSE step[<<i, g[i - 1]>>]
    BY <2>1
  <2>3. ASSUME NEW i \in 0..m
        PROVE  h[i] = IF i = 0 THEN first ELSE step[<<i, h[i - 1]>>]
    <3>1. CASE i = m
      BY <3>1
    <3>2. CASE i # m
      <4>1. i \in 0..(m - 1) /\ h[i] = g[i] /\ (i # 0 => h[i - 1] = g[i - 1])
        BY <3>2
      <4> QED
        BY <2>2, <4>1
    <3> QED
      BY <3>1, <3>2
  <2> HIDE DEF h
  <2>4. h = [i \in 0..m |-> h[i]]
    BY DEF h
  <2>5. Runs(m, h)
    BY <2>3, <2>4
  <2> QED
    BY <2>5
<1> HIDE DEF P
<1>3. \A m \in 0..n : m \in P
  BY <1>1, <1>2, Climb
<1>4. n \in P
  BY <1>3
<1> QED
  BY <1>4 DEF P, Iterates

\* What After of Round is, and Out of assign.
IsRound(cat, out, A) ==
  A = [i \in 0..Len(cat) |-> IF i = 0 THEN out ELSE Visit(A[i-1], cat[i])]
IsAssign(cat, O) ==
  O = [n \in 0..Len(cat) |-> IF n = 0 THEN First(cat) ELSE Round(cat, O[n-1])]

\* A round visits the entries one by one.
LEMMA RoundSteps ==
  ASSUME NEW cat \in Catalogs, NEW out \in Assignments(cat)
  PROVE  \E A : /\ A[0] = out /\ A[Len(cat)] = Round(cat, out)
                /\ \A i \in 0..Len(cat) : A[i] \in Assignments(cat)
                /\ \A i \in 1..Len(cat) : A[i] = Visit(A[i-1], cat[i])
<1>0. Len(cat) \in Nat
  BY Entries
<1>s. PICK step : step = [w \in (1..Len(cat)) \X Assignments(cat) |-> Visit(w[2], cat[w[1]])]
  OBVIOUS
<1>1. PICK g : Iterates(Len(cat), out, step, g)
  BY <1>0, Recursion
<1>2. g[0] = out /\ \A i \in 1..Len(cat) : g[i] = step[<<i, g[i-1]>>]
  BY <1>0, <1>1 DEF Iterates
<1>3. \A i \in 1..Len(cat), o \in Assignments(cat) : step[<<i, o>>] = Visit(o, cat[i])
  BY <1>s
<1> DEFINE P == {i \in 0..Len(cat) : g[i] \in Assignments(cat)}
<1>4. \A i \in 0..Len(cat) : i \in P
  <2>1. 0 \in P
    BY <1>0, <1>2
  <2>2. ASSUME NEW i \in 1..Len(cat), i - 1 \in P PROVE i \in P
    <3>1. g[i] = Visit(g[i-1], cat[i])
      BY <1>0, <1>2, <1>3, <2>2
    <3>2. cat[i] \in ToSet(cat)
      BY Entries
    <3> QED
      BY <2>2, <3>1, <3>2, VisitStep
  <2> HIDE DEF P
  <2> QED
    BY <1>0, <2>1, <2>2, Climb
<1>5. \A i \in 1..Len(cat) : g[i] = Visit(g[i-1], cat[i])
  <2> TAKE i \in 1..Len(cat)
  <2>1. i - 1 \in 0..Len(cat)
    BY <1>0
  <2>2. g[i-1] \in Assignments(cat)
    BY <1>4, <2>1
  <2> QED
    BY <1>2, <1>3, <2>2
<1>6. g = [i \in 0..Len(cat) |-> IF i = 0 THEN out ELSE Visit(g[i-1], cat[i])]
  <2>1. \A i \in 0..Len(cat) : g[i] = IF i = 0 THEN out ELSE Visit(g[i-1], cat[i])
    BY <1>0, <1>2, <1>5
  <2>2. g = [i \in 0..Len(cat) |-> g[i]]
    BY <1>1 DEF Iterates
  <2> QED
    BY <2>1, <2>2
<1> DEFINE A == CHOOSE A : IsRound(cat, out, A)
<1>7. IsRound(cat, out, A)
  BY <1>6 DEF IsRound
<1>8. Round(cat, out) = A[Len(cat)]
  BY DEF Round, IsRound
<1> HIDE DEF A
<1>9. \A i \in 0..Len(cat) : A[i] = IF i = 0 THEN out ELSE Visit(A[i-1], cat[i])
  BY <1>7 DEF IsRound
<1> DEFINE Q == {i \in 0..Len(cat) : A[i] \in Assignments(cat)}
<1>10. \A i \in 0..Len(cat) : i \in Q
  <2>1. 0 \in Q
    BY <1>0, <1>9
  <2>2. ASSUME NEW i \in 1..Len(cat), i - 1 \in Q PROVE i \in Q
    <3>1. A[i] = Visit(A[i-1], cat[i]) /\ cat[i] \in ToSet(cat)
      BY <1>0, <1>9, Entries
    <3> QED
      BY <2>2, <3>1, VisitStep
  <2> HIDE DEF Q
  <2> QED
    BY <1>0, <2>1, <2>2, Climb
<1> QED
  BY <1>0, <1>8, <1>9, <1>10

\* A round keeps the assignments and moves nobody; one that changes nothing has visited
\* every DTO in the assignment it began with.
LEMMA RoundStep ==
  ASSUME NEW cat \in Catalogs, NEW out \in Assignments(cat)
  PROVE  /\ Round(cat, out) \in Assignments(cat)
         /\ Grows(out, Round(cat, out))
         /\ Round(cat, out) = out => \A d \in ToSet(cat) : Visit(out, d) = out
<1>0. Len(cat) \in Nat
  BY Entries
<1>1. PICK A : /\ A[0] = out /\ A[Len(cat)] = Round(cat, out)
               /\ \A i \in 0..Len(cat) : A[i] \in Assignments(cat)
               /\ \A i \in 1..Len(cat) : A[i] = Visit(A[i-1], cat[i])
  BY RoundSteps
<1>2. \A i \in 0..Len(cat) : DOMAIN A[i] = Names(cat)
  BY <1>1 DEF Assignments
<1> DEFINE P == {j \in 0..Len(cat) : \A i \in 0..j : Grows(A[i], A[j])}
<1>3. \A j \in 0..Len(cat) : j \in P
  <2>1. 0 \in P
    BY <1>0 DEF Grows
  <2>2. ASSUME NEW j \in 1..Len(cat), j - 1 \in P PROVE j \in P
    <3>1. A[j] = Visit(A[j-1], cat[j]) /\ A[j-1] \in Assignments(cat) /\ cat[j] \in ToSet(cat)
      BY <1>0, <1>1, Entries
    <3>2. Grows(A[j-1], A[j])
      BY <3>1, VisitStep
    <3>3. ASSUME NEW i \in 0..j PROVE Grows(A[i], A[j])
      <4>1. CASE i = j
        BY <4>1 DEF Grows
      <4>2. CASE i # j
        <5>1. Grows(A[i], A[j-1])
          BY <2>2, <4>2
        <5>2. i \in 0..Len(cat) /\ j - 1 \in 0..Len(cat)
          BY <1>0
        <5> QED
          BY <1>2, <3>2, <5>1, <5>2 DEF Grows
      <4> QED
        BY <4>1, <4>2
    <3> QED
      BY <3>3
  <2> HIDE DEF P
  <2> QED
    BY <1>0, <2>1, <2>2, Climb
<1>4. Grows(out, Round(cat, out)) /\ Round(cat, out) \in Assignments(cat)
  BY <1>0, <1>1, <1>3
<1>5. ASSUME Round(cat, out) = out, NEW d \in ToSet(cat) PROVE Visit(out, d) = out
  <2>1. PICK i \in 1..Len(cat) : d = cat[i]
    BY Entries
  <2>2. ASSUME NEW j \in 0..Len(cat) PROVE A[j] = out
    <3>1. Grows(out, A[j])
      BY <1>0, <1>1, <1>3
    <3>2. Grows(A[j], out)
      <4>1. Len(cat) \in P /\ j \in 0..Len(cat)
        BY <1>0, <1>3
      <4> QED
        BY <1>1, <1>5, <4>1
    <3>3. A[j] \in [Names(cat) -> Places(cat)] /\ out \in [Names(cat) -> Places(cat)]
      BY <1>1 DEF Assignments
    <3>4. \A n \in Names(cat) : A[j][n] = out[n]
      BY <3>1, <3>2, <3>3 DEF Grows
    <3> QED
      BY <3>3, <3>4
  <2> QED
    BY <1>0, <1>1, <2>1, <2>2
<1> QED
  BY <1>4, <1>5

\* The rounds of assign follow one another, as many as there are entries.
LEMMA AssignSteps ==
  ASSUME NEW cat \in Catalogs
  PROVE  \E O : /\ O[0] = First(cat) /\ O[Len(cat)] = assign(cat)
                /\ \A n \in 0..Len(cat) : O[n] \in Assignments(cat)
                /\ \A n \in 1..Len(cat) : O[n] = Round(cat, O[n-1])
<1>0. Len(cat) \in Nat /\ First(cat) \in Assignments(cat)
  BY Entries, FirstSettles
<1>s. PICK step : step = [w \in (1..Len(cat)) \X Assignments(cat) |-> Round(cat, w[2])]
  OBVIOUS
<1>1. PICK g : Iterates(Len(cat), First(cat), step, g)
  BY <1>0, Recursion
<1>2. g[0] = First(cat) /\ \A n \in 1..Len(cat) : g[n] = step[<<n, g[n-1]>>]
  BY <1>0, <1>1 DEF Iterates
<1>3. \A n \in 1..Len(cat), o \in Assignments(cat) : step[<<n, o>>] = Round(cat, o)
  BY <1>s
<1> DEFINE P == {n \in 0..Len(cat) : g[n] \in Assignments(cat)}
<1>4. \A n \in 0..Len(cat) : n \in P
  <2>1. 0 \in P
    BY <1>0, <1>2
  <2>2. ASSUME NEW n \in 1..Len(cat), n - 1 \in P PROVE n \in P
    <3>1. g[n] = Round(cat, g[n-1])
      BY <1>0, <1>2, <1>3, <2>2
    <3> QED
      BY <2>2, <3>1, RoundStep
  <2> HIDE DEF P
  <2> QED
    BY <1>0, <2>1, <2>2, Climb
<1>5. \A n \in 1..Len(cat) : g[n] = Round(cat, g[n-1])
  <2> TAKE n \in 1..Len(cat)
  <2>1. n - 1 \in 0..Len(cat)
    BY <1>0
  <2>2. g[n-1] \in Assignments(cat)
    BY <1>4, <2>1
  <2> QED
    BY <1>2, <1>3, <2>2
<1>6. g = [n \in 0..Len(cat) |-> IF n = 0 THEN First(cat) ELSE Round(cat, g[n-1])]
  <2>1. \A n \in 0..Len(cat) : g[n] = IF n = 0 THEN First(cat) ELSE Round(cat, g[n-1])
    BY <1>0, <1>2, <1>5
  <2>2. g = [n \in 0..Len(cat) |-> g[n]]
    BY <1>1 DEF Iterates
  <2> QED
    BY <2>1, <2>2
<1> DEFINE O == CHOOSE O : IsAssign(cat, O)
<1>7. IsAssign(cat, O)
  BY <1>6 DEF IsAssign
<1>8. assign(cat) = O[Len(cat)]
  BY DEF assign, IsAssign
<1> HIDE DEF O
<1>9. \A n \in 0..Len(cat) : O[n] = IF n = 0 THEN First(cat) ELSE Round(cat, O[n-1])
  BY <1>7 DEF IsAssign
<1> DEFINE Q == {n \in 0..Len(cat) : O[n] \in Assignments(cat)}
<1>10. \A n \in 0..Len(cat) : n \in Q
  <2>1. 0 \in Q
    BY <1>0, <1>9
  <2>2. ASSUME NEW n \in 1..Len(cat), n - 1 \in Q PROVE n \in Q
    <3>1. O[n] = Round(cat, O[n-1])
      BY <1>0, <1>9
    <3> QED
      BY <2>2, <3>1, RoundStep
  <2> HIDE DEF Q
  <2> QED
    BY <1>0, <2>1, <2>2, Climb
<1> QED
  BY <1>0, <1>8, <1>9, <1>10

-----------------------------------------------------------------------------
(* Where the rounds lead.                                                  *)

\* What every assignment on the way has: the settled DTOs are where they belong, nobody
\* is placed who is not in use, and who has inherited shares with an owner.
Sound(cat, out) ==
  \A d \in ToSet(cat) :
    /\ Settled(d) # None => out[d.name] = Settled(d)
    /\ out[d.name] # None => d.name \in InUse[cat]
    /\ out[d.name] # None /\ Settled(d) = None =>
         \E u \in ToSet(d.owners) \cap Names(cat) : out[u] = out[d.name]

\* A set that has every DTO with a domain of its own and, with an owner, whoever inherits.
Closed(cat, S) ==
  /\ \A d \in ToSet(cat) : Settled(d) # None => d.name \in S
  /\ \A d \in ToSet(cat) :
       d.name \notin skipped /\ ToSet(d.owners) \cap S # {} => d.name \in S

\* InUse is the least such set.
LEMMA InUseIsLeast ==
  ASSUME NEW cat \in Catalogs
  PROVE  /\ InUse[cat] \subseteq Names(cat) /\ Closed(cat, InUse[cat])
         /\ \A S \in SUBSET Names(cat) : Closed(cat, S) => InUse[cat] \subseteq S
<1> DEFINE base   == {d.name : d \in {e \in ToSet(cat) : Settled(e) # None}}
           closed == {S \in SUBSET Names(cat) :
                        /\ base \subseteq S
                        /\ \A d \in ToSet(cat) :
                             d.name \notin skipped /\ ToSet(d.owners) \cap S # {} => d.name \in S}
<1>1. InUse[cat] = {n \in Names(cat) : \A S \in closed : n \in S}
  BY DEF InUse
<1>2. \A S \in SUBSET Names(cat) : S \in closed <=> Closed(cat, S)
  BY DEF Closed
<1> HIDE DEF base, closed
<1>3. closed \subseteq SUBSET Names(cat)
  BY DEF closed
<1>4. ASSUME NEW d \in ToSet(cat), Settled(d) # None PROVE d.name \in InUse[cat]
  BY <1>1, <1>2, <1>3, <1>4, FirstSettles DEF Closed
<1>5. ASSUME NEW d \in ToSet(cat), d.name \notin skipped,
             ToSet(d.owners) \cap InUse[cat] # {}
      PROVE  d.name \in InUse[cat]
  <2>1. PICK u \in ToSet(d.owners) : u \in InUse[cat]
    BY <1>5
  <2>2. ASSUME NEW S \in closed PROVE d.name \in S
    <3>1. u \in S /\ Closed(cat, S)
      BY <1>1, <1>2, <1>3, <2>1
    <3> QED
      BY <1>5, <3>1 DEF Closed
  <2> QED
    BY <1>1, <2>2, FirstSettles
<1> QED
  BY <1>1, <1>2, <1>4, <1>5 DEF Closed

\* The first assignment is sound.
LEMMA FirstSound ==
  ASSUME NEW cat \in Catalogs
  PROVE  Sound(cat, First(cat))
  BY FirstSettles, InUseIsLeast DEF Sound, Closed

\* A visit keeps an assignment sound.
LEMMA VisitSound ==
  ASSUME NEW cat \in Catalogs, NEW out \in Assignments(cat), NEW d \in ToSet(cat),
         Sound(cat, out)
  PROVE  Sound(cat, Visit(out, d))
<1> DEFINE new == Visit(out, d)
<1>1. DOMAIN out = Names(cat) /\ \A e \in ToSet(cat) : e.name \in Names(cat)
  BY FirstSettles DEF Assignments
<1>2. /\ new \in Assignments(cat) /\ Grows(out, new)
      /\ \A n \in Names(cat) : out[n] = None /\ new[n] # None =>
           /\ n = d.name /\ n \notin skipped
           /\ \E u \in ToSet(d.owners) \cap Names(cat) : out[u] # None /\ new[n] = out[u]
  BY VisitStep
<1> HIDE DEF new
<1>3. SUFFICES ASSUME NEW e \in ToSet(cat)
               PROVE  /\ Settled(e) # None => new[e.name] = Settled(e)
                      /\ new[e.name] # None => e.name \in InUse[cat]
                      /\ new[e.name] # None /\ Settled(e) = None =>
                           \E u \in ToSet(e.owners) \cap Names(cat) : new[u] = new[e.name]
  BY DEF Sound, new
<1>4. CASE out[e.name] # None
  <2>1. new[e.name] = out[e.name]
    BY <1>1, <1>2, <1>4 DEF Grows
  <2>2. Settled(e) # None => out[e.name] = Settled(e)
    BY DEF Sound
  <2>3. e.name \in InUse[cat]
    BY <1>4 DEF Sound
  <2>4. Settled(e) = None =>
          \E u \in ToSet(e.owners) \cap Names(cat) : new[u] = new[e.name]
    <3> SUFFICES ASSUME Settled(e) = None
                 PROVE  \E u \in ToSet(e.owners) \cap Names(cat) : new[u] = new[e.name]
      OBVIOUS
    <3>1. PICK u \in ToSet(e.owners) \cap Names(cat) : out[u] = out[e.name]
      BY <1>4 DEF Sound
    <3>2. new[u] = out[u]
      BY <1>1, <1>2, <1>4, <3>1 DEF Grows
    <3> QED
      BY <2>1, <3>1, <3>2
  <2> QED
    BY <2>1, <2>2, <2>3, <2>4
<1>5. CASE out[e.name] = None /\ new[e.name] # None
  <2>1. e.name = d.name /\ e.name \notin skipped
    BY <1>1, <1>2, <1>5
  <2>2. PICK u \in ToSet(d.owners) \cap Names(cat) : out[u] # None /\ new[e.name] = out[u]
    BY <1>1, <1>2, <1>5
  <2>3. e = d
    <3>1. PICK i \in 1..Len(cat), j \in 1..Len(cat) : e = cat[i] /\ d = cat[j]
      BY Entries
    <3> QED
      BY <2>1, <3>1, Entries, CatalogAssumption
  <2>4. new[u] = out[u]
    BY <1>1, <1>2, <2>2 DEF Grows
  <2>5. u \in InUse[cat]
    <3>1. PICK v \in ToSet(cat) : v.name = u
      BY <2>2, Entries
    <3> QED
      BY <2>2, <3>1 DEF Sound
  <2>6. e.name \in InUse[cat]
    BY <2>1, <2>2, <2>3, <2>5, InUseIsLeast DEF Closed
  <2>7. Settled(e) = None
    BY <1>5 DEF Sound
  <2> QED
    BY <2>2, <2>3, <2>4, <2>6, <2>7
<1>6. CASE new[e.name] = None
  <2>1. out[e.name] = None
    BY <1>1, <1>2, <1>6 DEF Grows
  <2>2. Settled(e) = None
    BY <2>1 DEF Sound
  <2> QED
    BY <1>6, <2>2
<1> QED
  BY <1>4, <1>5, <1>6

\* So does a round.
LEMMA RoundSound ==
  ASSUME NEW cat \in Catalogs, NEW out \in Assignments(cat), Sound(cat, out)
  PROVE  Sound(cat, Round(cat, out))
<1>0. Len(cat) \in Nat
  BY Entries
<1>1. PICK A : /\ A[0] = out /\ A[Len(cat)] = Round(cat, out)
               /\ \A i \in 0..Len(cat) : A[i] \in Assignments(cat)
               /\ \A i \in 1..Len(cat) : A[i] = Visit(A[i-1], cat[i])
  BY RoundSteps
<1> DEFINE P == {i \in 0..Len(cat) : Sound(cat, A[i])}
<1>2. 0 \in P
  BY <1>0, <1>1
<1>3. ASSUME NEW i \in 1..Len(cat), i - 1 \in P PROVE i \in P
  <2>1. A[i] = Visit(A[i-1], cat[i]) /\ A[i-1] \in Assignments(cat) /\ cat[i] \in ToSet(cat)
    BY <1>0, <1>1, Entries
  <2>2. Sound(cat, A[i])
    BY <1>3, <2>1, VisitSound
  <2> QED
    BY <2>2
<1> HIDE DEF P
<1>4. \A i \in 0..Len(cat) : i \in P
  BY <1>0, <1>2, <1>3, Climb
<1>5. Len(cat) \in P
  BY <1>0, <1>4
<1> QED
  BY <1>1, <1>5 DEF P

\* An assignment that a round leaves alone has placed whoever could inherit.
LEMMA StuckIsClosed ==
  ASSUME NEW cat \in Catalogs, NEW out \in Assignments(cat), Sound(cat, out),
         Round(cat, out) = out
  PROVE  Closed(cat, Placed(out))
<1>1. DOMAIN out = Names(cat)
  BY DEF Assignments
<1>2. ASSUME NEW d \in ToSet(cat), Settled(d) # None PROVE d.name \in Placed(out)
  BY <1>1, <1>2, FirstSettles DEF Sound, Placed
<1>3. ASSUME NEW d \in ToSet(cat), d.name \notin skipped, ToSet(d.owners) \cap Placed(out) # {}
      PROVE  d.name \in Placed(out)
  <2>1. Visit(out, d) = out
    BY RoundStep
  <2>2. PICK u \in ToSet(d.owners) : u \in Names(cat) /\ out[u] # None
    BY <1>1, <1>3 DEF Placed
  <2>3. out[d.name] # None
    BY <1>3, <2>1, <2>2, VisitStep
  <2> QED
    BY <1>1, <2>3, FirstSettles DEF Placed
<1> QED
  BY <1>2, <1>3 DEF Closed

\* There are no more names than entries.
LEMMA NamesCounted ==
  ASSUME NEW cat \in Catalogs
  PROVE  /\ IsFiniteSet(Names(cat)) /\ Cardinality(Names(cat)) \in Nat
         /\ Cardinality(Names(cat)) <= Len(cat)
<1>1. Len(cat) \in Nat /\ Names(cat) = {cat[i].name : i \in 1..Len(cat)}
  BY Entries
<1> DEFINE f == [i \in 1..Len(cat) |-> cat[i].name]
<1>2. f \in Surjection(1..Len(cat), Names(cat))
  <2>1. f \in [1..Len(cat) -> Names(cat)]
    BY <1>1
  <2>2. \A n \in Names(cat) : \E i \in 1..Len(cat) : f[i] = n
    BY <1>1
  <2> HIDE DEF f
  <2> QED
    BY <2>1, <2>2 DEF Surjection
<1>3. IsFiniteSet(1..Len(cat)) /\ Cardinality(1..Len(cat)) = Len(cat)
  BY <1>1, FS_Interval
<1>4. IsFiniteSet(Names(cat)) /\ Cardinality(Names(cat)) <= Cardinality(1..Len(cat))
  BY <1>2, <1>3, FS_Surjection
<1> QED
  BY <1>3, <1>4, FS_CardinalityType

\* As many rounds as entries are enough: every round before the last that changes
\* anything places a DTO more.
LEMMA AssignCloses ==
  ASSUME NEW cat \in Catalogs
  PROVE  /\ assign(cat) \in Assignments(cat) /\ Sound(cat, assign(cat))
         /\ Closed(cat, Placed(assign(cat)))
<1>0. Len(cat) \in Nat
  BY Entries
<1>1. PICK O : /\ O[0] = First(cat) /\ O[Len(cat)] = assign(cat)
               /\ \A n \in 0..Len(cat) : O[n] \in Assignments(cat)
               /\ \A n \in 1..Len(cat) : O[n] = Round(cat, O[n-1])
  BY AssignSteps
<1> DEFINE Size(n) == Cardinality(Placed(O[n]))
<1>2. ASSUME NEW n \in 0..Len(cat)
      PROVE  /\ Placed(O[n]) \subseteq Names(cat) /\ IsFiniteSet(Placed(O[n]))
             /\ Size(n) \in Nat
  <2>1. Placed(O[n]) \subseteq Names(cat)
    BY <1>1 DEF Placed, Assignments
  <2>2. IsFiniteSet(Placed(O[n]))
    BY <2>1, NamesCounted, FS_Subset
  <2> QED
    BY <2>1, <2>2, FS_CardinalityType
<1> DEFINE P == {n \in 0..Len(cat) : /\ Sound(cat, O[n])
                                     /\ Round(cat, O[n]) = O[n] \/ n <= Size(n)}
<1>3. 0 \in P
  BY <1>0, <1>1, <1>2, FirstSound
<1>4. ASSUME NEW n \in 1..Len(cat), n - 1 \in P PROVE n \in P
  <2>1. /\ n - 1 \in 0..Len(cat) /\ n \in 0..Len(cat)
        /\ O[n-1] \in Assignments(cat) /\ O[n] \in Assignments(cat)
        /\ O[n] = Round(cat, O[n-1]) /\ Sound(cat, O[n-1])
    BY <1>0, <1>1, <1>4
  <2>2. Sound(cat, O[n])
    BY <2>1, RoundSound
  <2>3. CASE O[n] = O[n-1]
    <3>1. Round(cat, O[n]) = O[n]
      BY <2>1, <2>3
    <3> QED
      BY <2>1, <2>2, <3>1
  <2>4. CASE O[n] # O[n-1]
    <3>1. n - 1 <= Size(n - 1)
      BY <1>4, <2>1, <2>4
    <3>2. Grows(O[n-1], O[n])
      BY <2>1, RoundStep
    <3>3. O[n-1] \in [Names(cat) -> Places(cat)] /\ O[n] \in [Names(cat) -> Places(cat)]
      BY <2>1 DEF Assignments
    <3>4. PICK m \in Names(cat) : O[n][m] # O[n-1][m]
      BY <2>4, <3>3
    <3>5. Placed(O[n-1]) \subseteq Placed(O[n])
      BY <3>2, <3>3 DEF Grows, Placed
    <3>6. m \in Placed(O[n]) /\ m \notin Placed(O[n-1])
      BY <3>2, <3>3, <3>4 DEF Grows, Placed
    <3>7. IsFiniteSet(Placed(O[n])) /\ Size(n) \in Nat /\ Size(n - 1) \in Nat
      BY <1>2, <2>1
    <3>8. Size(n - 1) <= Size(n) /\ Size(n - 1) # Size(n)
      BY <3>5, <3>6, <3>7, FS_Subset
    <3>9. n <= Size(n)
      BY <3>1, <3>7, <3>8
    <3> QED
      BY <2>1, <2>2, <3>9
  <2> QED
    BY <2>3, <2>4
<1> HIDE DEF P
<1>5. \A n \in 0..Len(cat) : n \in P
  BY <1>0, <1>3, <1>4, Climb
<1>6. Len(cat) \in P /\ Len(cat) \in 0..Len(cat)
  BY <1>0, <1>5
<1>7. assign(cat) \in Assignments(cat) /\ Sound(cat, assign(cat))
  BY <1>1, <1>6 DEF P
<1>8. CASE Round(cat, assign(cat)) = assign(cat)
  BY <1>7, <1>8, StuckIsClosed
<1>9. CASE Round(cat, assign(cat)) # assign(cat)
  <2>1. Len(cat) <= Cardinality(Placed(assign(cat)))
    BY <1>1, <1>6, <1>9 DEF P
  <2>2. /\ Placed(assign(cat)) \subseteq Names(cat)
        /\ Cardinality(Placed(assign(cat))) \in Nat
    BY <1>1, <1>2, <1>6
  <2>3. Cardinality(Placed(assign(cat))) <= Cardinality(Names(cat))
    BY <2>2, NamesCounted, FS_Subset
  <2>4. Cardinality(Placed(assign(cat))) = Cardinality(Names(cat))
    BY <1>0, <2>1, <2>2, <2>3, NamesCounted
  <2>5. Placed(assign(cat)) = Names(cat)
    BY <2>2, <2>4, NamesCounted, FS_Subset
  <2> QED
    BY <1>7, <2>5, FirstSettles DEF Closed
<1> QED
  BY <1>7, <1>8, <1>9

\* assign finds a domain for exactly the DTOs in use, in whatever order the catalog
\* lists them.
LEMMA AssignFindsInUse ==
  ASSUME NEW cat \in Catalogs
  PROVE  \A d \in ToSet(cat) : d.name \in InUse[cat] <=> assign(cat)[d.name] # None
<1> SUFFICES ASSUME NEW d \in ToSet(cat)
             PROVE  d.name \in InUse[cat] <=> assign(cat)[d.name] # None
  OBVIOUS
<1>1. /\ assign(cat) \in Assignments(cat) /\ Sound(cat, assign(cat))
      /\ Closed(cat, Placed(assign(cat)))
  BY AssignCloses
<1>2. assign(cat)[d.name] # None => d.name \in InUse[cat]
  BY <1>1 DEF Sound
<1>3. Placed(assign(cat)) \in SUBSET Names(cat)
  BY <1>1 DEF Placed, Assignments
<1>4. InUse[cat] \subseteq Placed(assign(cat))
  BY <1>1, <1>3, InUseIsLeast
<1> QED
  BY <1>2, <1>4 DEF Placed

-----------------------------------------------------------------------------
(* What a run renders.                                                     *)

\* What a package is to hold.
LEMMA Generated ==
  ASSUME NEW cat \in Catalogs, NEW written \in SUBSET ByHand
  PROVE  LET want == generate[cat][written]
         IN  /\ DOMAIN want \subseteq Packages
             /\ \A dom \in DOMAIN want : want[dom] = render(emit(cat, written, dom))
<1>1. generate[cat][written] = [dom \in {p \in Packages : emit(cat, written, p) # {}} |->
                                  render(emit(cat, written, dom))]
  BY DEF generate
<1> QED
  BY <1>1

\* A DTO that is no shared leaf is declared in the package it is assigned to, unless
\* somebody has written it there, and nowhere else.
LEMMA DeclaredAtHome ==
  ASSUME NEW cat \in Catalogs, NEW written \in SUBSET ByHand, NEW dom,
         NEW d \in ToSet(cat), d.name \notin duplicated
  PROVE  (\E t \in render(emit(cat, written, dom)) : t.name = d.name) <=>
             assign(cat)[d.name] = dom /\ <<dom, d.name>> \notin written
<1>1. ASSUME NEW t \in render(emit(cat, written, dom)), t.name = d.name
      PROVE  assign(cat)[d.name] = dom /\ <<dom, d.name>> \notin written
  <2>1. PICK e \in emit(cat, written, dom) : t.name = e.name
    BY DEF render
  <2>2. e \in Owned(cat, dom) /\ <<dom, e.name>> \notin written
    BY <1>1, <2>1 DEF emit, Leaves
  <2> QED
    BY <1>1, <2>1, <2>2 DEF Owned, Assigned
<1>2. ASSUME assign(cat)[d.name] = dom, <<dom, d.name>> \notin written
      PROVE  \E t \in render(emit(cat, written, dom)) : t.name = d.name
  <2>1. d \in emit(cat, written, dom)
    BY <1>2 DEF emit, Owned, Assigned
  <2>2. PICK t \in render(emit(cat, written, dom)) :
            t = [name |-> d.name,
                 of   |-> [n \in d.of |-> goType(n, {e.name : e \in emit(cat, written, dom)})],
                 maps |-> [n \in d.maps |-> goType(n, {e.name : e \in emit(cat, written, dom)})]]
    BY <2>1 DEF render
  <2> QED
    BY <2>2
<1> QED
  BY <1>1, <1>2

\* A reference in what is rendered keeps its type, but for the reasons there are.
LEMMA ReferencesKept ==
  ASSUME NEW cat \in Catalogs, NEW written \in SUBSET ByHand, NEW dom,
         NEW t \in render(emit(cat, written, dom)), NEW n \in DOMAIN t.of
  PROVE  \/ t.of[n] = n
         \/ <<dom, n>> \in written
         \/ n \notin duplicated /\ ~(n \in Names(cat) /\ assign(cat)[n] = dom)
         \/ n \notin Names(cat)
<1> DEFINE known == {d.name : d \in emit(cat, written, dom)}
<1>1. PICK d \in emit(cat, written, dom) :
          t = [name |-> d.name, of   |-> [m \in d.of |-> goType(m, known)],
                                maps |-> [m \in d.maps |-> goType(m, known)]]
  BY DEF render
<1>2. n \in d.of /\ t.of[n] = goType(n, known)
  BY <1>1
<1> SUFFICES ASSUME n \notin known, <<dom, n>> \notin written, n \in Names(cat),
                    n \in duplicated \/ assign(cat)[n] = dom
             PROVE  FALSE
  BY <1>2 DEF goType
<1>3. PICK e \in ToSet(cat) : e.name = n
  BY Entries
<1>4. e \notin Owned(cat, dom) \cup Leaves(cat, dom)
  BY <1>3 DEF emit
<1>5. assign(cat)[n] # dom
  BY <1>3, <1>4 DEF Owned, Assigned
<1>6. n \in duplicated /\ \A f \in Owned(cat, dom) : n \notin f.of
  BY <1>3, <1>4, <1>5 DEF Leaves
<1>7. d \in Leaves(cat, dom)
  BY <1>2, <1>6 DEF emit
<1>8. d.of \cap duplicated = {}
  <2>1. d \in ToSet(cat) /\ d.name \in duplicated
    BY <1>7 DEF Leaves
  <2>2. PICK i \in 1..Len(cat) : d = cat[i]
    BY <2>1, Entries
  <2> QED
    BY <2>1, <2>2, Entries, CatalogAssumption
<1> QED
  BY <1>2, <1>6, <1>8

\* So does the reference of a map, if the DTO lives in the package.
LEMMA MapReferencesKept ==
  ASSUME NEW cat \in Catalogs, NEW written \in SUBSET ByHand, NEW dom,
         NEW t \in render(emit(cat, written, dom)), NEW n \in DOMAIN t.maps
  PROVE  \/ t.maps[n] = n
         \/ <<dom, n>> \in written
         \/ ~(n \in Names(cat) /\ assign(cat)[n] = dom)
<1> DEFINE known == {d.name : d \in emit(cat, written, dom)}
<1>1. PICK d \in emit(cat, written, dom) :
          t = [name |-> d.name, of   |-> [m \in d.of |-> goType(m, known)],
                                maps |-> [m \in d.maps |-> goType(m, known)]]
  BY DEF render
<1>2. t.maps[n] = goType(n, known)
  BY <1>1
<1> SUFFICES ASSUME n \notin known, <<dom, n>> \notin written, n \in Names(cat),
                    assign(cat)[n] = dom
             PROVE  FALSE
  BY <1>2 DEF goType
<1>3. PICK e \in ToSet(cat) : e.name = n
  BY Entries
<1>4. e \notin Owned(cat, dom)
  BY <1>3 DEF emit
<1> QED
  BY <1>3, <1>4 DEF Owned, Assigned

-----------------------------------------------------------------------------
(* The files of a run.                                                     *)

\* The invariant holds of the first state and every step keeps it.
LEMMA InitRunInv == Init => RunInv
<1> SUFFICES ASSUME Init PROVE RunInv
  OBVIOUS
<1>1. made.catalog = catalog /\ made.hand = {}
  BY DEF Init
<1>2. DOMAIN disk = Packages
  BY DEF Init
<1> QED
  BY <1>1, <1>2 DEF Init, RunInv

\* Every step keeps it.
LEMMA NextRunInv == RunInv /\ [Next]_vars => RunInv'
<1> SUFFICES ASSUME RunInv, [Next]_vars PROVE RunInv'
  OBVIOUS
<1> USE DEF RunInv, Written
<1>1. CASE EditCatalog
  BY <1>1 DEF EditCatalog
<1>2. CASE Start
  <2>1. /\ made'.catalog = catalog /\ made'.hand = hand
        /\ todo' = DOMAIN generate[made'.catalog][made'.hand]
    BY <1>2 DEF Start
  <2>2. CASE todo' = {}
    BY <1>2, <2>1, <2>2 DEF Start
  <2>3. CASE todo' # {}
    BY <1>2, <2>1, <2>3 DEF Start
  <2> QED
    BY <2>2, <2>3
<1>3. CASE Killed
  <2>1. /\ UNCHANGED <<catalog, hand, made, result>> /\ todo' = {} /\ phase' = "idle"
        /\ result = "none" /\ DOMAIN disk' = Packages
    BY <1>3 DEF Killed
  <2> QED
    BY <2>1
<1>4. CASE TestGeneratedFilesMatchTheCatalog
  BY <1>4 DEF TestGeneratedFilesMatchTheCatalog
<1>5. ASSUME NEW type \in ByHand, WriteByHand(type) PROVE RunInv'
  <2>1. hand' \subseteq ByHand
    BY <1>5 DEF WriteByHand
  <2> QED
    BY <1>5, <2>1 DEF WriteByHand
<1>6. ASSUME NEW dom \in Packages, EditGenerated(dom) PROVE RunInv'
  <2>1. /\ UNCHANGED <<catalog, hand, made, todo, phase>> /\ phase = "idle"
        /\ result' = "none" /\ DOMAIN disk' = Packages
    BY <1>6 DEF EditGenerated
  <2> QED
    BY <2>1
<1>7. ASSUME NEW dom \in Packages, WriteFile(dom) PROVE RunInv'
  <2>1. /\ dom \in todo /\ phase = "write" /\ result = "none"
        /\ UNCHANGED <<catalog, hand, made>> /\ todo' = todo \ {dom}
        /\ disk' = [disk EXCEPT ![dom] = generate[made.catalog][made.hand][dom]]
    BY <1>7 DEF WriteFile
  <2>2. /\ DOMAIN disk' = Packages
        /\ disk'[dom] = generate[made.catalog][made.hand][dom]
        /\ \A p \in Packages : p # dom => disk'[p] = disk[p]
    BY <2>1
  <2>3. DOMAIN generate[made.catalog][made.hand] \subseteq Packages
    BY Generated
  <2>4. \A p \in DOMAIN generate[made.catalog][made.hand] \ todo' :
          disk'[p] = generate[made.catalog][made.hand][p]
    BY <2>1, <2>2, <2>3
  <2>5. CASE todo = {dom}
    BY <1>7, <2>1, <2>2, <2>4, <2>5 DEF WriteFile
  <2>6. CASE todo # {dom}
    BY <1>7, <2>1, <2>2, <2>4, <2>6 DEF WriteFile
  <2> QED
    BY <2>5, <2>6
<1>8. CASE UNCHANGED vars
  BY <1>8 DEF vars
<1> QED
  BY <1>1, <1>2, <1>3, <1>4, <1>5, <1>6, <1>7, <1>8 DEF Next

\* A run that says it has come to its end has left every file it rendered as rendered,
\* whatever was killed, edited or changed before and since.
THEOREM RunsComplete == Spec => []RunInv
  BY InitRunInv, NextRunInv, PTL DEF Spec

\* Every DTO in use is declared once, and the generator and a person do not both declare
\* it: for every catalog, in whatever order it lists its DTOs, and every set of packages.
THEOREM DtosDeclaredOnce == Spec => []EveryDtoOnce
<1>1. ASSUME RunInv PROVE EveryDtoOnce
  <2> SUFFICES ASSUME result = "ok",
                      NEW d \in ToSet(made.catalog), d.name \notin duplicated
               PROVE  /\ d.name \in InUse[made.catalog] <=> Home(d.name) # None
                      /\ Settled(d) = None /\ Home(d.name) # None =>
                           \E u \in ToSet(d.owners) \cap Names(made.catalog) : Home(u) = Home(d.name)
                      /\ \A dom \in DOMAIN generate[made.catalog][made.hand] :
                           Declares(dom, d.name) <=>
                             Home(d.name) = dom /\ <<dom, d.name>> \notin made.hand
    BY DEF EveryDtoOnce
  <2>1. /\ made.catalog \in Catalogs /\ made.hand \in SUBSET ByHand
        /\ Written(DOMAIN generate[made.catalog][made.hand])
    BY <1>1 DEF RunInv
  <2>2. \A n : Home(n) = assign(made.catalog)[n]
    BY <2>1 DEF Home, Assigned
  <2>3. d.name \in InUse[made.catalog] <=> Home(d.name) # None
    BY <2>1, <2>2, AssignFindsInUse
  <2>4. Settled(d) = None /\ Home(d.name) # None =>
          \E u \in ToSet(d.owners) \cap Names(made.catalog) : Home(u) = Home(d.name)
    BY <2>1, <2>2, AssignCloses DEF Sound
  <2>5. ASSUME NEW dom \in DOMAIN generate[made.catalog][made.hand]
        PROVE  Declares(dom, d.name) <=>
                 Home(d.name) = dom /\ <<dom, d.name>> \notin made.hand
    <3>1. disk[dom] = render(emit(made.catalog, made.hand, dom))
      BY <2>1, Generated DEF Written
    <3>2. (\E t \in render(emit(made.catalog, made.hand, dom)) : t.name = d.name) <=>
              assign(made.catalog)[d.name] = dom /\ <<dom, d.name>> \notin made.hand
      BY <2>1, DeclaredAtHome
    <3> QED
      BY <2>2, <3>1, <3>2 DEF Declares
  <2> QED
    BY <2>3, <2>4, <2>5
<1> QED
  BY <1>1, RunsComplete, PTL

\* A reference loses its type only to a DTO of another package or of none, or to one
\* written by hand: the shared leaves keep theirs wherever a field nests them.
THEOREM ReferencesKeepTypes == Spec => []NoReferenceLost
<1>1. ASSUME RunInv PROVE NoReferenceLost
  <2> SUFFICES ASSUME NEW dom \in DOMAIN generate[made.catalog][made.hand],
                      NEW t \in disk[dom], result = "ok"
               PROVE  /\ \A n \in DOMAIN t.of :
                           \/ t.of[n] = n
                           \/ <<dom, n>> \in made.hand
                           \/ n \notin duplicated /\ ~Lives(dom, n)
                           \/ n \notin Names(made.catalog)
                      /\ \A n \in DOMAIN t.maps :
                           \/ t.maps[n] = n
                           \/ <<dom, n>> \in made.hand
                           \/ ~Lives(dom, n)
    BY DEF NoReferenceLost
  <2>1. /\ made.catalog \in Catalogs /\ made.hand \in SUBSET ByHand
        /\ Written(DOMAIN generate[made.catalog][made.hand])
    BY <1>1 DEF RunInv
  <2>2. \A n : Lives(dom, n) <=> n \in Names(made.catalog) /\ assign(made.catalog)[n] = dom
    BY <2>1 DEF Lives, Home, Assigned
  <2>3. t \in render(emit(made.catalog, made.hand, dom))
    BY <2>1, Generated DEF Written
  <2>4. ASSUME NEW n \in DOMAIN t.of
        PROVE  \/ t.of[n] = n
               \/ <<dom, n>> \in made.hand
               \/ n \notin duplicated /\ ~Lives(dom, n)
               \/ n \notin Names(made.catalog)
    BY <2>1, <2>2, <2>3, ReferencesKept
  <2>5. ASSUME NEW n \in DOMAIN t.maps
        PROVE  \/ t.maps[n] = n
               \/ <<dom, n>> \in made.hand
               \/ ~Lives(dom, n)
    BY <2>1, <2>2, <2>3, MapReferencesKept
  <2> QED
    BY <2>4, <2>5
<1> QED
  BY <1>1, RunsComplete, PTL
=============================================================================
