-------------------------- MODULE RevisionSyncProofs --------------------------
(***************************************************************************)
(* What RevisionSync promises for every set of items and any number of       *)
(* changes: the journal comes in exactly, and the copy of the entities is a   *)
(* state the server was in.  JournalKept and MirrorKept are proved apart; in  *)
(* any behaviour only one of them says anything, for the feed is fixed.      *)
(***************************************************************************)
EXTENDS RevisionSync, SequenceTheorems, WellFoundedInduction, TLAPS

USE DEF Everything, NoRevision, Revisions

-----------------------------------------------------------------------------
(* Feeds and revisions.                                                     *)

\* The journal always names its revision; a list of entities may, or nobody sees it.
LEMMA FeedShape ==
    ASSUME NEW f \in Feeds
    PROVE  /\ f.journal \in BOOLEAN
           /\ f.revision \in {"always", "optional", "dropped"}
           /\ f.journal <=> f.revision = "always"
<1>1. f = ListEventsSince \/ f = Entities("optional") \/ f = Entities("dropped")
  BY DEF Feeds, ListPrices, ListMenuChanges, ListPriceCategories, ListPeriodSchedules,
         QueryProducts, ProductsXML, TreeFilter, QueryQuickMenus, ListReferenceEntities,
         EntityIDs, ExportIncomingInvoices, ShiftFilter, Roles, ListOrders, EgaisMarks,
         ChartsGetAll
<1>2. CASE f = ListEventsSince
  BY <1>2 DEF ListEventsSince
<1>3. ASSUME NEW rev \in {"optional", "dropped"}, f = Entities(rev)
      PROVE  f.journal = FALSE /\ f.revision = rev
  BY <1>3 DEF Entities
<1> QED
  BY <1>1, <1>2, <1>3

\* A set of numbers up to n that is not empty has a greatest member.
LEMMA Greatest ==
    ASSUME NEW n \in Nat, NEW S \in SUBSET (1 .. n), S # {}
    PROVE  \E m \in S : \A l \in S : l <= m
<1> DEFINE T == {n - k : k \in S}
<1>1. T \in SUBSET Nat /\ T # {}
  <2>1. \A k \in S : n - k \in Nat
    OBVIOUS
  <2> QED
    BY <2>1
<1>2. PICK t \in T : \A u \in T : ~(<<u, t>> \in OpToRel(<, Nat))
  BY <1>1, NatLessThanWellFounded, WFMin
<1>3. PICK m \in S : t = n - m
  OBVIOUS
<1>4. ASSUME NEW l \in S
      PROVE  l <= m
  <2>1. n - l \in T /\ n - l \in Nat /\ t \in Nat
    BY <1>1
  <2>2. ~(n - l < t)
    BY <1>2, <2>1 DEF OpToRel
  <2> QED
    BY <1>3, <2>2
<1> QED
  BY <1>4

\* A state names, for each entity, the revision it was last changed in.
LEMMA StateType ==
    ASSUME NEW r \in 0 .. Len(history), Len(history) \in Nat
    PROVE  StateAt(r) \in [Items -> 0 .. r]
<1> SUFFICES ASSUME NEW i \in Items PROVE StateAt(r)[i] \in 0 .. r
  BY DEF StateAt
<1> DEFINE changes == {k \in 1 .. r : history[k].item = i}
           last    == CHOOSE k \in changes : \A l \in changes : l <= k
<1>1. r \in Nat /\ changes \in SUBSET (1 .. r)
  OBVIOUS
<1>3. changes # {} => last \in changes
  <2> HIDE DEF changes
  <2> QED
    BY <1>1, Greatest
<1>2. StateAt(r)[i] = IF changes = {} \/ history[last].gone THEN 0 ELSE last
  BY DEF StateAt
<1> QED
  BY <1>2, <1>3

\* An entity nobody changes keeps its revision.
LEMMA Untouched ==
    ASSUME NEW r \in Nat, NEW s \in Nat, r <= s, NEW i \in Items,
           \A k \in 1 .. s : k > r => history[k].item # i
    PROVE  StateAt(s)[i] = StateAt(r)[i]
<1> DEFINE changes(n) == {k \in 1 .. n : history[k].item = i}
           last(n)    == CHOOSE k \in changes(n) : \A l \in changes(n) : l <= k
<1>1. changes(s) = changes(r)
  OBVIOUS
<1>2. ASSUME NEW n \in Nat
      PROVE  StateAt(n)[i] = IF changes(n) = {} \/ history[last(n)].gone THEN 0 ELSE last(n)
  BY DEF StateAt
<1> QED
  BY <1>1, <1>2

\* A state is read off the history alone.
LEMMA SameState ==
    ASSUME history' = history
    PROVE  \A n : StateAt(n)' = StateAt(n)
<1> SUFFICES ASSUME NEW n PROVE StateAt(n)' = StateAt(n)
  OBVIOUS
<1> DEFINE changes(i) == {k \in 1 .. n : history[k].item = i}
           last(i)    == CHOOSE k \in changes(i) : \A l \in changes(i) : l <= k
           now(i)     == {k \in 1 .. n : history'[k].item = i}
           newest(i)  == CHOOSE k \in now(i) : \A l \in now(i) : l <= k
<1>1. \A i : now(i) = changes(i) /\ newest(i) = last(i)
  OBVIOUS
<1>2. /\ StateAt(n) = [i \in Items |-> IF changes(i) = {} \/ history[last(i)].gone
                                       THEN 0 ELSE last(i)]
      /\ StateAt(n)' = [i \in Items |-> IF now(i) = {} \/ history'[newest(i)].gone
                                        THEN 0 ELSE newest(i)]
  BY DEF StateAt
<1> HIDE DEF changes, last, now, newest
<1> QED
  BY <1>1, <1>2

\* What has happened stays as it was when something else happens.
LEMMA PastKept ==
    ASSUME NEW change, history \in Seq(Change), change \in Change,
           history' = Append(history, change),
           NEW r \in 0 .. Len(history)
    PROVE  /\ StateAt(r)' = StateAt(r)
           /\ Len(history') = Len(history) + 1
           /\ \A k \in 1 .. r : history'[k] = history[k]
<1>1. /\ Len(history') = Len(history) + 1
      /\ \A k \in 1 .. r : history'[k] = history[k]
  OBVIOUS
<1>2. ASSUME NEW i \in Items
      PROVE  StateAt(r)'[i] = StateAt(r)[i]
  <2> DEFINE changes == {k \in 1 .. r : history[k].item = i}
             last    == CHOOSE k \in changes : \A l \in changes : l <= k
             now     == {k \in 1 .. r : history'[k].item = i}
             newest  == CHOOSE k \in now : \A l \in now : l <= k
  <2>1. now = changes
    BY <1>1
  <2>0. r \in Nat /\ changes \in SUBSET (1 .. r)
    OBVIOUS
  <2>2. changes # {} => last \in 1 .. r
    <3> HIDE DEF changes
    <3> QED
      BY <2>0, Greatest
  <2>3. StateAt(r)[i] = IF changes = {} \/ history[last].gone THEN 0 ELSE last
    BY DEF StateAt
  <2>4. StateAt(r)'[i] = IF now = {} \/ history'[newest].gone THEN 0 ELSE newest
    BY DEF StateAt
  <2> QED
    BY <1>1, <2>1, <2>2, <2>3, <2>4
<1> QED
  BY <1>1, <1>2 DEF StateAt

-----------------------------------------------------------------------------
(* Dedup.  Its recursion is unfolded, and its result described, by the least *)
(* length for which that would fail.                                        *)

\* One round of the loop of Dedup.
Kept(in, k, out) ==
    IF in[k] # NoID /\ Contains(out, in[k]) THEN out ELSE Append(out, in[k])

\* f[k] is what Dedup has kept of the first k ids.
Runs(in, n, f) == f = [k \in 0 .. n |-> IF k = 0 THEN <<>> ELSE Kept(in, k, f[k - 1])]

\* A property that fails for some number fails for a least one.
LEMMA LeastFailure ==
    ASSUME NEW T \in SUBSET Nat, T # {}
    PROVE  \E m \in T : \A n \in T : m <= n
<1>1. PICK m \in T : \A n \in T : ~(<<n, m>> \in OpToRel(<, Nat))
  BY NatLessThanWellFounded, WFMin
<1>2. \A n \in T : ~(n < m)
  BY <1>1 DEF OpToRel
<1> QED
  BY <1>2

\* The loop runs to the end of every list.
LEMMA RunExists == \A in : \A n \in Nat : \E f : Runs(in, n, f)
<1> SUFFICES ASSUME NEW in, NEW n0 \in Nat, ~(\E f : Runs(in, n0, f)) PROVE FALSE
  OBVIOUS
<1> DEFINE T == {n \in Nat : ~(\E f : Runs(in, n, f))}
<1>1. PICK m \in T : \A n \in T : m <= n
  <2>1. T \in SUBSET Nat /\ n0 \in T
    OBVIOUS
  <2> HIDE DEF T
  <2> QED
    BY <2>1, LeastFailure
<1>2. CASE m = 0
  <2>1. Runs(in, 0, [k \in 0 .. 0 |-> <<>>])
    BY DEF Runs
  <2> QED
    BY <1>1, <1>2, <2>1
<1>3. CASE m # 0
  <2>1. m - 1 \in Nat /\ m - 1 \notin T
    BY <1>1, <1>3
  <2>2. PICK f : Runs(in, m - 1, f)
    BY <2>1
  <2> DEFINE g == [k \in 0 .. m |-> IF k = m THEN Kept(in, m, f[m - 1]) ELSE f[k]]
  <2>3. \A k \in 0 .. m - 1 : f[k] = IF k = 0 THEN <<>> ELSE Kept(in, k, f[k - 1])
    BY <2>1, <2>2 DEF Runs
  <2>4. ASSUME NEW k \in 0 .. m
        PROVE  g[k] = IF k = 0 THEN <<>> ELSE Kept(in, k, g[k - 1])
    <3>1. CASE k = m
      BY <1>3, <2>1, <3>1
    <3>2. CASE k # m
      <4>1. k \in 0 .. m - 1 /\ g[k] = f[k] /\ (k # 0 => g[k - 1] = f[k - 1])
        BY <2>1, <3>2
      <4> QED
        BY <2>3, <4>1
    <3> QED
      BY <3>1, <3>2
  <2>5. Runs(in, m, g)
    BY <2>4 DEF Runs
  <2> QED
    BY <1>1, <2>5
<1> QED
  BY <1>2, <1>3

\* Dedup returns what its loop ends with.
LEMMA DedupRuns ==
    ASSUME NEW in, Len(in) \in Nat
    PROVE  \E f : Runs(in, Len(in), f) /\ Dedup(in) = f[Len(in)]
<1> DEFINE f == CHOOSE f : Runs(in, Len(in), f)
<1>1. Runs(in, Len(in), f)
  BY RunExists
<1>2. Dedup(in) = f[Len(in)]
  BY DEF Dedup, Runs, Kept
<1> QED
  BY <1>1, <1>2

NoRepeats(ids) == \A j, k \in DOMAIN ids : ids[j] = ids[k] /\ ids[j] # NoID => j = k

\* A round adds the id it looks at, unless it is there.
LEMMA OneRound ==
    ASSUME NEW S, NEW in \in Seq(S), NEW k \in 1 .. Len(in), NEW out \in Seq(S),
           NoRepeats(out)
    PROVE  /\ Kept(in, k, out) \in Seq(S)
           /\ Range(Kept(in, k, out)) = Range(out) \cup {in[k]}
           /\ NoRepeats(Kept(in, k, out))
<1>1. in[k] \in S
  OBVIOUS
<1>2. CASE in[k] # NoID /\ Contains(out, in[k])
  <2>1. in[k] \in Range(out) /\ Kept(in, k, out) = out
    BY <1>2 DEF Contains, Range, Kept
  <2> QED
    BY <2>1
<1>3. CASE ~(in[k] # NoID /\ Contains(out, in[k]))
  <2> DEFINE new == Append(out, in[k])
  <2>1. Kept(in, k, out) = new
    BY <1>3 DEF Kept
  <2>2. /\ new \in Seq(S) /\ Len(new) = Len(out) + 1 /\ DOMAIN new = 1 .. Len(out) + 1
        /\ new[Len(out) + 1] = in[k]
        /\ \A j \in 1 .. Len(out) : new[j] = out[j]
        /\ DOMAIN out = 1 .. Len(out) /\ Len(out) \in Nat
    BY <1>1
  <2> HIDE DEF new
  <2>3. Range(new) = Range(out) \cup {in[k]}
    <3>1. ASSUME NEW x \in Range(new)
          PROVE  x \in Range(out) \cup {in[k]}
      <4>1. PICK j \in 1 .. Len(out) + 1 : x = new[j]
        BY <2>2 DEF Range
      <4> QED
        BY <2>2, <4>1 DEF Range
    <3>2. ASSUME NEW x \in Range(out) \cup {in[k]}
          PROVE  x \in Range(new)
      <4>1. \E j \in 1 .. Len(out) + 1 : new[j] = x
        BY <2>2 DEF Range
      <4> QED
        BY <2>2, <4>1 DEF Range
    <3> QED
      BY <3>1, <3>2
  <2>4. NoRepeats(new)
    <3>1. \A j \in 1 .. Len(out) : out[j] = in[k] => in[k] = NoID
      BY <1>3 DEF Contains
    <3> QED
      BY <2>2, <3>1 DEF NoRepeats
  <2> QED
    BY <2>1, <2>2, <2>3, <2>4
<1> QED
  BY <1>2, <1>3

\* Dedup keeps every id that comes in, and no id twice.
LEMMA DedupResult ==
    ASSUME NEW S, NEW in \in Seq(S)
    PROVE  Dedup(in) \in Seq(S) /\ Range(Dedup(in)) = Range(in) /\ NoRepeats(Dedup(in))
<1> DEFINE n == Len(in)
<1>1. PICK f : Runs(in, n, f) /\ Dedup(in) = f[n]
  BY DedupRuns
<1>2. /\ f[0] = <<>>
      /\ \A k \in 1 .. n : f[k] = Kept(in, k, f[k - 1])
  BY <1>1 DEF Runs
<1> DEFINE Good(k) == /\ f[k] \in Seq(S) /\ NoRepeats(f[k])
                      /\ Range(f[k]) = {in[j] : j \in 1 .. k}
           T       == {k \in 0 .. n : ~Good(k)}
<1>t. \A k \in 0 .. n : k \notin T => Good(k)
  OBVIOUS
<1>3. T = {}
  <2> SUFFICES ASSUME T # {} PROVE FALSE
    OBVIOUS
  <2>1. PICK m \in T : \A k \in T : m <= k
    <3>1. T \in SUBSET Nat
      OBVIOUS
    <3> HIDE DEF T
    <3> QED
      BY <3>1, LeastFailure
  <2>2. Good(0)
    BY <1>2 DEF NoRepeats, Range
  <2>3. m \in 1 .. n
    BY <2>1, <2>2
  <2>4. Good(m - 1)
    <3>1. m - 1 \in 0 .. n /\ ~(m <= m - 1)
      BY <2>3
    <3> HIDE DEF T, Good
    <3>2. m - 1 \notin T
      BY <2>1, <3>1
    <3> QED
      BY <1>t, <3>1, <3>2
  <2>5. Good(m)
    <3>1. f[m] = Kept(in, m, f[m - 1])
      BY <1>2, <2>3
    <3>2. {in[j] : j \in 1 .. m} = {in[j] : j \in 1 .. m - 1} \cup {in[m]}
      BY <2>3
    <3> QED
      BY <2>3, <2>4, <3>1, <3>2, OneRound
  <2> QED
    BY <2>1, <2>5
<1>4. Good(n)
  <2> HIDE DEF T, Good
  <2> QED
    BY <1>3, <1>t
<1>5. Range(in) = {in[j] : j \in 1 .. n}
  BY DEF Range
<1> QED
  BY <1>1, <1>4, <1>5

-----------------------------------------------------------------------------
(* Types.                                                                   *)

Ids == Items \cup {NoID}

\* The events from a revision on are ids of the journal.
LEMMA EventsType ==
    ASSUME history \in Seq(Change), NEW r \in Int
    PROVE  EventsFrom(r) \in Seq(Ids)
<1> DEFINE first == IF r > 0 THEN r ELSE 1
           n     == IF Len(history) - first + 1 > 0 THEN Len(history) - first + 1 ELSE 0
<1>0. Len(history) \in Nat /\ first \in Nat \ {0}
  OBVIOUS
<1>1. /\ n \in Nat /\ 1 .. Len(history) - first + 1 = 1 .. n
      /\ \A k \in 1 .. n : k + first - 1 \in 1 .. Len(history)
  <2> HIDE DEF first
  <2> QED
    BY <1>0
<1>2. ASSUME NEW k \in 1 .. Len(history)
      PROVE  history[k].item \in Ids
  <2>1. history[k] \in Change
    OBVIOUS
  <2> QED
    BY <2>1 DEF Change, Ids
<1>3. EventsFrom(r) = [k \in 1 .. n |-> history[k + first - 1].item]
  BY <1>1 DEF EventsFrom
<1> HIDE DEF n, first
<1>4. EventsFrom(r) \in [1 .. n -> Ids]
  BY <1>1, <1>2, <1>3
<1> QED
  BY <1>1, <1>4, SeqDef

\* The entities after a revision come with revisions the server has reached.
LEMMA EntitiesType ==
    ASSUME history \in Seq(Change), Len(history) <= LastRevision, NEW r \in Int
    PROVE  \E S \in SUBSET Items : EntitiesAfter(r) \in [S -> Revisions]
<1>1. Len(history) \in 0 .. Len(history) /\ Len(history) \in Nat
  OBVIOUS
<1>2. StateAt(Len(history)) \in [Items -> 0 .. Len(history)]
  BY <1>1, StateType
<1>3. \A i \in Items : StateAt(Len(history))[i] \in Revisions
  BY <1>1, <1>2, SyncAssumption
<1> DEFINE reported == {i \in IF r = Everything THEN Items ELSE ChangedSince(r) :
                            \/ StateAt(Len(history))[i] # 0
                            \/ ~hidden /\ r # Everything}
<1>4. EntitiesAfter(r) = [i \in reported |-> StateAt(Len(history))[i]]
  BY DEF EntitiesAfter
<1>5. reported \in SUBSET Items
  BY DEF ChangedSince
<1> QED
  BY <1>3, <1>4, <1>5

\* No answer is an answer.
LEMMA NoReplyType == NoReply \in Reply
<1>1. <<>> \in Seq(Ids) /\ <<>> \in [{} -> Revisions] /\ {} \in SUBSET Items
  OBVIOUS
<1> QED
  BY <1>1 DEF NoReply, Reply, Ids

\* The first state is typed.
LEMMA InitTypeOK == Init => TypeOK
  BY NoReplyType, SyncAssumption DEF Init, TypeOK, NextRevision

\* An answer is a record of its type.
LEMMA AnswerType ==
    ASSUME TypeOK, Answer
    PROVE  reply' \in Reply
<1>1. PICK revision \in {Len(history), NoRevision} :
          reply' = [events   |-> IF feed.journal THEN EventsFrom(from) ELSE <<>>,
                    entities |-> IF feed.journal THEN <<>> ELSE EntitiesAfter(from),
                    revision |-> revision]
  BY DEF Answer
<1>2. from \in Int /\ Len(history) \in Revisions
  BY SyncAssumption DEF TypeOK
<1>3. reply'.events \in Seq(Ids)
  BY <1>1, <1>2, EventsType DEF TypeOK
<1>4. PICK S \in SUBSET Items : reply'.entities \in [S -> Revisions]
  <2>1. <<>> \in [{} -> Revisions] /\ {} \in SUBSET Items
    OBVIOUS
  <2> QED
    BY <1>1, <1>2, <2>1, EntitiesType DEF TypeOK
<1>5. reply'.revision \in Revisions \cup {NoRevision}
  BY <1>1, <1>2
<1>6. reply' = [events |-> reply'.events, entities |-> reply'.entities,
                revision |-> reply'.revision]
  BY <1>1
<1> QED
  BY <1>3, <1>4, <1>5, <1>6 DEF Reply, Ids

\* What is taken over is typed.
LEMMA TakeType ==
    ASSUME TypeOK, Take
    PROVE  TypeOK'
<1> USE DEF server, copy
<1>1. PICK S \in SUBSET Items : reply.entities \in [S -> Revisions]
  BY DEF TypeOK, Reply
<1>2. reply.events \in Seq(Ids) /\ reply.revision \in Revisions \cup {NoRevision}
  BY DEF TypeOK, Reply, Ids
<1>3. feed.journal \in BOOLEAN
  BY FeedShape DEF TypeOK
<1>4. received' \in Seq(Ids) /\ handled' \in Seq(Ids) /\ mirror' \in [Items -> Revisions]
  <2>1. CASE feed.journal
    <3>1. received \in Seq(Ids) /\ handled \in Seq(Ids)
      BY DEF TypeOK, Ids
    <3>2. received \o reply.events \in Seq(Ids) /\ handled \o reply.events \in Seq(Ids)
      BY <1>2, <3>1
    <3>3. Dedup(handled \o reply.events) \in Seq(Ids)
      BY <3>2, DedupResult
    <3> QED
      BY <2>1, <3>2, <3>3 DEF Take, TypeOK
  <2>2. CASE ~feed.journal
    <3>1. Merged \in [Items -> Revisions]
      BY <1>1, SyncAssumption DEF Merged, TypeOK
    <3> QED
      BY <2>2, <3>1 DEF Take, TypeOK, Ids
  <2> QED
    BY <1>3, <2>1, <2>2
<1>5. cursor' \in {Everything} \cup 0 .. LastRevision + 1
  <2>1. NextCursor(reply.revision) \in {Everything} \cup 0 .. LastRevision + 1
    BY <1>2, SyncAssumption, FeedShape DEF NextCursor, NextRevision, PassBack, TypeOK
  <2> QED
    BY <2>1 DEF Take
<1>6. reply' \in Reply
  BY NoReplyType DEF Take
<1> QED
  BY <1>4, <1>5, <1>6 DEF Take, TypeOK, Ids

\* Every step keeps the types.
LEMMA NextTypeOK == TypeOK /\ [Next]_vars => TypeOK'
<1> SUFFICES ASSUME TypeOK, [Next]_vars PROVE TypeOK'
  OBVIOUS
<1> USE DEF server, copy
<1>1. ASSUME NEW change \in Change, Record(change)
      PROVE  TypeOK'
  <2>1. Append(history, change) \in Seq(Change)
        /\ Len(Append(history, change)) <= LastRevision
    BY <1>1, SyncAssumption DEF Record, TypeOK
  <2> QED
    BY <1>1, <2>1 DEF Record, TypeOK
<1>2. ASSUME NEW i \in Ids, Put(i)
      PROVE  TypeOK'
  BY <1>1, <1>2 DEF Put, Change, Ids
<1>3. ASSUME NEW i \in Items, Delete(i)
      PROVE  TypeOK'
  BY <1>1, <1>3 DEF Delete, Change
<1>4. CASE Ask
  BY <1>4 DEF Ask, TypeOK
<1>5. CASE Answer
  BY <1>5, AnswerType DEF Answer, TypeOK
<1>6. CASE Fail
  BY <1>6, NoReplyType DEF Fail, TypeOK
<1>7. CASE Take
  BY <1>7, TakeType
<1>8. CASE UNCHANGED vars
  BY <1>8 DEF vars, TypeOK
<1> QED
  BY <1>2, <1>3, <1>4, <1>5, <1>6, <1>7, <1>8 DEF Next, Ids

-----------------------------------------------------------------------------
(* The poll.                                                                *)

\* Every step keeps the cursor a poll under way was asked at.
LEMMA NextPollKept == PollKept /\ [Next]_vars => PollKept'
  BY DEF PollKept, Next, Put, Delete, Record, Ask, Answer, Fail, Take, server, copy, vars

\* What the server does next is the caller's business only through an answer.
LEMMA OnlyRecorded ==
    ASSUME TypeOK, NEW i \in Ids, Put(i) \/ (i \in Items /\ Delete(i))
    PROVE  /\ \E change \in Change : history' = Append(history, change)
           /\ UNCHANGED <<feed, hidden, cursor, poll, from, reply, copy>>
  BY DEF Put, Delete, Record, Change, Ids, copy

-----------------------------------------------------------------------------
(* The journal.                                                             *)

\* What lies between two revisions, end to end.
Journal(m, n) == [k \in 1 .. n - m + 1 |-> history[k + m - 1].item]

\* The journal up to a revision, and what follows it up to a later one, is the journal
\* up to that.
LEMMA JournalGrows ==
    ASSUME TypeOK, NEW c \in 1 .. Len(history) + 1, NEW r \in c - 1 .. Len(history)
    PROVE  Journal(1, c - 1) \o Journal(c, r) = Journal(1, r)
<1> DEFINE n == c - 1
           m == r - c + 1
<1>1. n \in Nat /\ m \in Nat /\ n + m = r /\ r \in Nat /\ c \in Nat
  BY DEF TypeOK
<1>2. ASSUME NEW k \in 1 .. Len(history)
      PROVE  history[k].item \in Ids
  <2>1. history[k] \in Change
    BY DEF TypeOK
  <2> QED
    BY <2>1 DEF Change, Ids
<1>3. /\ Journal(1, c - 1) = [k \in 1 .. n |-> history[k].item]
      /\ Journal(c, r) = [k \in 1 .. m |-> history[k + n].item]
      /\ Journal(1, r) = [k \in 1 .. n + m |-> history[k].item]
  BY <1>1 DEF Journal
<1> DEFINE A == [k \in 1 .. n |-> history[k].item]
           B == [k \in 1 .. m |-> history[k + n].item]
           C == [k \in 1 .. n + m |-> history[k].item]
<1>4. A \in [1 .. n -> Ids] /\ B \in [1 .. m -> Ids] /\ C \in [1 .. n + m -> Ids]
  <2>1. n + m <= Len(history) /\ Len(history) \in Nat
    BY <1>1 DEF TypeOK
  <2> HIDE DEF n, m
  <2> QED
    BY <1>1, <1>2, <2>1
<1>5. A \in Seq(Ids) /\ B \in Seq(Ids) /\ C \in Seq(Ids)
      /\ Len(A) = n /\ Len(B) = m /\ Len(C) = n + m
  <2> HIDE DEF n, m, A, B, C
  <2>1. n + m \in Nat
    BY <1>1
  <2>2. A \in Seq(Ids) /\ B \in Seq(Ids) /\ C \in Seq(Ids)
    BY <1>1, <1>4, <2>1, SeqDef
  <2> QED
    BY <1>1, <1>4, <2>1, <2>2, LenProperties
<1>6. A \o B = C
  <2>1. \A k \in 1 .. n : A[k] = C[k]
    BY <1>1
  <2>2. \A k \in n + 1 .. n + m : B[k - n] = C[k]
    BY <1>1
  <2> HIDE DEF n, m, A, B, C
  <2>3. A \o B \in Seq(Ids) /\ Len(A \o B) = n + m
    BY <1>5, ConcatProperties
  <2>4. ASSUME NEW k \in 1 .. n + m
        PROVE  (A \o B)[k] = C[k]
    <3>1. (A \o B)[k] = IF k <= n THEN A[k] ELSE B[k - n]
      BY <1>5, ConcatProperties
    <3>2. k <= n => k \in 1 .. n
      BY <1>1
    <3>3. ~(k <= n) => k \in n + 1 .. n + m
      BY <1>1
    <3> QED
      BY <2>1, <2>2, <3>1, <3>2, <3>3
  <2> QED
    BY <1>5, <2>3, <2>4, SeqEqual
<1> QED
  BY <1>3, <1>6

\* Every step keeps the journal exact.
LEMMA NextJournalKept ==
    TypeOK /\ PollKept /\ JournalKept /\ [Next]_vars => JournalKept'
<1> SUFFICES ASSUME TypeOK, PollKept, JournalKept, [Next]_vars, feed'.journal
             PROVE  JournalKept'
  BY DEF JournalKept
<1> USE DEF JournalKept, JournalExact
<1>0. feed' = feed /\ feed.journal /\ Len(history) \in Nat
  <2>1. feed' = feed
    BY DEF Next, Put, Delete, Record, Ask, Answer, Fail, Take, server, copy, vars
  <2> QED
    BY <2>1 DEF TypeOK
<1>1. CASE UNCHANGED <<history, cursor, received>> /\ (poll' = "answered" => UNCHANGED reply)
           /\ (poll' = "answered" => poll = "answered")
  BY <1>0, <1>1
<1>2. ASSUME NEW i \in Ids, Put(i) \/ (i \in Items /\ Delete(i))
      PROVE  JournalKept'
  <2>1. PICK change \in Change : history' = Append(history, change)
    BY <1>2, OnlyRecorded
  <2>2. /\ Len(history') = Len(history) + 1
        /\ \A k \in 1 .. Len(history) : history'[k] = history[k]
    BY <2>1 DEF TypeOK
  <2>3. UNCHANGED <<cursor, poll, reply, received>>
    BY <1>2 DEF Put, Delete, Record
  <2>4. received = [k \in 1 .. cursor - 1 |-> history'[k].item]
    BY <1>0, <2>2
  <2>5. poll = "answered" =>
            /\ reply.revision \in cursor - 1 .. Len(history')
            /\ reply.events = [k \in 1 .. reply.revision - cursor + 1 |->
                                   history'[k + cursor - 1].item]
    <3> SUFFICES ASSUME poll = "answered"
                 PROVE  /\ reply.revision \in cursor - 1 .. Len(history')
                        /\ reply.events = [k \in 1 .. reply.revision - cursor + 1 |->
                                               history'[k + cursor - 1].item]
      OBVIOUS
    <3>1. cursor \in 1 .. Len(history) + 1 /\ reply.revision \in cursor - 1 .. Len(history)
      BY <1>0
    <3>2. \A k \in 1 .. reply.revision - cursor + 1 :
              history'[k + cursor - 1] = history[k + cursor - 1]
      BY <1>0, <2>2, <3>1
    <3>3. reply.events = [k \in 1 .. reply.revision - cursor + 1 |->
                              history[k + cursor - 1].item]
      BY <1>0
    <3> QED
      BY <1>0, <2>2, <3>1, <3>2, <3>3
  <2> QED
    BY <1>0, <2>2, <2>3, <2>4, <2>5
<1>3. CASE Answer
  <2>1. from = cursor /\ cursor \in 1 .. Len(history) + 1
    BY <1>0, <1>3 DEF Answer, PollKept
  <2>2. reply'.revision = Len(history) /\ reply'.events = EventsFrom(from)
    BY <1>0, <1>3, FeedShape DEF Answer, TypeOK
  <2>3. EventsFrom(from) = [k \in 1 .. Len(history) - cursor + 1 |->
                                history[k + cursor - 1].item]
    BY <1>0, <2>1 DEF EventsFrom
  <2>4. UNCHANGED <<history, cursor, received>>
    BY <1>3 DEF Answer, server, copy
  <2> QED
    BY <1>0, <2>1, <2>2, <2>3, <2>4
<1>4. CASE Take
  <2>1. /\ received' = received \o reply.events
        /\ cursor' = reply.revision + 1 /\ poll' = "idle" /\ history' = history
    <3>1. cursor' = NextCursor(reply.revision)
      BY <1>4 DEF Take
    <3>2. NextCursor(reply.revision) = reply.revision + 1
      <4>1. feed.journal /\ feed.revision = "always"
        BY <1>0, FeedShape DEF TypeOK
      <4> QED
        BY <4>1 DEF NextCursor, NextRevision
    <3> QED
      BY <1>0, <1>4, <3>1, <3>2 DEF Take, server
  <2>2. /\ cursor \in 1 .. Len(history) + 1
        /\ reply.revision \in cursor - 1 .. Len(history)
        /\ received = Journal(1, cursor - 1)
        /\ reply.events = Journal(cursor, reply.revision)
    <3>1. /\ cursor \in 1 .. Len(history) + 1
          /\ reply.revision \in cursor - 1 .. Len(history)
          /\ received = [k \in 1 .. cursor - 1 |-> history[k].item]
          /\ reply.events = [k \in 1 .. reply.revision - cursor + 1 |->
                                 history[k + cursor - 1].item]
      BY <1>0, <1>4 DEF Take
    <3> QED
      BY <1>0, <3>1 DEF Journal
  <2>3. received' = Journal(1, reply.revision)
    BY <2>1, <2>2, JournalGrows
  <2>4. Journal(1, reply.revision) = [k \in 1 .. cursor' - 1 |-> history'[k].item]
    BY <1>0, <2>1, <2>2 DEF Journal
  <2>5. cursor' \in 1 .. Len(history') + 1
    BY <1>0, <2>1, <2>2
  <2> QED
    BY <2>1, <2>3, <2>4, <2>5
<1>5. CASE Ask \/ Fail \/ UNCHANGED vars
  BY <1>1, <1>5 DEF Ask, Fail, server, copy, vars
<1> QED
  BY <1>2, <1>3, <1>4, <1>5 DEF Next, Ids

-----------------------------------------------------------------------------
(* Dedup keeps the account of the journal.                                  *)

\* What Dedup lets through of an answer is what is new in it.
LEMMA NextHandledOnce == TypeOK /\ HandledOnce /\ [Next]_vars => HandledOnce'
<1> SUFFICES ASSUME TypeOK, HandledOnce, [Next]_vars PROVE HandledOnce'
  OBVIOUS
<1>1. CASE UNCHANGED <<received, handled>>
  BY <1>1 DEF HandledOnce
<1>2. CASE Take /\ feed.journal
  <2>1. /\ received' = received \o reply.events
        /\ handled' = Dedup(handled \o reply.events)
    BY <1>2 DEF Take
  <2>2. received \in Seq(Ids) /\ handled \in Seq(Ids) /\ reply.events \in Seq(Ids)
    BY DEF TypeOK, Reply, Ids
  <2>3. ASSUME NEW s \in Seq(Ids), NEW t \in Seq(Ids)
        PROVE  Range(s \o t) = Range(s) \cup Range(t)
    <3>1. /\ DOMAIN (s \o t) = 1 .. Len(s) + Len(t)
          /\ Len(s) \in Nat /\ Len(t) \in Nat
          /\ DOMAIN s = 1 .. Len(s) /\ DOMAIN t = 1 .. Len(t)
          /\ \A k \in 1 .. Len(s) : (s \o t)[k] = s[k]
          /\ \A k \in 1 .. Len(t) : (s \o t)[k + Len(s)] = t[k]
          /\ \A k \in Len(s) + 1 .. Len(s) + Len(t) : (s \o t)[k] = t[k - Len(s)]
      OBVIOUS
    <3>2. ASSUME NEW x \in Range(s \o t)
          PROVE  x \in Range(s) \cup Range(t)
      <4>1. PICK k \in 1 .. Len(s) + Len(t) : x = (s \o t)[k]
        BY <3>1 DEF Range
      <4>2. CASE k <= Len(s)
        BY <3>1, <4>1, <4>2 DEF Range
      <4>3. CASE k > Len(s)
        <5>1. k - Len(s) \in 1 .. Len(t) /\ x = t[k - Len(s)]
          BY <3>1, <4>1, <4>3
        <5> QED
          BY <3>1, <5>1 DEF Range
      <4> QED
        BY <3>1, <4>2, <4>3
    <3>3. ASSUME NEW x \in Range(s)
          PROVE  x \in Range(s \o t)
      <4>1. PICK k \in 1 .. Len(s) : x = s[k]
        BY <3>1 DEF Range
      <4>2. k \in DOMAIN (s \o t) /\ (s \o t)[k] = x
        BY <3>1, <4>1
      <4> QED
        BY <4>2 DEF Range
    <3>4. ASSUME NEW x \in Range(t)
          PROVE  x \in Range(s \o t)
      <4>1. PICK k \in 1 .. Len(t) : x = t[k]
        BY <3>1 DEF Range
      <4>2. k + Len(s) \in DOMAIN (s \o t) /\ (s \o t)[k + Len(s)] = x
        BY <3>1, <4>1
      <4> QED
        BY <4>2 DEF Range
    <3> QED
      BY <3>2, <3>3, <3>4
  <2>4. handled \o reply.events \in Seq(Ids)
    BY <2>2
  <2>5. Range(handled') = Range(received')
    <3>1. Range(handled') = Range(handled \o reply.events)
      BY <2>1, <2>4, DedupResult
    <3>2. /\ Range(handled \o reply.events) = Range(handled) \cup Range(reply.events)
          /\ Range(received \o reply.events) = Range(received) \cup Range(reply.events)
      BY <2>2, <2>3
    <3> QED
      BY <2>1, <3>1, <3>2 DEF HandledOnce
  <2>6. NoRepeats(handled')
    BY <2>1, <2>4, DedupResult
  <2> QED
    BY <2>5, <2>6 DEF HandledOnce, NoRepeats
<1>3. CASE Take /\ ~feed.journal
  BY <1>1, <1>3 DEF Take
<1> QED
  BY <1>1, <1>2, <1>3
     DEF Next, Put, Delete, Record, Ask, Answer, Fail, Take, copy, vars

-----------------------------------------------------------------------------
(* The copy of the entities.                                                *)

\* An answer of a later revision, merged into the copy of an earlier one, makes the copy
\* of the later one.
LEMMA MergedIsCopy ==
    ASSUME TypeOK, from = cursor,
           NEW r \in 0 .. Len(history), r >= cursor, CopyOf(r),
           NEW now \in r .. Len(history), AnsweredAt(now),
           NEW i \in Items, ~hidden \/ StateAt(now)[i] # 0
    PROVE  Merged[i] = StateAt(now)[i]
<1>0. Len(history) \in Nat /\ r \in Nat /\ now \in Nat /\ r <= now /\ cursor \in Int
  BY SyncAssumption DEF TypeOK
<1>1. CASE i \in DOMAIN reply.entities
  BY <1>1 DEF Merged, AnsweredAt
<1>2. CASE i \notin DOMAIN reply.entities /\ from = Everything
  BY <1>2 DEF Merged, AnsweredAt
<1>3. CASE i \notin DOMAIN reply.entities /\ from # Everything
  <2>1. \A k \in 1 .. now : k > from => history[k].item # i
    BY <1>3 DEF AnsweredAt
  <2>2. \A k \in 1 .. now : k > r => history[k].item # i
    BY <1>0, <2>1
  <2>3. StateAt(now)[i] = StateAt(r)[i]
    BY <1>0, <2>2, Untouched
  <2>4. mirror[i] = StateAt(r)[i]
    BY <2>3 DEF CopyOf
  <2> QED
    BY <1>3, <2>3, <2>4 DEF Merged
<1> QED
  BY <1>1, <1>2, <1>3

\* The server answers with what has changed since, as of now.
LEMMA AnswersNow ==
    ASSUME TypeOK, Answer, ~feed.journal
    PROVE  AnsweredAt(Len(history))'
<1> DEFINE now      == StateAt(Len(history))
           reported == {i \in IF from = Everything THEN Items ELSE ChangedSince(from) :
                            now[i] # 0 \/ (~hidden /\ from # Everything)}
<1>1. PICK revision \in {Len(history), NoRevision} :
          reply' = [events   |-> IF feed.journal THEN EventsFrom(from) ELSE <<>>,
                    entities |-> IF feed.journal THEN <<>> ELSE EntitiesAfter(from),
                    revision |-> revision]
  BY DEF Answer
<1>2. /\ reply'.revision = revision
      /\ reply'.entities = EntitiesAfter(from)
  BY <1>1
<1>3. EntitiesAfter(from) = [i \in reported |-> now[i]]
  BY DEF EntitiesAfter
<1>4. UNCHANGED <<history, hidden, from>>
  BY DEF Answer, server
<1>5. StateAt(Len(history))' = now
  BY <1>4 DEF StateAt
<1>6. \A i \in reported : i \in Items
  BY DEF ChangedSince
<1>7. ASSUME NEW i \in Items \ reported
      PROVE  \/ now[i] = 0 /\ (hidden \/ from = Everything)
             \/ /\ from # Everything
                /\ \A k \in 1 .. Len(history) : k > from => history[k].item # i
  <2>1. CASE from = Everything
    BY <2>1
  <2>2. CASE from # Everything /\ i \notin ChangedSince(from)
    BY <2>2 DEF ChangedSince
  <2>3. CASE from # Everything /\ i \in ChangedSince(from)
    BY <2>3
  <2> QED
    BY <2>1, <2>2, <2>3
<1>8. reply'.revision \in {Len(history'), NoRevision}
  BY <1>1, <1>2, <1>4
<1> HIDE DEF now, reported
<1>9. /\ DOMAIN reply'.entities = reported
      /\ \A i \in reported : reply'.entities[i] = now[i]
  BY <1>2, <1>3
<1> QED
  BY <1>4, <1>5, <1>6, <1>7, <1>8, <1>9 DEF AnsweredAt

\* Every step keeps the copy a state the server was in.
LEMMA NextMirrorKept == TypeOK /\ PollKept /\ MirrorKept /\ [Next]_vars => MirrorKept'
<1> SUFFICES ASSUME TypeOK, PollKept, MirrorKept, [Next]_vars, ~feed'.journal
             PROVE  MirrorKept'
  BY DEF MirrorKept
<1>0. feed' = feed /\ hidden' = hidden /\ ~feed.journal
  BY DEF Next, Put, Delete, Record, Ask, Answer, Fail, Take, server, copy, vars
<1>n. Len(history) \in Nat /\ cursor \in Int
  BY SyncAssumption DEF TypeOK
<1>r. PICK r \in 0 .. Len(history) :
          /\ r >= cursor
          /\ CopyOf(r)
          /\ poll = "answered" => \E now \in r .. Len(history) : AnsweredAt(now)
  BY <1>0 DEF MirrorKept
<1>1. CASE /\ UNCHANGED <<history, cursor, mirror, from>>
           /\ poll' = "answered" => UNCHANGED <<reply, poll>>
  <2>1. CopyOf(r)'
    BY <1>0, <1>1, <1>r, SameState DEF CopyOf
  <2>2. poll' = "answered" => \E now \in r .. Len(history') : AnsweredAt(now)'
    BY <1>0, <1>1, <1>r, SameState DEF AnsweredAt
  <2>3. r \in 0 .. Len(history') /\ r >= cursor'
    BY <1>1, <1>r
  <2> QED
    BY <2>1, <2>2, <2>3 DEF MirrorKept
<1>2. ASSUME NEW i \in Ids, Put(i) \/ (i \in Items /\ Delete(i))
      PROVE  MirrorKept'
  <2>1. PICK change \in Change : history' = Append(history, change)
    BY <1>2, OnlyRecorded
  <2>2. UNCHANGED <<hidden, cursor, poll, from, reply, mirror>>
    BY <1>2, OnlyRecorded DEF copy
  <2>3. ASSUME NEW n \in 0 .. Len(history)
        PROVE  /\ StateAt(n)' = StateAt(n)
               /\ Len(history') = Len(history) + 1
               /\ \A k \in 1 .. n : history'[k] = history[k]
    BY <2>1, PastKept DEF TypeOK
  <2>4. CopyOf(r)'
    BY <1>r, <2>2, <2>3 DEF CopyOf
  <2>5. poll' = "answered" => \E now \in r .. Len(history') : AnsweredAt(now)'
    <3> SUFFICES ASSUME poll = "answered"
                 PROVE  \E now \in r .. Len(history') : AnsweredAt(now)'
      BY <2>2
    <3>1. PICK now \in r .. Len(history) : AnsweredAt(now)
      BY <1>r
    <3>2. now \in 0 .. Len(history) /\ now \in r .. Len(history')
      BY <1>n, <1>r, <2>3
    <3>3. AnsweredAt(now)'
      BY <2>2, <2>3, <3>1, <3>2 DEF AnsweredAt
    <3> QED
      BY <3>2, <3>3
  <2>6. r \in 0 .. Len(history') /\ r >= cursor'
    BY <1>n, <1>r, <2>2, <2>3
  <2> QED
    BY <2>4, <2>5, <2>6 DEF MirrorKept
<1>3. CASE Answer
  <2>1. UNCHANGED <<history, cursor, mirror, hidden>>
    BY <1>3 DEF Answer, server, copy
  <2>2. CopyOf(r)'
    BY <1>r, <2>1, SameState DEF CopyOf
  <2>3. AnsweredAt(Len(history))' /\ Len(history') = Len(history)
    BY <1>0, <1>3, <2>1, AnswersNow
  <2>4. Len(history) \in r .. Len(history')
    BY <1>n, <1>r, <2>3
  <2>5. \E now \in r .. Len(history') : AnsweredAt(now)'
    BY <2>1, <2>3, <2>4 DEF AnsweredAt
  <2>6. r \in 0 .. Len(history') /\ r >= cursor'
    BY <1>r, <2>1
  <2> QED
    BY <2>2, <2>5, <2>6 DEF MirrorKept
<1>4. CASE Take
  <2>1. from = cursor /\ poll = "answered"
    BY <1>4 DEF Take, PollKept
  <2>2. PICK now \in r .. Len(history) : AnsweredAt(now)
    BY <1>r, <2>1
  <2>3. /\ mirror' = Merged /\ cursor' = NextCursor(reply.revision) /\ poll' = "idle"
        /\ UNCHANGED <<history, hidden>>
    BY <1>0, <1>4 DEF Take, server
  <2>4. \A i \in Items : ~hidden \/ StateAt(now)[i] # 0 => Merged[i] = StateAt(now)[i]
    BY <1>r, <2>1, <2>2, MergedIsCopy
  <2>5. CopyOf(now)'
    BY <2>3, <2>4, SameState DEF CopyOf
  <2>6. now >= cursor'
    <3>1. reply.revision \in {now, NoRevision} /\ now \in Nat /\ now >= cursor
      BY <1>n, <1>r, <2>2 DEF AnsweredAt
    <3>2. NextCursor(reply.revision) \in {Everything, PassBack(reply.revision)}
      BY <1>0, FeedShape DEF NextCursor, TypeOK
    <3>3. PassBack(reply.revision) \in {cursor, now}
      BY <3>1 DEF PassBack
    <3> QED
      BY <2>3, <3>1, <3>2, <3>3
  <2>7. now \in 0 .. Len(history')
    BY <1>n, <1>r, <2>2, <2>3
  <2> QED
    BY <2>3, <2>5, <2>6, <2>7 DEF MirrorKept
<1>5. CASE Ask \/ Fail \/ UNCHANGED vars
  <2>1. CASE Fail \/ UNCHANGED vars
    BY <1>1, <2>1 DEF Fail, server, copy, vars
  <2>2. CASE Ask
    <3>1. UNCHANGED <<history, cursor, mirror, hidden>> /\ poll' = "asked"
      BY <2>2 DEF Ask, server, copy
    <3>2. CopyOf(r)'
      BY <1>r, <3>1, SameState DEF CopyOf
    <3> QED
      BY <1>r, <3>1, <3>2 DEF MirrorKept
  <2> QED
    BY <1>5, <2>1, <2>2
<1> QED
  BY <1>2, <1>3, <1>4, <1>5 DEF Next, Ids

-----------------------------------------------------------------------------
(* Theorems.                                                                *)

\* Nothing has been asked or received in the first state.
LEMMA InitKept == Init => PollKept /\ JournalKept /\ MirrorKept /\ HandledOnce
<1> SUFFICES ASSUME Init PROVE PollKept /\ JournalKept /\ MirrorKept /\ HandledOnce
  OBVIOUS
<1>1. PollKept
  BY DEF Init, PollKept
<1>2. JournalKept
  BY DEF Init, JournalKept, JournalExact, NextRevision
<1>3. MirrorKept
  <2> SUFFICES ASSUME ~feed.journal PROVE MirrorKept
    BY DEF MirrorKept
  <2>1. history = <<>> /\ cursor = Everything /\ poll = "idle"
        /\ mirror = [i \in Items |-> 0]
    BY DEF Init
  <2>2. StateAt(0) \in [Items -> 0 .. 0]
    BY <2>1, StateType
  <2>3. CopyOf(0)
    BY <2>1, <2>2 DEF CopyOf
  <2> QED
    BY <2>1, <2>3 DEF MirrorKept
<1>4. HandledOnce
  BY DEF Init, HandledOnce
<1> QED
  BY <1>1, <1>2, <1>3, <1>4

\* Every reachable state satisfies the whole invariant.
THEOREM Invariance == Spec => [](IInv /\ HandledOnce)
<1>1. Init => IInv /\ HandledOnce
  BY InitTypeOK, InitKept DEF IInv
<1>2. IInv /\ HandledOnce /\ [Next]_vars => (IInv /\ HandledOnce)'
  BY NextTypeOK, NextPollKept, NextJournalKept, NextMirrorKept, NextHandledOnce DEF IInv
<1> QED
  BY <1>1, <1>2, PTL DEF Spec

\* Every variable of the caller and of the server keeps its type.
THEOREM TypeCorrect == Spec => []TypeOK
<1>1. IInv => TypeOK
  BY DEF IInv
<1> QED
  BY <1>1, Invariance, PTL

\* Whatever polls fail or come late, the journal comes in without gap and without
\* overlap.
THEOREM JournalIsExact == Spec => []JournalExact
<1>1. IInv => JournalExact
  BY DEF IInv, JournalKept, JournalExact
<1> QED
  BY <1>1, Invariance, PTL

\* An event that is delivered under a second revision is acted on once, and none is left
\* out, however long the journal and whatever is repeated in it.
THEOREM EventsHandledOnce == Spec => []HandledOnce
  BY Invariance, PTL

\* The copy is a state the server was in, at the cursor or after it, whichever method is
\* polled and whichever answers were lost or carried no revision.
THEOREM MirrorIsExact == Spec => []MirrorExact
<1>1. IInv => MirrorExact
  BY DEF IInv, MirrorKept, MirrorExact, CopyOf
<1> QED
  BY <1>1, Invariance, PTL
=============================================================================
