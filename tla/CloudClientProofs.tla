--------------------------- MODULE CloudClientProofs ---------------------------
(***************************************************************************)
(* What CloudLimiter and CloudClient promise for every set of calls and      *)
(* paths and every documented limit.  First the limiter on its own: the      *)
(* channels hold exactly the calls that are between acquire and release, and *)
(* the reserved instants keep their distance.  ChannelInv and PacingInv are  *)
(* proved apart, each needs only the types; the types need ChannelInv, for   *)
(* no channel is drained below empty.                                       *)
(*                                                                         *)
(* Then the whole client: it implements both of its parts, so that what is   *)
(* shown of them on their own holds of it.  Their invariants and TalksInside, *)
(* which ties them together, give what only the whole can promise: a Post    *)
(* talks within its limits, and leaves nothing behind.                      *)
(***************************************************************************)
EXTENDS CloudClient, FiniteSetTheorems, TLAPS

-----------------------------------------------------------------------------
(* The sets of calls that hold a slot.                                      *)

\* A set of calls grows by one when a call outside it joins, and shrinks by one when a
\* call in it leaves; it never has fewer members than none.
LEMMA JoinLeave ==
    ASSUME NEW S \in SUBSET Calls, NEW c \in Calls
    PROVE  /\ Cardinality(S) \in Nat
           /\ c \notin S => Cardinality(S \cup {c}) = Cardinality(S) + 1
           /\ c \in S => /\ Cardinality(S \ {c}) = Cardinality(S) - 1
                         /\ Cardinality(S) > 0
<1>1. IsFiniteSet(S)
  BY LimiterAssumption, FS_Subset
<1>2. Cardinality(S) \in Nat
  BY <1>1, FS_CardinalityType
<1>3. c \notin S => Cardinality(S \cup {c}) = Cardinality(S) + 1
  BY <1>1, FS_AddElement
<1>4. c \in S => Cardinality(S \ {c}) = Cardinality(S) - 1 /\ Cardinality(S) > 0
  BY <1>1, <1>2, FS_RemoveElement, FS_EmptySet
<1> QED
  BY <1>2, <1>3, <1>4

\* A call that moves on joins or leaves the calls on the channels, and no other does.
LEMMA Moved ==
    ASSUME TypeOK, NEW c \in Calls, NEW s \in Stages, Goto(c, s), path' = path
    PROVE  /\ HoldingGlobal' = IF s \in {"global", "inside", "leaving"}
                               THEN HoldingGlobal \cup {c} ELSE HoldingGlobal \ {c}
           /\ \A p \in Paths :
                  HoldingSlot(p)' = IF s = "inside" /\ path[c] = p /\ Concurrent[p] > 0
                                    THEN HoldingSlot(p) \cup {c} ELSE HoldingSlot(p) \ {c}
  BY DEF TypeOK, Goto, HoldingGlobal, HoldingSlot, Stages

\* A call that goes from a stage without slots to another leaves the channels alone.
LEMMA MovedWithout ==
    ASSUME TypeOK, ChannelInv, NEW c \in Calls, NEW s \in Stages, Goto(c, s),
           stage[c] \notin {"global", "inside", "leaving"},
           s \notin {"global", "inside", "leaving"},
           UNCHANGED <<slots, global, path>>
    PROVE  ChannelInv'
<1>1. HoldingGlobal' = HoldingGlobal
  BY Moved DEF HoldingGlobal
<1>2. \A p \in Paths : HoldingSlot(p)' = HoldingSlot(p)
  BY Moved DEF HoldingSlot
<1> QED
  BY <1>1, <1>2 DEF ChannelInv, SlotsAccounted, WithinCeilings

\* A call that gives back its slot of the global channel, and holds no other, leaves the
\* account right.
LEMMA GlobalGivenBack ==
    ASSUME TypeOK, ChannelInv, NEW c \in Calls, NEW s \in Stages, Goto(c, s),
           \/ stage[c] \in {"global", "leaving"}
           \/ stage[c] = "inside" /\ Concurrent[path[c]] = 0,
           s \notin {"global", "inside", "leaving"},
           global' = global - 1, UNCHANGED <<slots, path>>
    PROVE  ChannelInv'
<1>1. HoldingGlobal' = HoldingGlobal \ {c} /\ c \in HoldingGlobal
  BY Moved DEF HoldingGlobal
<1>2. HoldingGlobal \in SUBSET Calls
  BY DEF HoldingGlobal
<1>3. global' = Cardinality(HoldingGlobal') /\ global' <= GlobalConcurrent
  BY <1>1, <1>2, JoinLeave, LimiterAssumption
     DEF ChannelInv, SlotsAccounted, WithinCeilings
<1>4. \A p \in Paths : HoldingSlot(p)' = HoldingSlot(p) \ {c} /\ c \notin HoldingSlot(p)
  BY Moved, LimiterAssumption DEF HoldingSlot
<1>5. \A p \in Paths : HoldingSlot(p)' = HoldingSlot(p)
  BY <1>4
<1> QED
  BY <1>3, <1>5 DEF ChannelInv, SlotsAccounted, WithinCeilings

-----------------------------------------------------------------------------
(* The channels.                                                            *)

\* Taking a slot, of the server's or of the path's channel.
LEMMA AcquireChannels ==
    ASSUME TypeOK, ChannelInv, NEW c \in Calls, Acquire(c)
    PROVE  ChannelInv'
<1> USE LimiterAssumption DEF ChannelInv, SlotsAccounted, WithinCeilings
<1>p. path[c] \in Paths /\ Concurrent[path[c]] \in Nat
  BY DEF TypeOK
<1>1. CASE TakeGlobal(c)
  <2>1. PICK s \in {"inside", "global"} :
            Goto(c, s) /\ (s = "inside" => Concurrent[path[c]] = 0)
    BY <1>1 DEF TakeGlobal
  <2>2. HoldingGlobal' = HoldingGlobal \cup {c} /\ c \notin HoldingGlobal
    BY <1>1, <2>1, Moved DEF TakeGlobal, HoldingGlobal, Stages
  <2>3. \A p \in Paths : HoldingSlot(p)' = HoldingSlot(p)
    BY <1>1, <1>p, <2>1, Moved DEF TakeGlobal, HoldingSlot, Stages
  <2>4. HoldingGlobal \in SUBSET Calls
    BY DEF HoldingGlobal
  <2>5. global' = Cardinality(HoldingGlobal') /\ global' <= GlobalConcurrent
    BY <1>1, <2>2, <2>4, JoinLeave DEF TakeGlobal
  <2> QED
    BY <1>1, <2>3, <2>5 DEF TakeGlobal
<1>2. CASE TakeSlot(c)
  <2> PICK q \in Paths : q = path[c]
    BY <1>p
  <2>1. Goto(c, "inside") /\ Concurrent[q] > 0
    <3>1. slots[q] \in Nat
      BY <1>p DEF TypeOK
    <3> QED
      BY <1>2, <1>p, <3>1 DEF TakeSlot
  <2>2. HoldingGlobal' = HoldingGlobal
    BY <1>2, <2>1, Moved DEF TakeSlot, HoldingGlobal, Stages
  <2>3. HoldingSlot(q)' = HoldingSlot(q) \cup {c} /\ c \notin HoldingSlot(q)
    BY <1>2, <1>p, <2>1, Moved DEF TakeSlot, HoldingSlot, Stages
  <2>4. HoldingSlot(q) \in SUBSET Calls
    BY DEF HoldingSlot
  <2>5. slots'[q] = Cardinality(HoldingSlot(q)') /\ slots'[q] <= Concurrent[q]
    <3>1. slots'[q] = slots[q] + 1 /\ slots[q] < Concurrent[q]
      BY <1>2, <1>p DEF TakeSlot, TypeOK
    <3>2. slots[q] = Cardinality(HoldingSlot(q)) /\ Concurrent[q] \in Nat
      BY <1>p
    <3>3. Cardinality(HoldingSlot(q)') = slots[q] + 1 /\ slots[q] \in Nat
      BY <2>3, <2>4, <3>2, JoinLeave
    <3> QED
      BY <3>1, <3>2, <3>3
  <2>6. ASSUME NEW p \in Paths, p # q
        PROVE  slots'[p] = slots[p] /\ HoldingSlot(p)' = HoldingSlot(p)
    <3>1. HoldingSlot(p)' = HoldingSlot(p) \ {c} /\ c \notin HoldingSlot(p)
      BY <1>2, <2>1, <2>6, Moved DEF TakeSlot, HoldingSlot, Stages
    <3> QED
      BY <1>2, <2>6, <3>1 DEF TakeSlot, TypeOK
  <2>7. ASSUME NEW p \in Paths
        PROVE  /\ slots'[p] = Cardinality(HoldingSlot(p)')
               /\ Concurrent[p] > 0 => slots'[p] <= Concurrent[p]
    <3>1. CASE p = q
      BY <2>5, <3>1
    <3>2. CASE p # q
      BY <2>6, <3>2
    <3> QED
      BY <3>1, <3>2
  <2> QED
    BY <1>2, <2>2, <2>7 DEF TakeSlot
<1> QED
  BY <1>1, <1>2 DEF Acquire

\* Giving one back.
LEMMA ReleaseChannels ==
    ASSUME TypeOK, ChannelInv, NEW c \in Calls, Release(c)
    PROVE  ChannelInv'
<1> USE LimiterAssumption DEF ChannelInv, SlotsAccounted, WithinCeilings
<1>p. path[c] \in Paths /\ Concurrent[path[c]] \in Nat
  BY DEF TypeOK
<1>1. CASE ReleaseSlot(c)
  <2> PICK q \in Paths : q = path[c]
    BY <1>p
  <2>1. Goto(c, "leaving") /\ Concurrent[q] > 0 /\ stage[c] = "inside"
    BY <1>1 DEF ReleaseSlot
  <2>2. HoldingGlobal' = HoldingGlobal
    BY <1>1, <2>1, Moved DEF ReleaseSlot, HoldingGlobal, Stages
  <2>3. HoldingSlot(q)' = HoldingSlot(q) \ {c} /\ c \in HoldingSlot(q)
    BY <1>1, <1>p, <2>1, Moved DEF ReleaseSlot, HoldingSlot, Stages
  <2>4. HoldingSlot(q) \in SUBSET Calls
    BY DEF HoldingSlot
  <2>5. slots'[q] = Cardinality(HoldingSlot(q)') /\ slots'[q] <= Concurrent[q]
    <3>1. slots'[q] = slots[q] - 1 /\ slots[q] <= Concurrent[q] /\ slots[q] \in Nat
      BY <1>1, <1>p, <2>1 DEF ReleaseSlot, TypeOK
    <3> QED
      BY <1>p, <2>3, <2>4, <3>1, JoinLeave
  <2>6. ASSUME NEW p \in Paths, p # q
        PROVE  slots'[p] = slots[p] /\ HoldingSlot(p)' = HoldingSlot(p)
    <3>1. HoldingSlot(p)' = HoldingSlot(p) \ {c} /\ c \notin HoldingSlot(p)
      BY <1>1, <2>1, <2>6, Moved DEF ReleaseSlot, HoldingSlot, Stages
    <3> QED
      BY <1>1, <2>6, <3>1 DEF ReleaseSlot, TypeOK
  <2>7. ASSUME NEW p \in Paths
        PROVE  /\ slots'[p] = Cardinality(HoldingSlot(p)')
               /\ Concurrent[p] > 0 => slots'[p] <= Concurrent[p]
    <3>1. CASE p = q
      BY <2>5, <3>1
    <3>2. CASE p # q
      BY <2>6, <3>2
    <3> QED
      BY <3>1, <3>2
  <2> QED
    BY <1>1, <2>2, <2>7 DEF ReleaseSlot
<1>2. CASE ReleaseGlobal(c)
  <2>1. /\ Goto(c, "done")
        /\ \/ stage[c] = "leaving"
           \/ stage[c] = "inside" /\ Concurrent[path[c]] = 0
    BY <1>2 DEF ReleaseGlobal
  <2>2. global' = global - 1 /\ UNCHANGED <<slots, path>>
    BY <1>2 DEF ReleaseGlobal
  <2> QED
    BY <2>1, <2>2, GlobalGivenBack DEF Stages
<1> QED
  BY <1>1, <1>2 DEF Release

\* Whatever happens to a call that waits, it leaves with the slots it had.
LEMMA CancelChannels ==
    ASSUME TypeOK, ChannelInv, NEW c \in Calls, Cancel(c) \/ CancelHolding(c)
    PROVE  ChannelInv'
<1>1. CASE Cancel(c)
  BY <1>1, MovedWithout DEF Cancel, limits, Stages
<1>2. CASE CancelHolding(c)
  BY <1>2, GlobalGivenBack DEF CancelHolding, Stages
<1> QED
  BY <1>1, <1>2

\* No channel is touched before acquire.
LEMMA BeforeChannels ==
    ASSUME TypeOK, ChannelInv, NEW c \in Calls, Before(c)
    PROVE  ChannelInv'
<1>1. PICK s \in {"clocked", "pacing", "queued"} : Goto(c, s)
  BY DEF Before, ReadClock, Unpaced, Reserve, Wake
<1>2. stage[c] \in {"new", "clocked", "pacing"} /\ UNCHANGED <<slots, global, path>>
  BY DEF Before, ReadClock, Unpaced, Reserve, Wake, limits
<1> QED
  BY <1>1, <1>2, MovedWithout DEF Stages

\* Every step keeps the account of the channels.
LEMMA NextChannels == TypeOK /\ ChannelInv /\ [Next]_vars => ChannelInv'
<1> SUFFICES ASSUME TypeOK, ChannelInv, [Next]_vars PROVE ChannelInv'
  OBVIOUS
<1>1. CASE UNCHANGED <<slots, global, path, stage>>
  BY <1>1 DEF ChannelInv, SlotsAccounted, WithinCeilings, HoldingGlobal, HoldingSlot
<1>2. CASE Tick \/ Finished \/ UNCHANGED vars
  BY <1>1, <1>2 DEF Tick, Finished, vars, limits
<1> QED
  BY <1>2, BeforeChannels, AcquireChannels, ReleaseChannels, CancelChannels DEF Next

\* The account is right when nobody has been let in yet.
LEMMA InitChannels == Init => ChannelInv
<1> SUFFICES ASSUME Init PROVE ChannelInv
  OBVIOUS
<1>1. HoldingGlobal = {} /\ \A p \in Paths : HoldingSlot(p) = {}
  BY DEF Init, HoldingGlobal, HoldingSlot
<1>2. Cardinality({}) = 0
  BY FS_EmptySet
<1>3. global = 0 /\ \A p \in Paths : slots[p] = 0
  BY DEF Init
<1> QED
  BY <1>1, <1>2, <1>3, LimiterAssumption DEF ChannelInv, SlotsAccounted, WithinCeilings

-----------------------------------------------------------------------------
(* Types.                                                                   *)

\* The first state is typed.
LEMMA InitTypeOK == Init => TypeOK
  BY DEF Init, TypeOK, Stages

\* Every step keeps the types: what is given back had been taken, so a channel is
\* never drained below empty.
LEMMA NextTypeOK == TypeOK /\ ChannelInv /\ [Next]_vars => TypeOK'
<1> SUFFICES ASSUME TypeOK, ChannelInv, [Next]_vars PROVE TypeOK'
  OBVIOUS
<1> USE LimiterAssumption DEF TypeOK, Stages, Goto, limits
<1>1. ASSUME NEW c \in Calls, Before(c)
      PROVE  TypeOK'
  <2>1. CASE ReadClock(c)
    BY <2>1 DEF ReadClock
  <2>2. CASE Unpaced(c)
    BY <2>2 DEF Unpaced
  <2>3. CASE Reserve(c)
    <3>1. PICK p \in Paths : p = path[c]
      OBVIOUS
    <3>2. PICK slot \in Nat : slot = Latest(next[p], timer[c]) /\ slot - timer[c] \in Nat
      BY DEF Latest
    <3>3. /\ at' = [at EXCEPT ![c] = slot]
          /\ next' = [next EXCEPT ![p] = slot + Every[p]]
          /\ timer' = [timer EXCEPT ![c] = IF slot - timer[c] > 0
                                           THEN now + (slot - timer[c]) ELSE 0]
          /\ stage' = [stage EXCEPT ![c] = IF slot - timer[c] > 0
                                           THEN "pacing" ELSE "queued"]
          /\ UNCHANGED <<now, slots, global, path>>
      BY <2>3, <3>1, <3>2 DEF Reserve
    <3>4. slot + Every[p] \in Nat /\ now + (slot - timer[c]) \in Nat
      BY <3>2
    <3> QED
      BY <3>3, <3>4
  <2>4. CASE Wake(c)
    BY <2>4 DEF Wake
  <2> QED
    BY <1>1, <2>1, <2>2, <2>3, <2>4 DEF Before
<1>2. ASSUME NEW c \in Calls, Acquire(c)
      PROVE  TypeOK'
  BY <1>2 DEF Acquire, TakeGlobal, TakeSlot
<1>3. ASSUME NEW c \in Calls, global' = global - 1, c \in HoldingGlobal
      PROVE  global' \in Nat
  <2>1. HoldingGlobal \in SUBSET Calls
    BY DEF HoldingGlobal
  <2> QED
    BY <1>3, <2>1, JoinLeave DEF ChannelInv, SlotsAccounted
<1>4. ASSUME NEW c \in Calls, Release(c)
      PROVE  TypeOK'
  <2>1. CASE ReleaseSlot(c)
    <3>1. HoldingSlot(path[c]) \in SUBSET Calls /\ c \in HoldingSlot(path[c])
      BY <2>1 DEF ReleaseSlot, HoldingSlot
    <3>2. slots[path[c]] > 0
      BY <3>1, JoinLeave DEF ChannelInv, SlotsAccounted
    <3> QED
      BY <2>1, <3>2 DEF ReleaseSlot
  <2>2. CASE ReleaseGlobal(c)
    BY <1>3, <2>2 DEF ReleaseGlobal, HoldingGlobal
  <2> QED
    BY <1>4, <2>1, <2>2 DEF Release
<1>5. ASSUME NEW c \in Calls, Cancel(c) \/ CancelHolding(c)
      PROVE  TypeOK'
  <2>1. CASE Cancel(c)
    BY <2>1 DEF Cancel
  <2>2. CASE CancelHolding(c)
    BY <1>3, <2>2 DEF CancelHolding, HoldingGlobal
  <2> QED
    BY <1>5, <2>1, <2>2
<1>6. CASE Tick \/ Finished \/ UNCHANGED vars
  BY <1>6 DEF Tick, Finished, vars
<1> QED
  BY <1>1, <1>2, <1>4, <1>5, <1>6 DEF Next

-----------------------------------------------------------------------------
(* Pacing.                                                                  *)

\* Nobody has reserved anything in the first state.
LEMMA InitPacing == Init => PacingInv
  BY DEF Init, PacingInv, ReservationsKept, ReservationsApart, Reserved

\* A call that moves on with the reservation it had keeps it, and nobody else is
\* concerned.
LEMMA MovedWithReservation ==
    ASSUME TypeOK, PacingInv, NEW c \in Calls, NEW s \in Stages, Goto(c, s),
           UNCHANGED <<now, next, path, at>>,
           \A d \in Calls \ {c} : timer'[d] = timer[d],
           s # "new",
           s = "clocked" => stage[c] = "new" /\ timer'[c] <= now,
           s = "pacing" => at[c] <= timer'[c],
           s \notin {"pacing", "cancelled"} => at[c] <= now,
           s # "clocked" => Reserved(c) \/ Every[path[c]] = 0
    PROVE  PacingInv'
<1> USE DEF TypeOK, Goto, Reserved
<1>1. \A d \in Calls : Reserved(d)' => Reserved(d)
  BY LimiterAssumption
<1>2. ReservationsApart'
  BY <1>1 DEF PacingInv, ReservationsApart
<1>3. ReservationsKept'
  BY <1>1 DEF PacingInv, ReservationsKept
<1> QED
  BY <1>2, <1>3 DEF PacingInv

\* A new reservation begins where the last one of the path ended, or later, and the
\* call waits until it begins.
LEMMA ReservePacing ==
    ASSUME TypeOK, PacingInv, NEW c \in Calls, Reserve(c)
    PROVE  PacingInv'
<1> USE LimiterAssumption DEF TypeOK
<1>1. PICK p \in Paths : p = path[c]
  OBVIOUS
<1>2. PICK slot \in Nat : /\ slot = Latest(next[p], timer[c])
                          /\ next[p] <= slot /\ timer[c] <= slot
  BY DEF Latest
<1>3. /\ stage[c] = "clocked" /\ Every[p] > 0
      /\ at' = [at EXCEPT ![c] = slot]
      /\ next' = [next EXCEPT ![p] = slot + Every[p]]
      /\ UNCHANGED <<now, path>>
      /\ \A d \in Calls \ {c} : timer'[d] = timer[d] /\ stage'[d] = stage[d]
  BY <1>1, <1>2 DEF Reserve, Goto
<1>4. \/ /\ timer'[c] = now + (slot - timer[c]) /\ stage'[c] = "pacing"
      \/ /\ slot = timer[c] /\ stage'[c] = "queued"
  BY <1>1, <1>2 DEF Reserve, Goto
<1>5. at'[c] = slot /\ next'[p] = slot + Every[p] /\ ~Reserved(c)
  BY <1>3 DEF Reserved
<1>6. ASSUME NEW d \in Calls, d # c
      PROVE  /\ Reserved(d)' <=> Reserved(d)
             /\ at'[d] = at[d] /\ next[path[d]] <= next'[path[d]]
             /\ Reserved(d) /\ path[d] = p => at[d] + Every[p] <= slot
  <2>1. Reserved(d)' <=> Reserved(d)
    BY <1>3, <1>6 DEF Reserved
  <2>2. Reserved(d) => at[d] + Every[path[d]] <= next[path[d]]
    BY DEF PacingInv, ReservationsKept
  <2> QED
    BY <1>2, <1>3, <1>6, <2>1, <2>2
<1>7. ReservationsApart'
  BY <1>1, <1>3, <1>5, <1>6 DEF PacingInv, ReservationsApart
<1>8. ReservationsKept'
  <2>1. ASSUME NEW d \in Calls, d # c
        PROVE  ReservationsKept!(d)'
    BY <1>3, <1>6, <2>1 DEF PacingInv, ReservationsKept
  <2>2. ReservationsKept!(c)'
    <3>1. timer[c] <= now
      BY <1>3 DEF PacingInv, ReservationsKept
    <3> QED
      BY <1>1, <1>2, <1>3, <1>4, <1>5, <3>1
  <2> QED
    BY <2>1, <2>2 DEF ReservationsKept
<1> QED
  BY <1>7, <1>8 DEF PacingInv

\* Every step keeps the reservations apart.
LEMMA NextPacing == TypeOK /\ PacingInv /\ [Next]_vars => PacingInv'
<1> SUFFICES ASSUME TypeOK, PacingInv, [Next]_vars PROVE PacingInv'
  OBVIOUS
<1> USE DEF Stages, limits
<1>1. ASSUME NEW c \in Calls, Before(c)
      PROVE  PacingInv'
  <2>1. CASE ReadClock(c)
    <3>1. at[c] = 0 /\ now \in Nat
      BY <2>1 DEF ReadClock, TypeOK, PacingInv, ReservationsKept
    <3>2. /\ Goto(c, "clocked") /\ stage[c] = "new" /\ UNCHANGED <<now, next, path, at>>
          /\ timer'[c] = now /\ \A d \in Calls \ {c} : timer'[d] = timer[d]
      BY <2>1 DEF ReadClock, TypeOK
    <3> QED
      BY <3>1, <3>2, MovedWithReservation
  <2>2. CASE Unpaced(c)
    <3>1. at[c] = 0 /\ now \in Nat
      BY <2>2 DEF Unpaced, TypeOK, PacingInv, ReservationsKept
    <3>2. Goto(c, "queued") /\ Every[path[c]] = 0 /\ UNCHANGED <<now, next, path, at>>
          /\ \A d \in Calls \ {c} : timer'[d] = timer[d]
      BY <2>2 DEF Unpaced, TypeOK
    <3> QED
      BY <3>1, <3>2, MovedWithReservation
  <2>3. CASE Reserve(c)
    BY <2>3, ReservePacing
  <2>4. CASE Wake(c)
    <3>1. at[c] <= timer[c] /\ timer[c] <= now
      BY <2>4 DEF Wake, PacingInv, ReservationsKept
    <3>2. at[c] <= now
      BY <3>1 DEF TypeOK
    <3>3. Reserved(c) \/ Every[path[c]] = 0
      BY <2>4, LimiterAssumption DEF Wake, Reserved, TypeOK
    <3>4. Goto(c, "queued") /\ UNCHANGED <<now, next, path, at>>
          /\ \A d \in Calls \ {c} : timer'[d] = timer[d]
      BY <2>4 DEF Wake, TypeOK
    <3> QED
      BY <3>2, <3>3, <3>4, MovedWithReservation
  <2> QED
    BY <1>1, <2>1, <2>2, <2>3, <2>4 DEF Before
<1>2. ASSUME NEW c \in Calls, NEW s \in Stages \ {"new", "clocked", "pacing"}, Goto(c, s),
             \/ stage[c] \in {"queued", "global", "inside", "leaving"}
             \/ stage[c] = "pacing" /\ s = "cancelled",
             UNCHANGED <<now, next, path, at>>,
             \A d \in Calls \ {c} : timer'[d] = timer[d]
      PROVE  PacingInv'
  <2>1. Reserved(c) \/ Every[path[c]] = 0
    BY <1>2, LimiterAssumption DEF Reserved, TypeOK
  <2>2. s # "cancelled" => at[c] <= now
    BY <1>2 DEF PacingInv, ReservationsKept
  <2> QED
    BY <1>2, <2>1, <2>2, MovedWithReservation
<1>3. ASSUME NEW c \in Calls,
             Acquire(c) \/ Release(c) \/ Cancel(c) \/ CancelHolding(c)
      PROVE  PacingInv'
  <2>1. PICK s \in Stages \ {"new", "clocked", "pacing"} :
            /\ Goto(c, s)
            /\ \/ stage[c] \in {"queued", "global", "inside", "leaving"}
               \/ stage[c] = "pacing" /\ s = "cancelled"
    BY <1>3 DEF Acquire, TakeGlobal, TakeSlot, Release, ReleaseSlot, ReleaseGlobal,
                Cancel, CancelHolding
  <2>2. /\ UNCHANGED <<now, next, path, at>>
        /\ \A d \in Calls \ {c} : timer'[d] = timer[d]
    BY <1>3 DEF Acquire, TakeGlobal, TakeSlot, Release, ReleaseSlot, ReleaseGlobal,
                Cancel, CancelHolding, TypeOK
  <2> QED
    BY <1>2, <2>1, <2>2
<1>4. CASE Tick
  BY <1>4 DEF Tick, TypeOK, PacingInv, ReservationsKept, ReservationsApart, Reserved
<1>5. CASE Finished \/ UNCHANGED vars
  BY <1>5 DEF Finished, vars, PacingInv, ReservationsKept, ReservationsApart, Reserved
<1> QED
  BY <1>1, <1>3, <1>4, <1>5 DEF Next

-----------------------------------------------------------------------------
(* Theorems about the limiter.                                              *)

\* Every reachable state of the limiter satisfies the whole invariant.
THEOREM Invariance == Spec => []IInv
<1>1. Init => IInv
  BY InitTypeOK, InitChannels, InitPacing DEF IInv
<1>2. IInv /\ [Next]_vars => IInv'
  BY NextTypeOK, NextChannels, NextPacing DEF IInv
<1> QED
  BY <1>1, <1>2, PTL DEF Spec

\* Every variable of the limiter keeps its type; no channel is drained below empty.
THEOREM TypeCorrect == Spec => []TypeOK
<1>1. IInv => TypeOK
  BY DEF IInv
<1> QED
  BY <1>1, Invariance, PTL

\* However calls are cancelled and return, a channel holds exactly the calls that took a
\* slot of it and have not given it back.
THEOREM SlotsNeitherLeakNorForge == Spec => []SlotsAccounted
<1>1. IInv => SlotsAccounted
  BY DEF IInv, ChannelInv
<1> QED
  BY <1>1, Invariance, PTL

\* No more calls are on the way to the server than it takes, and none beyond the ceiling
\* of its path.
THEOREM CeilingsHold == Spec => []WithinCeilings
<1>1. IInv => WithinCeilings
  BY DEF IInv, ChannelInv
<1> QED
  BY <1>1, Invariance, PTL

\* In whatever order the callers read the clock and take the lock, the instants reserved
\* on a path are at least its spacing apart.
THEOREM SpacingKept == Spec => []ReservationsApart
<1>1. IInv => ReservationsApart
  BY DEF IInv, PacingInv
<1> QED
  BY <1>1, Invariance, PTL

\* No call goes on before the instant reserved for it.
THEOREM NobodyIsEarly == Spec => []NeverEarly
<1>1. IInv => NeverEarly
  BY DEF IInv, PacingInv, ReservationsKept, NeverEarly, Paced
<1> QED
  BY <1>1, Invariance, PTL

-----------------------------------------------------------------------------
(* The client implements its parts.                                         *)

\* Nothing a call does with its token and its exchanges, and nothing the servers do,
\* moves the clock.
LEMMA SessionKeepsTime ==
    ASSUME NEW c \in Calls,
           Session!Step(c) \/ Session!Lock(c) \/ Session!Serve(c)
    PROVE  now' = now
<1>1. CASE Session!Step(c)
  BY <1>1 DEF Session!Step, Session!EncodeFails, Session!Begin, Session!TokenStored,
              Session!TokenRefused, Session!Retry, Session!PostReturn, Session!Abandon
<1>2. CASE Session!Lock(c)
  BY <1>2 DEF Session!Lock, Session!CacheHit, Session!Fetch
<1>3. CASE Session!Serve(c)
  BY <1>3 DEF Session!Serve, Session!Issue, Session!RefuseToken, Session!Execute,
              Session!Reject, Session!Deny, Session!Answer
<1> QED
  BY <1>1, <1>2, <1>3

\* Nothing the limiter does to a call moves the clock.
LEMMA LimiterKeepsTime ==
    ASSUME NEW c \in Calls,
           \/ Before(c) \/ Acquire(c) \/ Release(c)
           \/ Cancel(c) \/ CancelHolding(c)
    PROVE  now' = now
<1>1. CASE Before(c)
  BY <1>1 DEF Before, ReadClock, Unpaced, Reserve,
              Wake
<1>2. CASE Acquire(c)
  BY <1>2 DEF Acquire, TakeGlobal, TakeSlot
<1>3. CASE Release(c)
  BY <1>3 DEF Release, ReleaseSlot, ReleaseGlobal
<1>4. CASE Cancel(c) \/ CancelHolding(c)
  BY <1>4 DEF Cancel, CancelHolding
<1> QED
  BY <1>1, <1>2, <1>3, <1>4

\* Every step of the client is a step of its limiter, or leaves the limiter alone.
LEMMA StepOfLimiter ==
    ASSUME [ClientNext]_clientVars
    PROVE  [Next]_vars
<1>1. ASSUME NEW c \in Calls, Admit(c)
      PROVE  Next
  BY <1>1 DEF Admit, Next
<1>2. ASSUME NEW c \in Calls, Talk(c) \/ Serve(c)
      PROVE  UNCHANGED vars
  <2>1. now' = now /\ UNCHANGED limiter
    BY <1>2, SessionKeepsTime DEF Talk, Serve
  <2> QED
    BY <2>1 DEF limiter, vars
<1>3. ASSUME NEW c \in Calls, Leave(c)
      PROVE  Next
  BY <1>3 DEF Leave, Next
<1>4. ASSUME NEW t \in DOMAIN exp, Revoke(t)
      PROVE  UNCHANGED vars
  BY <1>4 DEF Revoke, Session!Revoke, limiter, vars
<1>5. CASE ClientTick
  BY <1>5 DEF ClientTick, Next
<1>6. CASE ClientFinished \/ UNCHANGED clientVars
  BY <1>6 DEF ClientFinished, clientVars, limiter, vars
<1> QED
  BY <1>1, <1>2, <1>3, <1>4, <1>5, <1>6 DEF ClientNext

\* Every step of the client is a step of its session, or leaves the session alone.
LEMMA StepOfSession ==
    ASSUME [ClientNext]_clientVars
    PROVE  [Session!Next]_Session!vars
<1>1. ASSUME NEW c \in Calls, Admit(c) \/ Leave(c)
      PROVE  UNCHANGED Session!vars
  <2>1. now' = now /\ UNCHANGED session
    BY <1>1, LimiterKeepsTime DEF Admit, Leave
  <2> QED
    BY <2>1 DEF session, Session!vars
<1>2. ASSUME NEW c \in Calls, Talk(c) \/ Serve(c)
      PROVE  Session!Next
  BY <1>2 DEF Talk, Serve, Session!Next
<1>3. ASSUME NEW t \in DOMAIN exp, Revoke(t)
      PROVE  Session!Next
  BY <1>3 DEF Revoke, Session!Next
<1>4. CASE ClientTick
  BY <1>4 DEF ClientTick, Session!Next
<1>5. CASE ClientFinished \/ UNCHANGED clientVars
  BY <1>5 DEF ClientFinished, clientVars, session, Session!vars
<1> QED
  BY <1>1, <1>2, <1>3, <1>4, <1>5 DEF ClientNext

\* A Post in the client goes through the limiter exactly as CloudLimiter says.
THEOREM LimiterRefinement == ClientSpec => ImplementsLimiter
<1>1. ClientInit => Init
  BY DEF ClientInit
<1>2. [ClientNext]_clientVars => [Next]_vars
  BY StepOfLimiter
<1> QED
  BY <1>1, <1>2, PTL DEF ClientSpec, ImplementsLimiter, Spec

\* A Post in the client uses the token exactly as CloudToken says.
THEOREM SessionRefinement == ClientSpec => ImplementsSession
<1>1. ClientInit => Session!Init
  BY DEF ClientInit
<1>2. [ClientNext]_clientVars => [Session!Next]_Session!vars
  BY StepOfSession
<1> QED
  BY <1>1, <1>2, PTL DEF ClientSpec, ImplementsSession, Session!Spec

-----------------------------------------------------------------------------
(* What the parts were shown to keep, the client keeps.                     *)

SessionTheorems == INSTANCE CloudTokenProofs WITH Horizon <- LastTick

\* The session inside the client is the session that was proved about.
LEMMA SameSession ==
    /\ Session!Init => SessionTheorems!Init
    /\ [Session!Next]_Session!vars => [SessionTheorems!Next]_SessionTheorems!vars
<1> USE DEF Session!cache, Session!server, Session!history, Session!vars,
            Session!NoToken, Session!NoClaim, Session!NoRequest, Session!NoReply,
            Session!Send, Session!SendOperation, Session!Return, Session!Awaiting,
            SessionTheorems!cache, SessionTheorems!server, SessionTheorems!history,
            SessionTheorems!vars, SessionTheorems!NoToken, SessionTheorems!NoClaim,
            SessionTheorems!NoRequest, SessionTheorems!NoReply, SessionTheorems!Send,
            SessionTheorems!SendOperation, SessionTheorems!Return,
            SessionTheorems!Awaiting
<1>1. Session!Init => SessionTheorems!Init
  BY DEF Session!Init, SessionTheorems!Init
<1>2. ASSUME NEW c \in Calls
      PROVE  Session!Step(c) => SessionTheorems!Step(c)
  BY DEF Session!Step, Session!EncodeFails, Session!Begin, Session!TokenStored,
         Session!tokenExpiry, Session!TokenRefused, Session!Retry, Session!PostReturn,
         Session!Abandon,
         SessionTheorems!Step, SessionTheorems!EncodeFails, SessionTheorems!Begin,
         SessionTheorems!TokenStored, SessionTheorems!tokenExpiry,
         SessionTheorems!TokenRefused, SessionTheorems!Retry,
         SessionTheorems!PostReturn, SessionTheorems!Abandon
<1>3. ASSUME NEW c \in Calls
      PROVE  Session!Lock(c) => SessionTheorems!Lock(c)
  BY DEF Session!Lock, Session!CacheHit, Session!Fetch, Session!Fresh,
         SessionTheorems!Lock, SessionTheorems!CacheHit, SessionTheorems!Fetch,
         SessionTheorems!Fresh
<1>4. ASSUME NEW c \in Calls
      PROVE  Session!Serve(c) => SessionTheorems!Serve(c)
  BY DEF Session!Serve, Session!Issue, Session!RefuseToken, Session!Execute,
         Session!Reject, Session!Deny, Session!Answer, Session!Valid,
         SessionTheorems!Serve, SessionTheorems!Issue, SessionTheorems!RefuseToken,
         SessionTheorems!Execute, SessionTheorems!Reject, SessionTheorems!Deny,
         SessionTheorems!Answer, SessionTheorems!Valid
<1>5. ASSUME NEW t \in DOMAIN exp
      PROVE  Session!Revoke(t) => SessionTheorems!Revoke(t)
  BY DEF Session!Revoke, SessionTheorems!Revoke, Session!Valid, SessionTheorems!Valid
<1>6. /\ Session!Tick => SessionTheorems!Tick
      /\ Session!Finished => SessionTheorems!Finished
  BY DEF Session!Tick, SessionTheorems!Tick, Session!Finished, SessionTheorems!Finished
<1>7. Session!Next => SessionTheorems!Next
  BY <1>2, <1>3, <1>4, <1>5, <1>6 DEF Session!Next, SessionTheorems!Next
<1> QED
  BY <1>1, <1>7

\* Talking concerns the phase of the one call that talks.
LEMMA TalkMovesOne ==
    ASSUME Session!TypeOK, NEW c \in Calls, Session!Step(c) \/ Session!Lock(c)
    PROVE  \A d \in Calls \ {c} : phase'[d] = phase[d]
<1> USE DEF Session!Send, Session!SendOperation, Session!Return
<1>1. phase \in [Calls -> Session!Phases]
  BY DEF Session!TypeOK
<1>2. PICK p : phase' = [phase EXCEPT ![c] = p]
  <2>1. CASE Session!Step(c)
    BY <2>1 DEF Session!Step, Session!EncodeFails, Session!Begin, Session!TokenStored,
                Session!TokenRefused, Session!Retry, Session!PostReturn,
                Session!Abandon
  <2>2. CASE Session!Lock(c)
    BY <2>2 DEF Session!Lock, Session!CacheHit, Session!Fetch
  <2> QED
    BY <2>1, <2>2
<1> QED
  BY <1>1, <1>2

\* The servers do not touch a call's phase.
LEMMA ServeMovesNone ==
    ASSUME NEW c \in Calls, Session!Serve(c)
    PROVE  phase' = phase
  BY DEF Session!Serve, Session!Issue, Session!RefuseToken, Session!Execute,
         Session!Reject, Session!Deny, Session!Answer

\* The limiter moves a call on by itself, to the inside only from a queue, and past it
\* only from there.
LEMMA LimiterMovesOne ==
    ASSUME TypeOK, NEW c \in Calls,
           \/ Before(c) \/ Acquire(c) \/ Release(c)
           \/ Cancel(c) \/ CancelHolding(c)
    PROVE  /\ \A d \in Calls \ {c} : stage'[d] = stage[d]
           /\ stage'[c] = "inside" => stage[c] \in {"queued", "global"}
           /\ stage'[c] \notin {"inside", "leaving", "done"} =>
                  stage[c] \in {"new", "clocked", "pacing", "queued", "global"}
           /\ stage'[c] \in {"leaving", "done"} <=> Release(c)
<1> USE DEF Goto
<1>1. stage \in [Calls -> Stages]
  BY DEF TypeOK
<1>2. Release(c) => stage[c] \in {"inside", "leaving"}
  BY DEF Release, ReleaseSlot, ReleaseGlobal
<1>3. CASE Before(c)
  BY <1>1, <1>2, <1>3 DEF Before, ReadClock, Unpaced,
                          Reserve, Wake
<1>4. CASE Acquire(c)
  BY <1>1, <1>2, <1>4 DEF Acquire, TakeGlobal, TakeSlot
<1>5. CASE Release(c)
  BY <1>1, <1>5 DEF Release, ReleaseSlot, ReleaseGlobal
<1>6. CASE Cancel(c) \/ CancelHolding(c)
  BY <1>1, <1>2, <1>6 DEF Cancel, CancelHolding
<1> QED
  BY <1>3, <1>4, <1>5, <1>6

\* Every step keeps the parts tied together.
LEMMA NextTalksInside ==
    ASSUME TypeOK, Session!TypeOK, TalksInside, [ClientNext]_clientVars
    PROVE  TalksInside'
<1> USE DEF TalksInside
<1>1. ASSUME NEW c \in Calls, Admit(c)
      PROVE  TalksInside'
  <2>1. phase' = phase
    BY <1>1 DEF Admit, session
  <2>2. stage[c] \in {"new", "clocked", "pacing", "queued", "global"} /\ ~Release(c)
    BY <1>1 DEF Admit, Before, ReadClock, Unpaced,
                Reserve, Wake, Acquire, TakeGlobal,
                TakeSlot, Cancel, CancelHolding,
                Release, ReleaseSlot, ReleaseGlobal
  <2> QED
    BY <1>1, <2>1, <2>2, LimiterMovesOne DEF Admit
<1>2. ASSUME NEW c \in Calls, Talk(c)
      PROVE  TalksInside'
  BY <1>2, TalkMovesOne DEF Talk, limiter
<1>3. ASSUME NEW c \in Calls, Leave(c)
      PROVE  TalksInside'
  <2>1. phase' = phase /\ phase[c] = "returned"
    BY <1>3 DEF Leave, session
  <2> QED
    BY <1>3, <2>1, LimiterMovesOne DEF Leave
<1>4. ASSUME NEW c \in Calls, Serve(c)
      PROVE  TalksInside'
  BY <1>4, ServeMovesNone DEF Serve, limiter
<1>5. CASE \E t \in DOMAIN exp : Revoke(t)
  BY <1>5 DEF Revoke, Session!Revoke, limiter
<1>6. CASE ClientTick \/ ClientFinished \/ UNCHANGED clientVars
  BY <1>6 DEF ClientTick, Tick, Session!Tick, ClientFinished, clientVars, limiter, session
<1> QED
  BY <1>1, <1>2, <1>3, <1>4, <1>5, <1>6 DEF ClientNext

-----------------------------------------------------------------------------
(* Theorems about a whole Post.                                             *)

\* The constants of the client are such as the session was proved for.
LEMMA SessionAssumptions ==
    SessionTheorems!TokenAssumption /\ SessionTheorems!HeadroomAssumption
  BY ClientAssumption DEF SessionTheorems!TokenAssumption, SessionTheorems!HeadroomAssumption

\* What is said of the session that was proved about is said of the session in the client.
LEMMA SameInvariant == SessionTheorems!IInv => Session!IInv
<1> USE DEF Session!Token, Session!NoToken, Session!NoClaim, Session!NoRequest, Session!NoReply,
            Session!Awaiting, Session!Presented,
            SessionTheorems!Token, SessionTheorems!NoToken, SessionTheorems!NoClaim,
            SessionTheorems!NoRequest, SessionTheorems!NoReply, SessionTheorems!Awaiting,
            SessionTheorems!Presented
<1>1. SessionTheorems!TypeOK => Session!TypeOK
  BY DEF Session!TypeOK, Session!Phases, Session!Results, Session!Statuses, Session!Request,
         Session!Reply,
         SessionTheorems!TypeOK, SessionTheorems!Phases, SessionTheorems!Results,
         SessionTheorems!Statuses, SessionTheorems!Request, SessionTheorems!Reply
<1>2. SessionTheorems!CallInv => Session!CallInv
  BY DEF Session!CallInv, Session!OneFetch, Session!CallShape, Session!ReplyShape,
         Session!EffectKnown,
         SessionTheorems!CallInv, SessionTheorems!OneFetch, SessionTheorems!CallShape,
         SessionTheorems!ReplyShape, SessionTheorems!EffectKnown
<1>3. SessionTheorems!TokenInv => Session!TokenInv
  BY DEF Session!TokenInv, Session!TokensIssued, Session!RetryUsesNewToken, Session!TimeKept,
         Session!NeverTooOld,
         SessionTheorems!TokenInv, SessionTheorems!TokensIssued,
         SessionTheorems!RetryUsesNewToken, SessionTheorems!TimeKept,
         SessionTheorems!NeverTooOld
<1> QED
  BY <1>1, <1>2, <1>3 DEF Session!IInv, SessionTheorems!IInv

\* Every reachable state of the client satisfies what its parts keep, and a Post talks
\* only between acquire and release.
THEOREM ClientInvariant == ClientSpec => []ClientInv
<1>1. ClientSpec => []IInv
  BY LimiterRefinement, Invariance, PTL DEF ImplementsLimiter
<1>2. ClientSpec => []Session!IInv
  <2>1. ClientSpec => SessionTheorems!Spec
    BY SessionRefinement, SameSession, PTL
       DEF ImplementsSession, Session!Spec, SessionTheorems!Spec
  <2> QED
    BY <2>1, SameInvariant, SessionAssumptions, SessionTheorems!SessionInvariant, PTL
<1>3. ClientInit => TalksInside
  BY DEF ClientInit, Init, Session!Init, TalksInside
<1>4. IInv /\ Session!IInv /\ TalksInside /\ [ClientNext]_clientVars => TalksInside'
  BY NextTalksInside DEF IInv, Session!IInv
<1> QED
  BY <1>1, <1>2, <1>3, <1>4, PTL DEF ClientSpec, ClientInv

\* A caller of the whole client sees what RemoteCalls promises, as one who uses the token alone
\* does: the limiter makes a Post wait and loses, repeats and reorders nothing.
THEOREM PostIsRemote == ClientSpec => Session!ImplementsRemoteCalls
<1>1. ClientSpec => SessionTheorems!Spec
  BY SessionRefinement, SameSession, PTL
     DEF ImplementsSession, Session!Spec, SessionTheorems!Spec
<1>2. /\ Session!Open = SessionTheorems!Open
      /\ Session!Effect = SessionTheorems!Effect
      /\ Session!Outcome = SessionTheorems!Outcome
  BY DEF Session!Open, Session!Effect, Session!Outcome, SessionTheorems!Open,
         SessionTheorems!Effect, SessionTheorems!Outcome
<1>3. SessionTheorems!Remote!Init => Session!Remote!Init
  BY <1>2 DEF SessionTheorems!Remote!Init, Session!Remote!Init
<1>4. /\ Session!Open' = SessionTheorems!Open'
      /\ Session!Effect' = SessionTheorems!Effect'
      /\ Session!Outcome' = SessionTheorems!Outcome'
  BY DEF Session!Open, Session!Effect, Session!Outcome, SessionTheorems!Open,
         SessionTheorems!Effect, SessionTheorems!Outcome
<1>5. [SessionTheorems!Remote!Next]_(SessionTheorems!Remote!vars)
        => [Session!Remote!Next]_(Session!Remote!vars)
  <2>1. SessionTheorems!Remote!vars = Session!Remote!vars
        /\ SessionTheorems!Remote!vars' = Session!Remote!vars'
    BY <1>2, <1>4 DEF SessionTheorems!Remote!vars, Session!Remote!vars
  <2>2. ASSUME NEW c \in Calls, SessionTheorems!Remote!Admit(c)
        PROVE  Session!Remote!Admit(c)
    BY <1>2, <1>4, <2>2 DEF SessionTheorems!Remote!Admit, Session!Remote!Admit
  <2>3. ASSUME NEW c \in Calls, SessionTheorems!Remote!Decline(c)
        PROVE  Session!Remote!Decline(c)
    BY <1>2, <1>4, <2>3 DEF SessionTheorems!Remote!Decline, Session!Remote!Decline
  <2>4. ASSUME NEW c \in Calls, SessionTheorems!Remote!TakeEffect(c)
        PROVE  Session!Remote!TakeEffect(c)
    BY <1>2, <1>4, <2>4 DEF SessionTheorems!Remote!TakeEffect, Session!Remote!TakeEffect
  <2>5. ASSUME NEW c \in Calls, NEW o \in SessionTheorems!Remote!Outcomes,
               SessionTheorems!Remote!Settle(c, o)
        PROVE  o \in Session!Remote!Outcomes /\ Session!Remote!Settle(c, o)
    BY <1>2, <1>4, <2>5 DEF SessionTheorems!Remote!Settle, Session!Remote!Settle,
         SessionTheorems!Remote!Outcomes, Session!Remote!Outcomes,
         SessionTheorems!Remote!Effectless, Session!Remote!Effectless
  <2> QED
    BY <2>1, <2>2, <2>3, <2>4, <2>5 DEF SessionTheorems!Remote!Next, Session!Remote!Next
<1> QED
  BY <1>1, <1>3, <1>5, SessionAssumptions, SessionTheorems!Refinement, PTL
     DEF SessionTheorems!ImplementsRemoteCalls, Session!ImplementsRemoteCalls,
         SessionTheorems!Remote!Spec, Session!Remote!Spec

\* From the token request to the answer of its retry a Post is within the ceilings of its
\* path and of the server, and past its reserved instant.
THEOREM TalkIsWithinLimits == ClientSpec => []TalksWithinLimits
<1>1. ASSUME ClientInv
      PROVE  TalksWithinLimits
  <2>t. /\ stage \in [Calls -> Stages] /\ path \in [Calls -> Paths]
        /\ global \in Nat /\ slots \in [Paths -> Nat]
    BY <1>1 DEF ClientInv, IInv, TypeOK
  <2>1. \A p \in Paths : \A c \in Talking(p) : stage[c] = "inside"
    BY <1>1, <2>t DEF ClientInv, TalksInside, Talking, Stages
  <2>2. ASSUME NEW S \in SUBSET Calls, NEW T \in SUBSET S
        PROVE  /\ Cardinality(T) \in Nat /\ Cardinality(S) \in Nat
               /\ Cardinality(T) <= Cardinality(S)
    BY LimiterAssumption, FS_Subset, FS_CardinalityType
  <2>3. ASSUME NEW p \in Paths, Concurrent[p] > 0
        PROVE  Cardinality(Talking(p)) <= Concurrent[p]
    <3>1. Talking(p) \in SUBSET HoldingSlot(p)
      BY <2>1, <2>3 DEF Talking, HoldingSlot
    <3>2. HoldingSlot(p) \in SUBSET Calls
      BY DEF HoldingSlot
    <3>3. /\ slots[p] = Cardinality(HoldingSlot(p))
          /\ slots[p] <= Concurrent[p]
      BY <1>1, <2>3
         DEF ClientInv, IInv, ChannelInv,
             SlotsAccounted, WithinCeilings
    <3> QED
      BY <2>2, <3>1, <3>2, <3>3, LimiterAssumption
  <2>4. ASSUME NEW p \in Paths, NEW c \in Talking(p)
        PROVE  at[c] <= now
    BY <1>1, <2>1 DEF ClientInv, IInv, PacingInv,
                      ReservationsKept, Talking
  <2>5. Cardinality(UNION {Talking(p) : p \in Paths}) <= GlobalConcurrent
    <3> DEFINE all == UNION {Talking(p) : p \in Paths}
    <3>1. all \in SUBSET HoldingGlobal
      BY <2>1 DEF Talking, HoldingGlobal
    <3>2. HoldingGlobal \in SUBSET Calls
      BY DEF HoldingGlobal
    <3>3. /\ global = Cardinality(HoldingGlobal)
          /\ global <= GlobalConcurrent
      BY <1>1
         DEF ClientInv, IInv, ChannelInv,
             SlotsAccounted, WithinCeilings
    <3> HIDE DEF all
    <3>4. Cardinality(all) <= GlobalConcurrent
      BY <2>2, <3>1, <3>2, <3>3, LimiterAssumption
    <3> QED
      BY <3>4 DEF all
  <2> QED
    BY <2>3, <2>4, <2>5 DEF TalksWithinLimits
<1> QED
  BY <1>1, ClientInvariant, PTL

\* When every Post is over all channels are empty and mu is free, whatever was
\* cancelled, refused or timed out on the way.
THEOREM ClientIsAsNew == ClientSpec => []NothingLeftBehind
<1>1. ASSUME ClientInv
      PROVE  NothingLeftBehind
  <2> SUFFICES ASSUME \A c \in Calls : stage[c] \in {"done", "cancelled"}
               PROVE  /\ global = 0 /\ mu = NoCall
                      /\ \A p \in Paths : slots[p] = 0
    BY DEF NothingLeftBehind
  <2>1. HoldingGlobal = {}
    BY DEF HoldingGlobal
  <2>2. \A p \in Paths : HoldingSlot(p) = {}
    BY DEF HoldingSlot
  <2>3. global = 0 /\ \A p \in Paths : slots[p] = 0
    <3>1. Cardinality({}) = 0
      BY FS_EmptySet
    <3> QED
      BY <1>1, <2>1, <2>2, <3>1
         DEF ClientInv, IInv, ChannelInv,
             SlotsAccounted
  <2>4. \A c \in Calls : phase[c] \in {"idle", "returned"}
    BY <1>1 DEF ClientInv, TalksInside
  <2>5. mu = NoCall
    BY <1>1, <2>4 DEF ClientInv, Session!IInv, Session!TypeOK, Session!CallInv,
                      Session!OneFetch
  <2> QED
    BY <2>3, <2>5
<1> QED
  BY <1>1, ClientInvariant, PTL

=============================================================================
