----------------------------- MODULE CloudLimiter -----------------------------
(***************************************************************************)
(* The limiter of package iikocloud/rest: what a Post goes through before   *)
(* and after its exchange.  reserve gives a call of a paced path the next    *)
(* free instant of that path and the call sleeps until then; acquire takes a *)
(* slot of the global channel and then one of the path's channel; the func   *)
(* acquire returned gives both back.                                        *)
(*                                                                         *)
(* Callers read the clock before they reserve, may be cancelled wherever     *)
(* they wait, and keep what they reserved when they are.  Time is in units   *)
(* of the documented spacings; no variable but now changes with it.         *)
(***************************************************************************)
EXTENDS Naturals, FiniteSets

CONSTANTS Calls,             \* the invocations of Post that will be made
          Paths,             \* the paths they post to
          Every,             \* documented[path].Every, 0 for a path not paced
          Concurrent,        \* documented[path].Concurrent, 0 for unstated
          GlobalConcurrent,  \* globalConcurrent, the size of limiter.global
          Horizon            \* bound: time passes it only for calls that sleep

ASSUME LimiterAssumption ==
    /\ IsFiniteSet(Calls)
    /\ Every \in [Paths -> Nat]
    /\ Concurrent \in [Paths -> Nat]
    /\ GlobalConcurrent \in Nat \ {0}
    /\ Horizon \in Nat

VARIABLES
    now,      \* what Client.now returns
    next,     \* limiter.next: where the reservations of a path end
    slots,    \* how full the channel of a path is
    global,   \* how full the global channel is
    path,     \* the path call c posts to
    stage,    \* where call c is
    timer,    \* its clock reading, then the end of its sleep; 0 when neither is used
    at        \* the instant reserved for it

limits == <<next, slots, global>>
vars   == <<now, next, slots, global, path, stage, timer, at>>

Stages == {"new", "clocked", "pacing", "queued", "global", "inside", "leaving",
           "done", "cancelled"}

Init ==
    /\ now = 0
    /\ next = [p \in Paths |-> 0]
    /\ slots = [p \in Paths |-> 0]
    /\ global = 0
    /\ path \in [Calls -> Paths]
    /\ stage = [c \in Calls |-> "new"]
    /\ timer = [c \in Calls |-> 0]
    /\ at = [c \in Calls |-> 0]

Goto(c, s) == stage' = [stage EXCEPT ![c] = s]

-----------------------------------------------------------------------------
(* Pacing: limiter.reserve and Client.sleep.                                *)

\* Post evaluates c.now() before reserve takes the lock.
ReadClock(c) ==
    /\ stage[c] = "new"
    /\ Goto(c, "clocked")
    /\ timer' = [timer EXCEPT ![c] = now]
    /\ UNCHANGED <<now, limits, path, at>>

\* A path without a documented spacing is neither recorded nor delayed.
Unpaced(c) ==
    /\ stage[c] = "clocked"
    /\ Every[path[c]] = 0
    /\ Goto(c, "queued")
    /\ timer' = [timer EXCEPT ![c] = 0]
    /\ UNCHANGED <<now, limits, path, at>>

Latest(s, t) == IF s < t THEN t ELSE s

\* Mutation: the spacing is counted from the clock, not from the last reservation.
ReserveFromNow(c) ==
    LET p == path[c] IN
    /\ stage[c] = "clocked"
    /\ Every[p] > 0
    /\ at' = [at EXCEPT ![c] = timer[c]]
    /\ next' = [next EXCEPT ![p] = timer[c] + Every[p]]
    /\ timer' = [timer EXCEPT ![c] = 0]
    /\ Goto(c, "queued")
    /\ UNCHANGED <<now, slots, global, path>>

\* The clock reading may be old by now: the wait starts when the sleep does.
Reserve(c) ==
    LET p    == path[c]
        slot == Latest(next[p], timer[c])
        wait == slot - timer[c]
    IN  /\ stage[c] = "clocked"
        /\ Every[p] > 0
        /\ at' = [at EXCEPT ![c] = slot]
        /\ next' = [next EXCEPT ![p] = slot + Every[p]]
        /\ timer' = [timer EXCEPT ![c] = IF wait > 0 THEN now + wait ELSE 0]
        /\ Goto(c, IF wait > 0 THEN "pacing" ELSE "queued")
        /\ UNCHANGED <<now, slots, global, path>>

\* Mutation: Post ignores the error of a sleep that was cut short.
WakeEarly(c) ==
    /\ stage[c] = "pacing"
    /\ Goto(c, "queued")
    /\ UNCHANGED <<now, limits, path, timer, at>>

Wake(c) ==
    /\ stage[c] = "pacing"
    /\ timer[c] <= now
    /\ Goto(c, "queued")
    /\ timer' = [timer EXCEPT ![c] = 0]
    /\ UNCHANGED <<now, limits, path, at>>

-----------------------------------------------------------------------------
(* Concurrency: limiter.acquire and the func it returns.                    *)

TakeGlobal(c) ==
    /\ stage[c] = "queued"
    /\ global < GlobalConcurrent
    /\ global' = global + 1
    /\ Goto(c, IF Concurrent[path[c]] = 0 THEN "inside" ELSE "global")
    /\ UNCHANGED <<now, next, slots, path, timer, at>>

\* The caller sits on its global slot while it waits for the path's.
TakeSlot(c) ==
    /\ stage[c] = "global"
    /\ slots[path[c]] < Concurrent[path[c]]
    /\ slots' = [slots EXCEPT ![path[c]] = @ + 1]
    /\ Goto(c, "inside")
    /\ UNCHANGED <<now, next, global, path, timer, at>>

ReleaseSlot(c) ==
    /\ stage[c] = "inside"
    /\ Concurrent[path[c]] > 0
    /\ slots' = [slots EXCEPT ![path[c]] = @ - 1]
    /\ Goto(c, "leaving")
    /\ UNCHANGED <<now, next, global, path, timer, at>>

\* Mutation: only the path's slot is given back.
ReleaseGlobalNot(c) ==
    /\ \/ stage[c] = "leaving"
       \/ stage[c] = "inside" /\ Concurrent[path[c]] = 0
    /\ Goto(c, "done")
    /\ UNCHANGED <<now, limits, path, timer, at>>

ReleaseGlobal(c) ==
    /\ \/ stage[c] = "leaving"
       \/ stage[c] = "inside" /\ Concurrent[path[c]] = 0
    /\ global' = global - 1
    /\ Goto(c, "done")
    /\ UNCHANGED <<now, next, slots, path, timer, at>>

-----------------------------------------------------------------------------
(* The caller's context ends while it waits.                                *)

\* In the sleep or before the global channel: the reservation is not taken back.
Cancel(c) ==
    /\ stage[c] \in {"pacing", "queued"}
    /\ Goto(c, "cancelled")
    /\ timer' = [timer EXCEPT ![c] = 0]
    /\ UNCHANGED <<now, limits, path, at>>

\* Mutation: the global slot taken first is not given back.
CancelHoldingLeaks(c) ==
    /\ stage[c] = "global"
    /\ Goto(c, "cancelled")
    /\ UNCHANGED <<now, limits, path, timer, at>>

\* Before the path's channel.
CancelHolding(c) ==
    /\ stage[c] = "global"
    /\ global' = global - 1
    /\ Goto(c, "cancelled")
    /\ UNCHANGED <<now, next, slots, path, timer, at>>

-----------------------------------------------------------------------------
\* Time goes on until Horizon, and after it while somebody sleeps.
Tick ==
    /\ now < Horizon \/ \E c \in Calls : stage[c] = "pacing" /\ now < timer[c]
    /\ now' = now + 1
    /\ UNCHANGED <<limits, path, stage, timer, at>>

Before(c)  == ReadClock(c) \/ Unpaced(c) \/ Reserve(c) \/ Wake(c)
Acquire(c) == TakeGlobal(c) \/ TakeSlot(c)
Release(c) == ReleaseSlot(c) \/ ReleaseGlobal(c)

Finished ==
    /\ \A c \in Calls : stage[c] \in {"done", "cancelled"}
    /\ UNCHANGED vars

Next ==
    \/ \E c \in Calls : \/ Before(c) \/ Acquire(c) \/ Release(c)
                        \/ Cancel(c) \/ CancelHolding(c)
    \/ Tick
    \/ Finished

Spec == Init /\ [][Next]_vars

(***************************************************************************)
(* Goroutines run, timers fire, time passes and a Post ends (its exchanges   *)
(* have a timeout).  A Go channel serves blocked senders in order, so one    *)
(* that waits is not passed over for ever.  Nobody has to be cancelled.     *)
(***************************************************************************)
Fairness ==
    /\ WF_vars(Tick)
    /\ \A c \in Calls : /\ WF_vars(Before(c)) /\ WF_vars(Release(c))
                        /\ SF_vars(TakeGlobal(c)) /\ SF_vars(TakeSlot(c))

FairSpec == Spec /\ Fairness

-----------------------------------------------------------------------------
(* Properties.                                                              *)

\* Every variable has its type; no channel is drained below empty.
TypeOK ==
    /\ now \in Nat
    /\ next \in [Paths -> Nat]
    /\ slots \in [Paths -> Nat]
    /\ global \in Nat
    /\ path \in [Calls -> Paths]
    /\ stage \in [Calls -> Stages]
    /\ timer \in [Calls -> Nat]
    /\ at \in [Calls -> Nat]

HoldingGlobal  == {c \in Calls : stage[c] \in {"global", "inside", "leaving"}}
HoldingSlot(p) == {c \in Calls : /\ path[c] = p /\ Concurrent[p] > 0
                                 /\ stage[c] = "inside"}

\* A channel holds exactly the calls that took a slot and have not given it back:
\* no cancellation or return, at any point of acquire, leaks or forges one.
SlotsAccounted ==
    /\ global = Cardinality(HoldingGlobal)
    /\ \A p \in Paths : slots[p] = Cardinality(HoldingSlot(p))

Reserved(c) == /\ stage[c] \notin {"new", "clocked"}
               /\ Every[path[c]] > 0

\* The instants reserved on one path are at least Every apart, in whatever order
\* the callers read the clock and took the lock.
ReservationsApart ==
    \A c, d \in Calls :
        Reserved(c) /\ Reserved(d) /\ c # d /\ path[c] = path[d] =>
            \/ at[c] + Every[path[c]] <= at[d]
            \/ at[d] + Every[path[c]] <= at[c]

Paced(p) == {c \in Calls : path[c] = p
                           /\ stage[c] \notin {"new", "clocked", "pacing", "cancelled"}}

\* A call is let through no earlier than the instant reserved for it.
NeverEarly == \A p \in Paths : \A c \in Paced(p) : at[c] <= now

\* A call that has entered Post leaves it though others fill the channels ahead of
\* it and cancelled ones leave their reservations behind: no slot is waited for in
\* a circle.
EveryCallServed ==
    \A c \in Calls : stage[c] = "clocked" ~> stage[c] \in {"done", "cancelled"}

-----------------------------------------------------------------------------
(* The inductive invariant behind the safety properties.                    *)

\* No channel is filled above its size.
WithinCeilings ==
    /\ global <= GlobalConcurrent
    /\ \A p \in Paths : Concurrent[p] > 0 => slots[p] <= Concurrent[p]

\* What a call has reserved lies before the end of its path's reservations, and it is
\* past the instant reserved for it, or sleeps until then; before it reserves, its
\* reading of the clock is not in the future.
ReservationsKept ==
    \A c \in Calls :
        /\ stage[c] \in {"new", "clocked"} => at[c] = 0
        /\ stage[c] = "clocked" => timer[c] <= now
        /\ stage[c] = "pacing" => at[c] <= timer[c]
        /\ stage[c] \notin {"pacing", "cancelled"} => at[c] <= now
        /\ Reserved(c) => at[c] + Every[path[c]] <= next[path[c]]

\* The whole: the channels and the reservations are independent of each other.
ChannelInv == SlotsAccounted /\ WithinCeilings
PacingInv  == ReservationsKept /\ ReservationsApart
IInv       == TypeOK /\ ChannelInv /\ PacingInv
=============================================================================
