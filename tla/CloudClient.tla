------------------------------ MODULE CloudClient ------------------------------
(***************************************************************************)
(* A whole iikocloud rest.Client: every Post goes through the limiter of     *)
(* CloudLimiter, then through the token and the exchanges of CloudToken, and *)
(* gives its slots back.  The two parts share the clock and the calls; a     *)
(* Post that waits for Client.mu or for the servers does so on its slots.    *)
(***************************************************************************)
EXTENDS CloudLimiter, Sequences

CONSTANTS NoCall, Timeout, RefreshWindow, Hour, Lifetimes,
          LastTick      \* bound: the clock of the session never passes this

\* What the session assumes of its constants, beside what the limiter does.
ASSUME ClientAssumption ==
    /\ NoCall \notin Calls
    /\ Timeout \in Nat /\ RefreshWindow \in Nat /\ Hour \in Nat
    /\ Lifetimes \subseteq Nat
    /\ 2 * Timeout <= RefreshWindow /\ 2 * Timeout < Hour
    /\ \A life \in Lifetimes : 2 * Timeout < life
    /\ LastTick \in Nat

VARIABLES mu, token, expires, phase, deadline, result, wire, reply, exp, revoked,
          runs, tried

limiter == <<next, slots, global, path, stage, timer, at>>
session == <<mu, token, expires, phase, deadline, result, wire, reply, exp, revoked,
             runs, tried>>
clientVars == <<now, limiter, session>>

Session == INSTANCE CloudToken WITH Horizon <- LastTick

ClientInit == Init /\ Session!Init

-----------------------------------------------------------------------------
(* Client.Post.                                                             *)

\* Mutation: Post goes on when acquire reports that the context has ended.
AdmitAnyway(c) ==
    /\ \/ Before(c) \/ Acquire(c)
       \/ /\ stage[c] \in {"queued", "global"}
          /\ stage' = [stage EXCEPT ![c] = "inside"]
          /\ UNCHANGED <<now, next, slots, global, path, timer, at>>
    /\ UNCHANGED session

\* reserve, sleep and acquire; a call that is cancelled here has sent nothing.
Admit(c) ==
    /\ Before(c) \/ Acquire(c) \/ Cancel(c) \/ CancelHolding(c)
    /\ UNCHANGED session

\* Mutation: a Post that was answered by a 429 starts over.
TalkAgain(c) ==
    /\ stage[c] = "inside"
    /\ \/ Session!Step(c) \/ Session!Lock(c)
       \/ /\ result[c] = "limited"
          /\ phase' = [phase EXCEPT ![c] = "idle"]
          /\ result' = [result EXCEPT ![c] = "none"]
          /\ UNCHANGED <<now, mu, token, expires, deadline, wire, reply, exp, revoked,
                         runs, tried>>
    /\ UNCHANGED limiter

\* From the slots to the result.
Talk(c) ==
    /\ stage[c] = "inside"
    /\ Session!Step(c) \/ Session!Lock(c)
    /\ UNCHANGED limiter

\* Mutation: release is called and not deferred.
LeaveEarly(c) ==
    /\ Release(c)
    /\ UNCHANGED session

\* The deferred release runs when the result is known, on every way out.
Leave(c) ==
    /\ phase[c] = "returned"
    /\ Release(c)
    /\ UNCHANGED session

Serve(c) == Session!Serve(c) /\ UNCHANGED limiter

Revoke(t) == Session!Revoke(t) /\ UNCHANGED limiter

ClientTick == Tick /\ Session!Tick

ClientFinished ==
    /\ \A c \in Calls : stage[c] \in {"done", "cancelled"}
    /\ UNCHANGED clientVars

ClientNext ==
    \/ \E c \in Calls : Admit(c) \/ Talk(c) \/ Leave(c) \/ Serve(c)
    \/ \E t \in DOMAIN exp : Revoke(t)
    \/ ClientTick
    \/ ClientFinished

ClientSpec == ClientInit /\ [][ClientNext]_clientVars

(***************************************************************************)
(* As in CloudLimiter; in addition an exchange ends by its timeout and       *)
(* sync.Mutex does not starve a waiter.  Nothing is assumed of the servers.  *)
(***************************************************************************)
ClientFairness ==
    /\ WF_clientVars(ClientTick)
    /\ \A c \in Calls :
         /\ WF_clientVars(\/ Before(c) /\ UNCHANGED session
                          \/ stage[c] = "inside" /\ Session!Step(c) /\ UNCHANGED limiter
                          \/ Leave(c))
         /\ SF_clientVars(\/ Acquire(c) /\ UNCHANGED session
                          \/ stage[c] = "inside" /\ Session!Lock(c) /\ UNCHANGED limiter)

FairClientSpec == ClientSpec /\ ClientFairness

-----------------------------------------------------------------------------
(* Properties.                                                              *)

\* Every variable has its type.
ClientTypeOK == TypeOK /\ Session!TypeOK

\* Composed, each part still is what it is on its own: what CloudLimiter and
\* CloudToken show of every call holds of a whole Post.
ImplementsLimiter == Spec
ImplementsSession == Session!Spec

Talking(p) == {c \in Calls : path[c] = p /\ phase[c] \notin {"idle", "returned"}}

\* From the token request to the answer of the retry a Post is within the ceilings of
\* its path and of the server, and none of it happens before its reserved instant.
TalksWithinLimits ==
    /\ \A p \in Paths : /\ Concurrent[p] > 0 => Cardinality(Talking(p)) <= Concurrent[p]
                        /\ \A c \in Talking(p) : at[c] <= now
    /\ Cardinality(UNION {Talking(p) : p \in Paths}) <= GlobalConcurrent

\* When every Post is over the client is as new: all channels are empty and mu is
\* free, whatever was cancelled, refused or timed out on the way.
NothingLeftBehind ==
    (\A c \in Calls : stage[c] \in {"done", "cancelled"}) =>
        /\ global = 0 /\ mu = NoCall
        /\ \A p \in Paths : slots[p] = 0

\* Every Post that is made ends: those that hold slots wait for mu and those that
\* hold mu for the servers, but never the other way round.
EveryPostEnds ==
    \A c \in Calls : stage[c] = "clocked" ~> stage[c] \in {"done", "cancelled"}

\* What ties the two parts together: a Post has not begun to talk before it is let in,
\* and has its result before it gives anything back.
TalksInside ==
    \A c \in Calls :
        /\ stage[c] \in {"new", "clocked", "pacing", "queued", "global", "cancelled"} =>
               phase[c] = "idle"
        /\ stage[c] \in {"leaving", "done"} => phase[c] = "returned"

ClientInv == IInv /\ Session!IInv /\ TalksInside
=============================================================================
