----------------------------- MODULE SerialCalls -----------------------------
(***************************************************************************)
(* What rest.Client of package iikoserver/rest promises its callers,        *)
(* whatever the network and the server do: calls are served one at a time,  *)
(* each is answered once, the operation of a Do takes effect at most once,  *)
(* and the answer says as much about the effect as can be known:            *)
(*                                                                         *)
(*   ok            it took effect                                          *)
(*   unauthorized  it did not, and will not                                *)
(*   noBody        it did not, and will not                                *)
(*   error         unknown, but it will not any more                       *)
(*   lost          unknown, and it still may                               *)
(*   closed        the call was a Close                                    *)
(***************************************************************************)
EXTENDS Naturals

CONSTANTS Calls, NoCall

VARIABLES
    serving,   \* the call being served, or NoCall
    effect,    \* the calls whose operation has been carried out
    outcome    \* what call c was answered, "none" before that

vars == <<serving, effect, outcome>>

Outcomes == {"ok", "unauthorized", "noBody", "error", "lost", "closed"}

Init ==
    /\ serving = NoCall
    /\ effect = {}
    /\ outcome = [c \in Calls |-> "none"]

Admit(c) ==
    /\ serving = NoCall
    /\ outcome[c] = "none"
    /\ serving' = c
    /\ UNCHANGED <<effect, outcome>>

\* Only while the call is served, or after the client lost sight of it.
TakeEffect(c) ==
    /\ c \notin effect
    /\ serving = c \/ outcome[c] = "lost"
    /\ effect' = effect \cup {c}
    /\ UNCHANGED <<serving, outcome>>

Settle(c, o) ==
    /\ serving = c
    /\ o = "ok" => c \in effect
    /\ o \in {"unauthorized", "noBody", "closed"} => c \notin effect
    /\ serving' = NoCall
    /\ outcome' = [outcome EXCEPT ![c] = o]
    /\ UNCHANGED effect

Next == \E c \in Calls : \/ Admit(c)
                         \/ TakeEffect(c)
                         \/ \E o \in Outcomes : Settle(c, o)

Spec == Init /\ [][Next]_vars

-----------------------------------------------------------------------------
Open == IF serving = NoCall THEN {} ELSE {serving}

Remote == INSTANCE RemoteCalls WITH open <- Open

\* One call at a time is one way of serving calls.
ImplementsRemoteCalls == Remote!Spec
=============================================================================
