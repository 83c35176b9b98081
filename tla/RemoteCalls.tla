------------------------------ MODULE RemoteCalls ------------------------------
(***************************************************************************)
(* What both clients, rest.Client of iikoserver and rest.Client of           *)
(* iikocloud, promise their callers, whatever the network and the servers     *)
(* do: a call is answered once, its operation takes effect at most once, and  *)
(* the answer says as much about the effect as can be known:                 *)
(*                                                                         *)
(*   ok                                  it took effect                    *)
(*   unauthorized, limited, authError,                                     *)
(*   noBody                              it did not, and will not          *)
(*   error                               unknown, but it will not any more *)
(*   lost                                unknown, and it still may         *)
(*   closed                              the call was a Close              *)
(*                                                                         *)
(* How many calls are served at once is left open: one by iikoServer's        *)
(* client (SerialCalls), several by iikoCloud's (CloudToken).                *)
(***************************************************************************)
EXTENDS Naturals

CONSTANT Calls

VARIABLES
    open,      \* the calls being served
    effect,    \* the calls whose operation has been carried out
    outcome    \* what call c was answered, "none" before that

vars == <<open, effect, outcome>>

Effectless == {"unauthorized", "limited", "authError", "noBody", "closed"}
Outcomes   == {"ok", "error", "lost"} \cup Effectless

Init ==
    /\ open = {}
    /\ effect = {}
    /\ outcome = [c \in Calls |-> "none"]

Admit(c) ==
    /\ c \notin open
    /\ outcome[c] = "none"
    /\ open' = open \cup {c}
    /\ UNCHANGED <<effect, outcome>>

\* A request that cannot be encoded is answered before it is served.
Decline(c) ==
    /\ c \notin open /\ c \notin effect
    /\ outcome[c] = "none"
    /\ outcome' = [outcome EXCEPT ![c] = "noBody"]
    /\ UNCHANGED <<open, effect>>

\* Only while the call is served, or after the client lost sight of it.
TakeEffect(c) ==
    /\ c \notin effect
    /\ c \in open \/ outcome[c] = "lost"
    /\ effect' = effect \cup {c}
    /\ UNCHANGED <<open, outcome>>

Settle(c, o) ==
    /\ c \in open
    /\ o = "ok" => c \in effect
    /\ o \in Effectless => c \notin effect
    /\ open' = open \ {c}
    /\ outcome' = [outcome EXCEPT ![c] = o]
    /\ UNCHANGED effect

Next == \E c \in Calls : \/ Admit(c) \/ Decline(c) \/ TakeEffect(c)
                         \/ \E o \in Outcomes : Settle(c, o)

Spec == Init /\ [][Next]_vars
=============================================================================
