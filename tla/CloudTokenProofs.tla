--------------------------- MODULE CloudTokenProofs ---------------------------
(***************************************************************************)
(* What CloudToken promises for every set of calls and every choice of       *)
(* timeout, window and lifetimes that HeadroomAssumption allows.  IInv is    *)
(* proved in two layers: CallInv needs only the types; TokenInv, with the    *)
(* order of the tokens and the arithmetic of the deadlines, needs CallInv.   *)
(***************************************************************************)
EXTENDS CloudToken, FiniteSetTheorems, TLAPS

USE DEF TokenAssumption, HeadroomAssumption, Token, NoToken, NoClaim, NoRequest, NoReply,
        Awaiting, Phases, Results, Statuses, cache, server, history

-----------------------------------------------------------------------------
(* Types.                                                                   *)

\* Requests and replies are records of their types.
LEMMA RequestType ==
    ASSUME NEW k \in {"none", "token", "call"}, NEW t \in Nat
    PROVE  [kind |-> k, tok |-> t] \in Request
  BY DEF Request

\* A reply of these parts is a record of its type.
LEMMA ReplyType ==
    ASSUME NEW s \in Statuses, NEW t \in Nat, NEW e \in Nat
    PROVE  [status |-> s, tok |-> t, claim |-> e] \in Reply
  BY DEF Reply

\* The first state is typed.
LEMMA InitTypeOK == Init => TypeOK
  BY DEF Init, TypeOK, Request, Reply

\* The goroutine of a call keeps the types.
LEMMA CallTypeOK ==
    ASSUME TypeOK, NEW c \in Calls, Step(c) \/ Lock(c)
    PROVE  TypeOK'
<1> USE DEF TypeOK
<1>0. NoRequest \in Request /\ NoReply \in Reply
  BY DEF Request, Reply
<1>r. reply[c] \in Reply /\ reply[c].tok \in Nat /\ reply[c].claim \in Nat
      /\ reply[c].status \in Statuses
  BY DEF Reply
<1>t. Timeout \in Nat /\ Hour \in Nat
  BY TokenAssumption
<1>s. ASSUME NEW k \in {"token", "call"}, NEW t \in Nat, NEW p \in Phases, Send(c, k, t, p)
      PROVE  /\ wire' \in [Calls -> Request] /\ reply' \in [Calls -> Reply]
             /\ deadline' \in [Calls -> Nat] /\ phase' \in [Calls -> Phases]
  BY <1>0, <1>s, <1>t, RequestType DEF Send
<1>o. ASSUME NEW t \in Nat, NEW p \in Phases, SendOperation(c, t, p)
      PROVE  /\ wire' \in [Calls -> Request] /\ reply' \in [Calls -> Reply]
             /\ deadline' \in [Calls -> Nat] /\ phase' \in [Calls -> Phases]
             /\ tried' \in [Calls -> Seq(Nat)]
  <2>1. Append(tried[c], t) \in Seq(Nat)
    OBVIOUS
  <2> QED
    BY <1>o, <1>s, <2>1 DEF SendOperation
<1>b. ASSUME NEW r \in Results, Return(c, r)
      PROVE  /\ phase' \in [Calls -> Phases] /\ result' \in [Calls -> Results]
             /\ reply' \in [Calls -> Reply] /\ deadline' \in [Calls -> Nat]
  BY <1>0, <1>b DEF Return
<1>1. CASE EncodeFails(c)
  BY <1>1, <1>b DEF EncodeFails
<1>2. CASE Begin(c)
  BY <1>2 DEF Begin
<1>3. CASE TokenStored(c)
  <2>1. token' \in Nat /\ expires' \in Nat
    BY <1>3, <1>r, <1>t DEF TokenStored, tokenExpiry
  <2>2. PICK p \in Phases : SendOperation(c, token', p)
    BY <1>3 DEF TokenStored
  <2> QED
    BY <1>3, <1>o, <2>1, <2>2 DEF TokenStored
<1>4. CASE TokenRefused(c)
  BY <1>4, <1>b DEF TokenRefused
<1>5. CASE Retry(c)
  BY <1>5, <1>0 DEF Retry
<1>6. CASE PostReturn(c)
  <2>1. PICK r \in Results : Return(c, r)
    BY <1>6, <1>r DEF PostReturn
  <2> QED
    BY <1>6, <1>b, <2>1 DEF PostReturn
<1>7. CASE Abandon(c)
  BY <1>7, <1>b, <1>0 DEF Abandon
<1>8. CASE CacheHit(c)
  BY <1>8, <1>o DEF CacheHit
<1>9. CASE Fetch(c)
  BY <1>9, <1>s DEF Fetch
<1> QED
  BY <1>1, <1>2, <1>3, <1>4, <1>5, <1>6, <1>7, <1>8, <1>9 DEF Step, Lock

\* So do the servers.
LEMMA ServeTypeOK ==
    ASSUME TypeOK, NEW c \in Calls, Serve(c)
    PROVE  TypeOK'
<1> USE DEF TypeOK
<1>0. NoRequest \in Request
  BY DEF Request
<1>t. Hour \in Nat /\ Lifetimes \subseteq Nat
  BY TokenAssumption
<1>a. ASSUME NEW s \in Statuses, NEW t \in Nat, NEW e \in Nat, Answer(c, s, t, e)
      PROVE  /\ wire' \in [Calls -> Request] /\ reply' \in [Calls -> Reply]
             /\ UNCHANGED <<now, mu, token, expires, phase, deadline, result, tried>>
  BY <1>0, <1>a, ReplyType DEF Answer
<1>1. CASE Issue(c)
  <2>1. PICK life \in Nat, e \in Nat : /\ exp' = Append(exp, now + life)
                                       /\ Answer(c, "ok", Len(exp'), e)
    <3>1. CASE \E life \in Lifetimes : /\ exp' = Append(exp, now + life)
                                        /\ Answer(c, "ok", Len(exp'), now + life)
      <4>1. PICK life \in Lifetimes : /\ exp' = Append(exp, now + life)
                                      /\ Answer(c, "ok", Len(exp'), now + life)
        BY <3>1
      <4>2. life \in Nat /\ now + life \in Nat
        BY <1>t
      <4> QED
        BY <4>1, <4>2
    <3>2. CASE exp' = Append(exp, now + Hour) /\ Answer(c, "ok", Len(exp'), NoClaim)
      BY <1>t, <3>2
    <3> QED
      BY <1>1, <3>1, <3>2 DEF Issue
  <2>2. exp' \in Seq(Nat) /\ Len(exp') \in Nat
    BY <2>1
  <2> QED
    BY <1>1, <1>a, <2>1, <2>2 DEF Issue
<1>2. CASE RefuseToken(c)
  BY <1>2, <1>a DEF RefuseToken
<1>3. CASE Execute(c)
  BY <1>3, <1>a DEF Execute
<1>4. CASE Reject(c)
  BY <1>4, <1>a DEF Reject
<1>5. CASE Deny(c)
  BY <1>5, <1>a DEF Deny
<1> QED
  BY <1>1, <1>2, <1>3, <1>4, <1>5 DEF Serve

\* Every step keeps the types.
LEMMA NextTypeOK == TypeOK /\ [Next]_vars => TypeOK'
<1> SUFFICES ASSUME TypeOK, [Next]_vars PROVE TypeOK'
  OBVIOUS
<1>1. ASSUME NEW c \in Calls, Step(c) \/ Lock(c) PROVE TypeOK'
  BY <1>1, CallTypeOK
<1>2. ASSUME NEW c \in Calls, Serve(c) PROVE TypeOK'
  BY <1>2, ServeTypeOK
<1>3. ASSUME NEW t \in DOMAIN exp, Revoke(t) PROVE TypeOK'
  <2>1. exp \in Seq(Nat) /\ t \in Nat
    BY DEF TypeOK
  <2> QED
    BY <1>3, <2>1 DEF TypeOK, Revoke
<1>4. CASE Tick
  BY <1>4 DEF TypeOK, Tick
<1>5. CASE UNCHANGED vars
  BY <1>5 DEF TypeOK, vars
<1> QED
  BY <1>1, <1>2, <1>3, <1>4, <1>5 DEF Next, Finished

\* Every variable of the client, the network and the servers keeps its type.
THEOREM TypeCorrect == Spec => []TypeOK
  BY InitTypeOK, NextTypeOK, PTL DEF Spec

-----------------------------------------------------------------------------
(* Calls: one fetch at a time and what is known of the effect.              *)

\* Nothing has been sent in the first state.
LEMMA InitCallInv == Init => CallInv
  BY TokenAssumption DEF Init, CallInv, OneFetch, CallShape, ReplyShape, EffectKnown

\* The length of the list of presented tokens grows by one with every operation sent.
LEMMA OneMoreTried ==
    ASSUME TypeOK, NEW c \in Calls, NEW t \in Nat,
           tried' = [tried EXCEPT ![c] = Append(@, t)]
    PROVE  /\ Len(tried'[c]) = Len(tried[c]) + 1
           /\ \A d \in Calls \ {c} : tried'[d] = tried[d]
           /\ Len(tried[c]) = 0 => tried[c] = <<>>
  BY DEF TypeOK

\* What a step does to one call is all there is to check if it leaves the others alone.
LEMMA OneCallInv ==
    ASSUME CallInv, NEW c \in Calls,
           \A d \in Calls \ {c} :
               /\ phase'[d] = phase[d] /\ wire'[d] = wire[d] /\ reply'[d] = reply[d]
               /\ result'[d] = result[d] /\ runs'[d] = runs[d] /\ tried'[d] = tried[d],
           OneFetch', CallShape!(c)', ReplyShape!(c)', EffectKnown!(c)'
    PROVE  CallInv'
<1>1. \A d \in Calls \ {c} : CallShape!(d)' /\ ReplyShape!(d)' /\ EffectKnown!(d)'
  BY DEF CallInv, CallShape, ReplyShape, EffectKnown
<1>2. CallShape' /\ ReplyShape' /\ EffectKnown'
  BY <1>1 DEF CallShape, ReplyShape, EffectKnown
<1> QED
  BY <1>2 DEF CallInv

\* A call returns: mu is free if it held it, and the result fits the effect.
LEMMA ReturnCallInv ==
    ASSUME TypeOK, CallInv, NEW c \in Calls, NEW r \in Results \ {"none"},
           Return(c, r),
           mu' = IF mu = c THEN NoCall ELSE mu,
           \A d \in Calls \ {c} : wire'[d] = wire[d],
           wire'[c] \in {wire[c], NoRequest},
           r # "lost" => wire'[c] = NoRequest,
           UNCHANGED <<runs, tried>>,
           r = "ok" => runs[c] = 1,
           r \in {"unauthorized", "limited", "authError"} => runs[c] = 0
    PROVE  CallInv'
<1>1. /\ phase'[c] = "returned" /\ result'[c] = r /\ reply'[c] = NoReply
      /\ \A d \in Calls \ {c} : /\ phase'[d] = phase[d] /\ result'[d] = result[d]
                                /\ reply'[d] = reply[d]
  BY DEF Return, TypeOK
<1>2. OneFetch'
  BY <1>1, TokenAssumption DEF CallInv, OneFetch
<1>3. CallShape!(c)'
  BY <1>1 DEF CallInv, CallShape
<1>4. ReplyShape!(c)'
  BY <1>1
<1>5. EffectKnown!(c)'
  BY <1>1 DEF CallInv, EffectKnown
<1> QED
  BY <1>1, <1>2, <1>3, <1>4, <1>5, OneCallInv

\* An answer takes the request off the wire; only an operation has an effect.
LEMMA AnswerCallInv ==
    ASSUME TypeOK, CallInv, NEW c \in Calls, NEW s \in Statuses \ {"none"},
           NEW t \in Nat, NEW e \in Nat,
           Answer(c, s, t, e),
           wire[c].kind # "none",
           t # NoToken => s = "ok" /\ wire[c].kind = "token",
           s = "ok" /\ wire[c].kind = "token" => t # NoToken,
           \/ runs' = runs /\ (wire[c].kind = "call" => s # "ok")
           \/ /\ runs' = [runs EXCEPT ![c] = @ + 1]
              /\ wire[c].kind = "call" /\ s \in {"ok", "error"}
    PROVE  CallInv'
<1>1. /\ UNCHANGED <<mu, phase, result, tried>>
      /\ wire'[c] = NoRequest
      /\ reply'[c] = IF phase[c] \in Awaiting THEN [status |-> s, tok |-> t, claim |-> e]
                                              ELSE reply[c]
      /\ \A d \in Calls \ {c} : /\ wire'[d] = wire[d] /\ reply'[d] = reply[d]
                                /\ runs'[d] = runs[d]
  BY DEF Answer, TypeOK
<1>2. reply[c] = NoReply
  BY DEF CallInv, ReplyShape
<1>3. \/ runs'[c] = runs[c] /\ (wire[c].kind = "call" => s # "ok")
      \/ runs'[c] = 1 /\ runs[c] = 0 /\ wire[c].kind = "call" /\ s \in {"ok", "error"}
  BY DEF TypeOK, CallInv, EffectKnown
<1>4. OneFetch'
  BY <1>1 DEF CallInv, OneFetch
<1>5. CallShape!(c)'
  <2>1. phase[c] \notin {"idle", "access", "force"}
    BY DEF CallInv, CallShape
  <2>2. phase[c] \in {"fetch", "refetch"} => runs'[c] = 0
    BY <1>3 DEF CallInv, CallShape
  <2> QED
    BY <1>1, <2>1, <2>2 DEF CallInv, CallShape
<1>6. ReplyShape!(c)'
  <2>1. CASE phase[c] \in Awaiting
    <3>1. t # NoToken => phase[c] \in {"fetch", "refetch"}
      BY <2>1 DEF CallInv, CallShape
    <3>2. phase[c] \in {"fetch", "refetch"} => wire[c].kind = "token"
      BY DEF CallInv, CallShape
    <3> QED
      BY <1>1, <2>1, <3>1, <3>2
  <2>2. CASE phase[c] \notin Awaiting
    BY <1>1, <1>2, <2>2
  <2> QED
    BY <2>1, <2>2
<1>7. EffectKnown!(c)'
  <2>1. runs'[c] \in {0, 1}
    BY <1>3 DEF CallInv, EffectKnown
  <2>2. wire'[c].kind # "call"
    BY <1>1
  <2>3. result[c] \in {"none", "lost"}
    BY DEF CallInv, CallShape
  <2>4. ASSUME phase[c] \in {"call1", "call2"}
        PROVE  /\ s = "ok" => runs'[c] = 1
               /\ s \in {"unauthorized", "limited"} => runs'[c] = 0
    <3>1. wire[c].kind = "call" /\ runs[c] = 0
      BY <2>4 DEF CallInv, CallShape, EffectKnown
    <3> QED
      BY <1>3, <3>1
  <2> QED
    BY <1>1, <2>1, <2>2, <2>3, <2>4
<1> QED
  BY <1>1, <1>4, <1>5, <1>6, <1>7, OneCallInv

\* A call keeps what is known of it and of all others.
LEMMA CallCallInv ==
    ASSUME TypeOK, CallInv, NEW c \in Calls, Step(c) \/ Lock(c)
    PROVE  CallInv'
<1> USE TokenAssumption DEF TypeOK, CallInv, OneFetch, CallShape, ReplyShape, EffectKnown,
                Return, Send, Request, Reply
<1>1. CASE EncodeFails(c)
  BY <1>1 DEF EncodeFails
<1>2. CASE Begin(c)
  BY <1>2 DEF Begin
<1>3. CASE TokenStored(c)
  <2>1. reply[c].tok \in Nat
    OBVIOUS
  <2>2. /\ Len(tried'[c]) = Len(tried[c]) + 1
        /\ \A d \in Calls \ {c} : tried'[d] = tried[d]
    BY <1>3, <2>1, OneMoreTried DEF TokenStored, SendOperation
  <2>3. /\ phase[c] \in {"fetch", "refetch"} /\ mu' = NoCall
        /\ phase' = [phase EXCEPT ![c] = IF phase[c] = "fetch" THEN "call1" ELSE "call2"]
        /\ wire' = [wire EXCEPT ![c] = [kind |-> "call", tok |-> reply[c].tok]]
        /\ reply' = [reply EXCEPT ![c] = NoReply]
        /\ UNCHANGED <<result, runs>>
    BY <1>3 DEF TokenStored, SendOperation
  <2>4. OneFetch'
    BY <2>3
  <2>5. CallShape'
    <3> SUFFICES ASSUME NEW d \in Calls PROVE CallShape!(d)'
      OBVIOUS
    <3>1. CASE d = c
      <4>1. phase'[c] = IF phase[c] = "fetch" THEN "call1" ELSE "call2"
        BY <2>3
      <4>2. wire'[c].kind = "call" /\ result'[c] = "none"
        BY <2>3
      <4>3. Len(tried[c]) = IF phase[c] = "fetch" THEN 0 ELSE 1
        BY <2>3
      <4>4. Len(tried'[c]) = IF phase[c] = "fetch" THEN 1 ELSE 2
        BY <2>2, <4>3
      <4> QED
        BY <2>3, <3>1, <4>1, <4>2, <4>4
    <3>2. CASE d # c
      <4>1. /\ phase'[d] = phase[d] /\ wire'[d] = wire[d] /\ tried'[d] = tried[d]
            /\ runs'[d] = runs[d] /\ result'[d] = result[d]
        BY <2>2, <2>3, <3>2
      <4> QED
        BY <4>1
    <3> QED
      BY <3>1, <3>2
  <2>6. ReplyShape' /\ EffectKnown'
    BY <2>3
  <2> QED
    BY <2>4, <2>5, <2>6
<1>4. CASE TokenRefused(c)
  <2>1. /\ Return(c, "authError") /\ mu' = NoCall /\ UNCHANGED <<wire, runs, tried>>
        /\ phase[c] \in {"fetch", "refetch"} /\ reply[c] # NoReply
    BY <1>4 DEF TokenRefused
  <2>2. mu = c /\ wire[c] = NoRequest /\ runs[c] = 0
    BY <2>1
  <2> QED
    BY <2>1, <2>2, ReturnCallInv
<1>5. CASE Retry(c)
  BY <1>5 DEF Retry
<1>6. CASE PostReturn(c)
  <2>1. PICK r \in {reply[c].status, "badBody"} :
            /\ Return(c, r)
            /\ r = "badBody" => reply[c].status = "ok"
    BY <1>6 DEF PostReturn
  <2>2. /\ phase[c] \in {"call1", "call2"} /\ reply[c].status # "none"
        /\ UNCHANGED <<mu, wire, runs, tried>>
    BY <1>6 DEF PostReturn
  <2>3. /\ r \in Results \ {"none"}
        /\ mu # c /\ wire[c] = NoRequest
        /\ r = "ok" => runs[c] = 1
        /\ r \in {"unauthorized", "limited", "authError"} => runs[c] = 0
    BY <2>1, <2>2
  <2> QED
    BY <2>1, <2>2, <2>3, ReturnCallInv
<1>7. CASE Abandon(c)
  <2>1. /\ Return(c, "lost") /\ "lost" \in Results \ {"none"}
        /\ mu' = IF mu = c THEN NoCall ELSE mu
        /\ \A d \in Calls \ {c} : wire'[d] = wire[d]
        /\ wire'[c] \in {wire[c], NoRequest}
        /\ UNCHANGED <<runs, tried>>
    BY <1>7 DEF Abandon
  <2> QED
    BY <2>1, ReturnCallInv
<1>8. CASE CacheHit(c)
  <2>2. /\ Len(tried'[c]) = Len(tried[c]) + 1
        /\ \A d \in Calls \ {c} : tried'[d] = tried[d]
    BY <1>8, OneMoreTried DEF CacheHit, SendOperation
  <2>3. /\ phase[c] = "access" /\ mu' = mu
        /\ phase' = [phase EXCEPT ![c] = "call1"]
        /\ wire' = [wire EXCEPT ![c] = [kind |-> "call", tok |-> token]]
        /\ reply' = [reply EXCEPT ![c] = NoReply]
        /\ UNCHANGED <<result, runs>>
    BY <1>8 DEF CacheHit, SendOperation
  <2>4. OneFetch' /\ ReplyShape' /\ EffectKnown'
    BY <2>3
  <2>5. CallShape'
    <3> SUFFICES ASSUME NEW d \in Calls PROVE CallShape!(d)'
      OBVIOUS
    <3>1. CASE d = c
      <4>1. phase'[c] = "call1" /\ wire'[c].kind = "call" /\ result'[c] = "none"
        BY <2>3
      <4>2. tried[c] = <<>> /\ Len(tried'[c]) = 1
        BY <2>2, <2>3
      <4> QED
        BY <2>3, <3>1, <4>1, <4>2
    <3>2. CASE d # c
      <4>1. /\ phase'[d] = phase[d] /\ wire'[d] = wire[d] /\ tried'[d] = tried[d]
            /\ runs'[d] = runs[d] /\ result'[d] = result[d]
        BY <2>2, <2>3, <3>2
      <4> QED
        BY <4>1
    <3> QED
      BY <3>1, <3>2
  <2> QED
    BY <2>4, <2>5
<1>9. CASE Fetch(c)
  <2>1. PICK p \in {"fetch", "refetch"} :
            /\ p = "fetch" => phase[c] = "access"
            /\ p = "refetch" => phase[c] = "force"
            /\ phase' = [phase EXCEPT ![c] = p]
            /\ wire' = [wire EXCEPT ![c] = [kind |-> "token", tok |-> NoToken]]
            /\ reply' = [reply EXCEPT ![c] = NoReply]
            /\ mu = NoCall /\ mu' = c
            /\ UNCHANGED <<result, runs, tried>>
    BY <1>9 DEF Fetch
  <2>2. OneFetch'
    BY <2>1
  <2>3. CallShape'
    BY <2>1
  <2>4. ReplyShape' /\ EffectKnown'
    BY <2>1
  <2> QED
    BY <2>2, <2>3, <2>4
<1> QED
  BY <1>1, <1>2, <1>3, <1>4, <1>5, <1>6, <1>7, <1>8, <1>9 DEF Step, Lock

\* So do the servers.
LEMMA ServeCallInv ==
    ASSUME TypeOK, CallInv, NEW c \in Calls, Serve(c)
    PROVE  CallInv'
<1>1. CASE Issue(c)
  <2>1. exp \in Seq(Nat) /\ now \in Nat /\ Hour \in Nat /\ Lifetimes \subseteq Nat
    BY TokenAssumption DEF TypeOK
  <2>2. PICK e \in Nat, life \in Nat :
            exp' = Append(exp, life) /\ Answer(c, "ok", Len(exp'), e)
    <3>1. CASE \E l \in Lifetimes : /\ exp' = Append(exp, now + l)
                                    /\ Answer(c, "ok", Len(exp'), now + l)
      BY <2>1, <3>1
    <3>2. CASE exp' = Append(exp, now + Hour) /\ Answer(c, "ok", Len(exp'), NoClaim)
      BY <2>1, <3>2
    <3> QED
      BY <1>1, <3>1, <3>2 DEF Issue
  <2>3. Len(exp') \in Nat /\ Len(exp') # NoToken
    BY <2>1, <2>2
  <2>4. wire[c].kind = "token" /\ runs' = runs
    BY <1>1 DEF Issue
  <2> QED
    BY <2>2, <2>3, <2>4, AnswerCallInv
<1>2. CASE RefuseToken(c)
  <2>1. PICK s \in {"unauthorized", "limited", "error"} : Answer(c, s, NoToken, NoClaim)
    BY <1>2 DEF RefuseToken
  <2> QED
    BY <1>2, <2>1, AnswerCallInv DEF RefuseToken
<1>3. CASE Execute(c)
  <2>1. PICK s \in {"ok", "error"} : Answer(c, s, NoToken, NoClaim)
    BY <1>3 DEF Execute
  <2> QED
    BY <1>3, <2>1, AnswerCallInv DEF Execute
<1>4. CASE Reject(c)
  <2>1. PICK s \in {"limited", "error"} : Answer(c, s, NoToken, NoClaim)
    BY <1>4 DEF Reject
  <2> QED
    BY <1>4, <2>1, AnswerCallInv DEF Reject
<1>5. CASE Deny(c)
  BY <1>5, AnswerCallInv DEF Deny
<1> QED
  BY <1>1, <1>2, <1>3, <1>4, <1>5 DEF Serve

\* Every step keeps it.
LEMMA NextCallInv == TypeOK /\ CallInv /\ [Next]_vars => CallInv'
<1> SUFFICES ASSUME TypeOK, CallInv, [Next]_vars PROVE CallInv'
  OBVIOUS
<1>1. ASSUME NEW c \in Calls, Step(c) \/ Lock(c) PROVE CallInv'
  BY <1>1, CallCallInv
<1>2. ASSUME NEW c \in Calls, Serve(c) PROVE CallInv'
  BY <1>2, ServeCallInv
<1> USE DEF CallInv, OneFetch, CallShape, ReplyShape, EffectKnown
<1>3. ASSUME NEW t \in DOMAIN exp, Revoke(t) PROVE CallInv'
  BY <1>3 DEF Revoke
<1>4. CASE Tick
  BY <1>4 DEF Tick
<1>5. CASE UNCHANGED vars
  BY <1>5 DEF vars
<1> QED
  BY <1>1, <1>2, <1>3, <1>4, <1>5 DEF Next, Finished

\* What is known of each call from its place holds throughout.
THEOREM CallsCorrect == Spec => []CallInv
  BY InitCallInv, NextCallInv, TypeCorrect, PTL DEF Spec

\* However many calls find the token missing or stale, one of them fetches it.
THEOREM SingleFetch == Spec => []OneFetch
<1>1. CallInv => OneFetch
  BY DEF CallInv
<1> QED
  BY <1>1, CallsCorrect, PTL

\* Whatever is lost, refused or retried, a Post is carried out at most once.
THEOREM ExecutedAtMostOnce == Spec => []AtMostOnce
<1>1. CallInv => AtMostOnce
  BY DEF CallInv, EffectKnown, AtMostOnce
<1> QED
  BY <1>1, CallsCorrect, PTL

\* What a Post returns never contradicts what the servers did, or will still do.
THEOREM HonestResult == Spec => []ResultIsHonest
<1>1. CallInv => ResultIsHonest
  BY DEF CallInv, CallShape, EffectKnown, ResultIsHonest
<1> QED
  BY <1>1, CallsCorrect, PTL

-----------------------------------------------------------------------------
(* Tokens: their order, and why age alone never makes one fail.              *)

CallPhases == {"call1", "call2"}

\* The tokens a call has presented are the entries of its list.
LEMMA PresentedTokens ==
    ASSUME TypeOK, NEW c \in Calls
    PROVE  /\ Presented(c) \in SUBSET Nat
           /\ \A i \in 1 .. Len(tried[c]) : tried[c][i] \in Presented(c)
           /\ Len(tried[c]) = 0 => Presented(c) = {}
           /\ Len(tried[c]) \in Nat
  BY DEF TypeOK, Presented

\* A call that presents a token has presented that one more.
LEMMA PresentsOneMore ==
    ASSUME TypeOK, NEW c \in Calls, NEW t \in Nat,
           tried' = [tried EXCEPT ![c] = Append(@, t)]
    PROVE  /\ Presented(c)' = Presented(c) \cup {t}
           /\ \A d \in Calls : d # c => Presented(d)' = Presented(d) /\ tried'[d] = tried[d]
           /\ Len(tried'[c]) = Len(tried[c]) + 1
           /\ tried'[c][Len(tried'[c])] = t
           /\ \A i \in 1 .. Len(tried[c]) : tried'[c][i] = tried[c][i]
<1>1. tried[c] \in Seq(Nat) /\ tried'[c] = Append(tried[c], t)
  BY DEF TypeOK
<1>2. /\ Len(tried'[c]) = Len(tried[c]) + 1
      /\ tried'[c][Len(tried'[c])] = t
      /\ \A i \in 1 .. Len(tried[c]) : tried'[c][i] = tried[c][i]
  BY <1>1
<1>3. DOMAIN tried[c] = 1 .. Len(tried[c]) /\ DOMAIN tried'[c] = 1 .. Len(tried[c]) + 1
  BY <1>1, <1>2
<1>4. Presented(c)' = Presented(c) \cup {t}
  BY <1>1, <1>2, <1>3 DEF Presented
<1>5. \A d \in Calls : d # c => Presented(d)' = Presented(d) /\ tried'[d] = tried[d]
  BY DEF TypeOK, Presented
<1> QED
  BY <1>2, <1>4, <1>5

\* Nothing has been presented in the first state.
LEMMA InitTokenInv == Init => TokenInv
  BY DEF Init, TokenInv, TokensIssued, RetryUsesNewToken, TimeKept, NeverTooOld, Presented

\* The one way a token is presented: it is, or becomes, the client's, and there is
\* time for the request to arrive.
LEMMA SendTokenInv ==
    ASSUME TypeOK, CallInv, TokenInv,
           NEW c \in Calls, NEW t \in 1 .. Len(exp), NEW p \in CallPhases,
           SendOperation(c, t, p),
           token' = t, token <= t, Len(tried[c]) <= 1,
           \A u \in Presented(c) : u < t,
           \A d \in Calls : d # c /\ reply[d].tok # NoToken => t < reply[d].tok,
           now + Timeout < exp[t],
           expires' <= exp[t] + Timeout,
           UNCHANGED <<now, exp, revoked>>
    PROVE  TokenInv'
<1>0. t \in Nat /\ Len(exp) \in Nat /\ DOMAIN exp = 1 .. Len(exp) /\ Timeout \in Nat
      /\ token \in Nat /\ now \in Nat
  BY TokenAssumption DEF TypeOK
<1>1. /\ Presented(c)' = Presented(c) \cup {t}
      /\ \A d \in Calls : d # c => Presented(d)' = Presented(d) /\ tried'[d] = tried[d]
      /\ Len(tried'[c]) = Len(tried[c]) + 1
      /\ tried'[c][Len(tried'[c])] = t
      /\ \A i \in 1 .. Len(tried[c]) : tried'[c][i] = tried[c][i]
  BY <1>0, PresentsOneMore DEF SendOperation
<1>2. /\ wire'[c] = [kind |-> "call", tok |-> t]
      /\ reply'[c] = NoReply
      /\ deadline'[c] = now + Timeout
      /\ phase'[c] = p
  BY DEF TypeOK, SendOperation, Send
<1>3. ASSUME NEW d \in Calls, d # c
      PROVE  /\ wire'[d] = wire[d] /\ reply'[d] = reply[d]
             /\ deadline'[d] = deadline[d] /\ phase'[d] = phase[d]
  BY <1>3 DEF TypeOK, SendOperation, Send
<1>4. TokensIssued'
  <2>1. ASSUME NEW d \in Calls, NEW u \in Presented(d)' PROVE u \in 1 .. t
    <3>1. u = t \/ u \in Presented(d)
      BY <1>1
    <3>2. ASSUME u \in Presented(d) PROVE u \in 1 .. token
      BY <3>2 DEF TokenInv, TokensIssued
    <3> QED
      BY <1>0, <3>1, <3>2
  <2>2. ASSUME NEW d \in Calls
        PROVE  /\ wire'[d].kind = "call" => wire'[d].tok \in DOMAIN exp
               /\ wire'[d].kind = "call" /\ phase'[d] \in CallPhases =>
                      wire'[d].tok = tried'[d][Len(tried'[d])]
               /\ reply'[d].tok # NoToken => t < reply'[d].tok /\ reply'[d].tok <= Len(exp)
    <3>1. CASE d = c
      BY <1>0, <1>1, <1>2, <3>1
    <3>2. CASE d # c
      BY <1>1, <1>3, <3>2 DEF TokenInv, TokensIssued, CallPhases
    <3> QED
      BY <3>1, <3>2
  <2> QED
    BY <1>0, <2>1, <2>2 DEF TokensIssued, CallPhases
<1>5. RetryUsesNewToken'
  <2>1. CASE Len(tried[c]) = 0
    <3>1. Len(tried'[c]) = 1
      BY <1>1, <2>1
    <3>2. \A d \in Calls : d # c => tried'[d] = tried[d]
      BY <1>1
    <3>3. ASSUME NEW d \in Calls
          PROVE  /\ Len(tried'[d]) <= 2
                 /\ Len(tried'[d]) = 2 => tried'[d][1] < tried'[d][2]
      <4>1. CASE d = c
        <5> DEFINE n == Len(tried'[c])
        <5>1. n = 1
          BY <3>1
        <5> HIDE DEF n
        <5>2. n <= 2 /\ n # 2
          BY <5>1
        <5> QED
          BY <4>1, <5>2 DEF n
      <4>2. CASE d # c
        BY <3>2, <4>2 DEF TokenInv, RetryUsesNewToken
      <4> QED
        BY <4>1, <4>2
    <3> QED
      BY <3>3 DEF RetryUsesNewToken
  <2>2. CASE Len(tried[c]) = 1
    <3>1. tried[c][1] < t
      BY <2>2, PresentedTokens
    <3>2. Len(tried'[c]) = 2 /\ tried'[c][1] = tried[c][1] /\ tried'[c][2] = t
      BY <1>1, <2>2
    <3> QED
      BY <1>1, <3>1, <3>2 DEF TokenInv, RetryUsesNewToken
  <2>3. Len(tried[c]) = 0 \/ Len(tried[c]) = 1
    <3> DEFINE n == Len(tried[c])
    <3>1. n \in Nat /\ n <= 1
      BY PresentedTokens
    <3> HIDE DEF n
    <3>2. n = 0 \/ n = 1
      BY <3>1
    <3> QED
      BY <3>2 DEF n
  <2> QED
    BY <2>1, <2>2, <2>3
<1>6. TimeKept'
  <2>1. expires' <= exp[token'] + Timeout
    OBVIOUS
  <2>2. ASSUME NEW d \in Calls
        PROVE  /\ phase'[d] \in Awaiting =>
                      now <= deadline'[d] /\ deadline'[d] <= now + Timeout
               /\ reply'[d].tok # NoToken =>
                      /\ deadline'[d] + Timeout < exp[reply'[d].tok]
                      /\ IF reply'[d].claim # NoClaim
                         THEN reply'[d].claim = exp[reply'[d].tok]
                         ELSE deadline'[d] + Hour <= exp[reply'[d].tok] + Timeout
               /\ wire'[d].kind = "call" /\ phase'[d] \in CallPhases =>
                      deadline'[d] < exp[wire'[d].tok]
    <3>1. CASE d = c
      BY <1>0, <1>2, <3>1
    <3>2. CASE d # c
      BY <1>3, <3>2 DEF TokenInv, TimeKept, CallPhases
    <3> QED
      BY <3>1, <3>2
  <2> QED
    BY <2>1, <2>2 DEF TimeKept, CallPhases
<1>7. NeverTooOld'
  <2>1. ASSUME NEW d \in Calls, phase'[d] \in CallPhases, reply'[d].status = "unauthorized"
        PROVE  tried'[d][Len(tried'[d])] \in revoked'
    <3>1. d # c
      BY <1>2, <2>1
    <3> QED
      BY <1>1, <1>3, <2>1, <3>1 DEF TokenInv, NeverTooOld, CallPhases
  <2> QED
    BY <2>1 DEF NeverTooOld, CallPhases
<1> QED
  BY <1>4, <1>5, <1>6, <1>7 DEF TokenInv

\* The cached token goes out with room for its request to arrive.
LEMMA CacheHitTokenInv ==
    ASSUME TypeOK, CallInv, TokenInv, NEW c \in Calls, CacheHit(c)
    PROVE  TokenInv'
<1>0. /\ token \in Nat /\ now \in Nat /\ expires \in Nat /\ Len(exp) \in Nat
      /\ Timeout \in Nat /\ RefreshWindow \in Nat
      /\ exp \in [1 .. Len(exp) -> Nat]
  BY TokenAssumption DEF TypeOK
<1>1. token # NoToken /\ now + RefreshWindow < expires
  BY DEF CacheHit, Fresh
<1>2. token \in 1 .. Len(exp) /\ exp[token] \in Nat
  BY <1>0, <1>1 DEF TokenInv, TokensIssued
<1>3. expires <= exp[token] + Timeout
  BY <1>1 DEF TokenInv, TimeKept
<1>4. now + Timeout < exp[token]
  BY <1>0, <1>1, <1>2, <1>3, HeadroomAssumption
<1>5. tried[c] = <<>> /\ Presented(c) = {} /\ Len(tried[c]) <= 1
  BY DEF CacheHit, CallInv, CallShape, Presented
<1>6. \A d \in Calls : reply[d].tok # NoToken => token < reply[d].tok
  BY DEF TokenInv, TokensIssued
<1>7. /\ SendOperation(c, token, "call1")
      /\ token' = token /\ expires' = expires
      /\ UNCHANGED <<now, exp, revoked>>
  BY DEF CacheHit
<1> QED
  BY <1>0, <1>2, <1>3, <1>4, <1>5, <1>6, <1>7, SendTokenInv DEF CallPhases

\* So does one that has just been fetched: it was granted during the exchange.
LEMMA TokenStoredTokenInv ==
    ASSUME TypeOK, CallInv, TokenInv, NEW c \in Calls, TokenStored(c)
    PROVE  TokenInv'
<1> DEFINE t == reply[c].tok
           e == reply[c].claim
<1>0. /\ token \in Nat /\ now \in Nat /\ Len(exp) \in Nat /\ deadline[c] \in Nat
      /\ t \in Nat /\ e \in Nat
      /\ Timeout \in Nat /\ Hour \in Nat
      /\ exp \in [1 .. Len(exp) -> Nat]
  BY TokenAssumption DEF TypeOK, Reply
<1>1. phase[c] \in {"fetch", "refetch"} /\ reply[c].status = "ok"
  BY DEF TokenStored
<1>2. t # NoToken
  BY <1>1 DEF CallInv, ReplyShape
<1>3. token < t /\ t <= Len(exp)
  BY <1>2 DEF TokenInv, TokensIssued
<1>4. t \in 1 .. Len(exp) /\ exp[t] \in Nat
  BY <1>0, <1>3
<1>5. /\ now <= deadline[c]
      /\ deadline[c] + Timeout < exp[t]
      /\ e # NoClaim => e = exp[t]
      /\ e = NoClaim => deadline[c] + Hour <= exp[t] + Timeout
  BY <1>1, <1>2 DEF TokenInv, TimeKept
<1>6. now + Timeout < exp[t]
  BY <1>0, <1>4, <1>5
<1>7. expires' = IF e # NoClaim THEN e ELSE now + Hour
  BY DEF TokenStored, tokenExpiry
<1>8. expires' <= exp[t] + Timeout
  BY <1>0, <1>4, <1>5, <1>7
<1>9. \A u \in Presented(c) : u < t
  <2>1. \A u \in Presented(c) : u \in 1 .. token
    BY DEF TokenInv, TokensIssued
  <2> QED
    BY <1>0, <1>3, <2>1
<1>10. \A d \in Calls : d # c => reply[d].tok = NoToken
  BY <1>1, TokenAssumption DEF CallInv, OneFetch, ReplyShape
<1>11. Len(tried[c]) <= 1
  <2> DEFINE n == Len(tried[c])
  <2>1. n = 0 \/ n = 1
    BY <1>1 DEF CallInv, CallShape
  <2> HIDE DEF n
  <2>2. n <= 1
    BY <2>1
  <2> QED
    BY <2>2 DEF n
<1>12. PICK p \in CallPhases : SendOperation(c, t, p)
  BY DEF TokenStored, CallPhases
<1>13. /\ token' = t
       /\ UNCHANGED <<now, exp, revoked>>
  BY DEF TokenStored
<1> HIDE DEF t, e
<1>14. token <= t
  BY <1>0, <1>3
<1>15. \A d \in Calls : d # c /\ reply[d].tok # NoToken => t < reply[d].tok
  BY <1>10
<1> QED
  BY <1>4, <1>6, <1>8, <1>9, <1>11, <1>12, <1>13, <1>14, <1>15, SendTokenInv

\* Every other step of a call or of a server with its request leaves tokens and
\* times as they are.
LEMMA QuietTokenInv ==
    ASSUME TypeOK, CallInv, TokenInv, NEW c \in Calls,
           UNCHANGED <<now, token, expires, exp, revoked, tried>>,
           \A d \in Calls : d # c => /\ wire'[d] = wire[d] /\ reply'[d] = reply[d]
                                     /\ deadline'[d] = deadline[d] /\ phase'[d] = phase[d],
           reply'[c].tok = NoToken,
           wire'[c].kind = "call" => wire'[c] = wire[c],
           phase'[c] \in Awaiting => \/ phase'[c] = phase[c] /\ deadline'[c] = deadline[c]
                                     \/ deadline'[c] = now + Timeout,
           phase'[c] \in CallPhases =>
               /\ phase'[c] = phase[c] /\ deadline'[c] = deadline[c]
               /\ reply'[c].status = "unauthorized" => tried[c][Len(tried[c])] \in revoked
    PROVE  TokenInv'
<1>0. \A d \in Calls : Presented(d)' = Presented(d)
  BY DEF Presented
<1>1. TokensIssued'
  BY <1>0 DEF TokenInv, TokensIssued, CallPhases
<1>2. RetryUsesNewToken'
  BY DEF TokenInv, RetryUsesNewToken
<1>3. TimeKept'
  <2>0. now \in Nat /\ Timeout \in Nat
    BY TokenAssumption DEF TypeOK
  <2>1. token' # NoToken => expires' <= exp'[token'] + Timeout
    BY DEF TokenInv, TimeKept
  <2>2. ASSUME NEW d \in Calls
        PROVE  /\ phase'[d] \in Awaiting =>
                      now' <= deadline'[d] /\ deadline'[d] <= now' + Timeout
               /\ reply'[d].tok # NoToken =>
                      /\ deadline'[d] + Timeout < exp'[reply'[d].tok]
                      /\ IF reply'[d].claim # NoClaim
                         THEN reply'[d].claim = exp'[reply'[d].tok]
                         ELSE deadline'[d] + Hour <= exp'[reply'[d].tok] + Timeout
               /\ wire'[d].kind = "call" /\ phase'[d] \in CallPhases =>
                      deadline'[d] < exp'[wire'[d].tok]
    <3>1. CASE d = c
      <4>1. phase'[c] \in Awaiting => now <= deadline'[c] /\ deadline'[c] <= now + Timeout
        BY <2>0 DEF TokenInv, TimeKept
      <4>2. wire'[c].kind = "call" /\ phase'[c] \in CallPhases =>
                deadline'[c] < exp[wire'[c].tok]
        BY DEF TokenInv, TimeKept, CallPhases
      <4> QED
        BY <3>1, <4>1, <4>2
    <3>2. CASE d # c
      BY <3>2 DEF TokenInv, TimeKept, CallPhases
    <3> QED
      BY <3>1, <3>2
  <2> QED
    BY <2>1, <2>2 DEF TimeKept, CallPhases
<1>4. NeverTooOld'
  BY DEF TokenInv, NeverTooOld, CallPhases
<1> QED
  BY <1>1, <1>2, <1>3, <1>4 DEF TokenInv

\* The goroutine of a call keeps the order of the tokens and the room for them.
LEMMA CallTokenInv ==
    ASSUME TypeOK, CallInv, TokenInv, NEW c \in Calls, Step(c) \/ Lock(c)
    PROVE  TokenInv'
<1> USE DEF TypeOK
<1>a. wire[c].kind \in {"none", "token", "call"} /\ NoRequest.kind # "call" /\ NoReply.tok = NoToken
  BY DEF Request, NoRequest, NoReply
<1>b. ASSUME NEW r \in Results, Return(c, r),
             UNCHANGED <<now, token, expires, exp, revoked, tried>>,
             \A d \in Calls : d # c => wire'[d] = wire[d],
             wire'[c] \in {wire[c], NoRequest}
      PROVE  TokenInv'
  <2>1. /\ \A d \in Calls : d # c => /\ wire'[d] = wire[d] /\ reply'[d] = reply[d]
                                     /\ deadline'[d] = deadline[d] /\ phase'[d] = phase[d]
        /\ reply'[c].tok = NoToken
        /\ wire'[c].kind = "call" => wire'[c] = wire[c]
    BY <1>a, <1>b DEF Return
  <2>2. phase'[c] = "returned"
    BY <1>b DEF Return
  <2>3. phase'[c] \notin Awaiting /\ phase'[c] \notin CallPhases
    BY <2>2 DEF Awaiting, CallPhases
  <2> QED
    BY <1>b, <2>1, <2>3, QuietTokenInv
<1>1. CASE EncodeFails(c)
  <2>1. /\ Return(c, "badBody") /\ UNCHANGED wire
        /\ UNCHANGED <<now, token, expires, exp, revoked, tried>>
    BY <1>1 DEF EncodeFails, cache, server, history
  <2> QED
    BY <1>b, <2>1 DEF Results
<1>2. CASE Begin(c)
  <2>1. reply[c] = NoReply
    BY <1>2 DEF Begin, CallInv, ReplyShape, Awaiting
  <2> QED
    BY <1>2, <2>1, QuietTokenInv DEF Begin, CallPhases
<1>3. CASE TokenStored(c)
  BY <1>3, TokenStoredTokenInv
<1>4. CASE TokenRefused(c)
  <2>1. /\ Return(c, "authError") /\ UNCHANGED wire
        /\ UNCHANGED <<now, token, expires, exp, revoked, tried>>
    BY <1>4 DEF TokenRefused, cache, server, history
  <2> QED
    BY <1>b, <2>1 DEF Results
<1>5. CASE Retry(c)
  BY <1>5, QuietTokenInv DEF Retry, CallPhases
<1>6. CASE PostReturn(c)
  <2>1. PICK r \in Results : Return(c, r)
    BY <1>6 DEF PostReturn, Reply, Results, Statuses
  <2>2. UNCHANGED wire /\ UNCHANGED <<now, token, expires, exp, revoked, tried>>
    BY <1>6 DEF PostReturn, cache, server, history
  <2> QED
    BY <1>b, <2>1, <2>2
<1>7. CASE Abandon(c)
  <2>1. wire'[c] \in {wire[c], NoRequest} /\ \A d \in Calls : d # c => wire'[d] = wire[d]
    BY <1>7 DEF Abandon
  <2>2. UNCHANGED <<now, token, expires, exp, revoked, tried>>
    BY <1>7 DEF Abandon, server
  <2>3. Return(c, "lost") /\ "lost" \in Results
    BY <1>7 DEF Abandon, Results
  <2> QED
    BY <1>b, <2>1, <2>2, <2>3
<1>8. CASE CacheHit(c)
  BY <1>8, CacheHitTokenInv
<1>9. CASE Fetch(c)
  <2>1. PICK p \in {"fetch", "refetch"} : Send(c, "token", NoToken, p)
    BY <1>9 DEF Fetch
  <2>2. UNCHANGED <<now, token, expires, exp, revoked, tried>>
    BY <1>9 DEF Fetch, server, history
  <2>3. /\ wire'[c].kind = "token" /\ reply'[c] = NoReply
        /\ deadline'[c] = now + Timeout /\ phase'[c] = p
        /\ \A d \in Calls : d # c => /\ wire'[d] = wire[d] /\ reply'[d] = reply[d]
                                     /\ deadline'[d] = deadline[d] /\ phase'[d] = phase[d]
    BY <2>1 DEF Send
  <2>4. /\ wire'[c].kind = "call" => wire'[c] = wire[c]
        /\ reply'[c].tok = NoToken /\ phase'[c] \notin CallPhases
    BY <1>a, <2>3 DEF CallPhases
  <2> QED
    BY <2>2, <2>3, <2>4, QuietTokenInv
<1> QED
  BY <1>1, <1>2, <1>3, <1>4, <1>5, <1>6, <1>7, <1>8, <1>9 DEF Step, Lock

\* A token is granted newer than all others and with a lifetime that starts now.
LEMMA IssueTokenInv ==
    ASSUME TypeOK, CallInv, TokenInv, NEW c \in Calls, Issue(c)
    PROVE  TokenInv'
<1>0. /\ token \in Nat /\ now \in Nat /\ Len(exp) \in Nat /\ Timeout \in Nat /\ Hour \in Nat
      /\ exp \in Seq(Nat) /\ DOMAIN exp = 1 .. Len(exp)
      /\ deadline[c] \in Nat
  BY TokenAssumption DEF TypeOK
<1>1. PICK life \in Nat, e \in Nat :
          /\ exp' = Append(exp, now + life)
          /\ Answer(c, "ok", Len(exp'), e)
          /\ 2 * Timeout < life
          /\ e # NoClaim => e = now + life
          /\ e = NoClaim => life = Hour
  <2>1. CASE \E life \in Lifetimes : /\ exp' = Append(exp, now + life)
                                     /\ Answer(c, "ok", Len(exp'), now + life)
    <3>1. PICK life \in Lifetimes : /\ exp' = Append(exp, now + life)
                                    /\ Answer(c, "ok", Len(exp'), now + life)
      BY <2>1
    <3>2. life \in Nat /\ 2 * Timeout < life
      BY TokenAssumption, HeadroomAssumption
    <3>3. now + life \in Nat /\ now + life # NoClaim
      BY <1>0, <3>2
    <3> QED
      BY <3>1, <3>2, <3>3
  <2>2. CASE exp' = Append(exp, now + Hour) /\ Answer(c, "ok", Len(exp'), NoClaim)
    BY <1>0, <2>2, HeadroomAssumption
  <2> QED
    BY <2>1, <2>2 DEF Issue
<1> DEFINE new == Len(exp) + 1
<1>2. /\ Len(exp') = new /\ exp'[new] = now + life
      /\ \A t \in 1 .. Len(exp) : exp'[t] = exp[t]
      /\ DOMAIN exp' = 1 .. new
  BY <1>0, <1>1
<1>3. /\ UNCHANGED <<now, token, expires, phase, deadline, tried, revoked>>
      /\ \A d \in Calls : Presented(d)' = Presented(d)
      /\ \A d \in Calls : d # c => wire'[d] = wire[d] /\ reply'[d] = reply[d]
      /\ wire'[c] = NoRequest
      /\ \/ reply'[c] = reply[c] /\ phase[c] \notin Awaiting
         \/ /\ phase[c] \in Awaiting
            /\ reply'[c] = [status |-> "ok", tok |-> new, claim |-> e]
  BY <1>1, <1>2 DEF Issue, Answer, Presented, TypeOK
<1>4. reply'[c] # reply[c] => phase[c] \in {"fetch", "refetch"}
  <2>1. wire[c].kind = "token"
    BY DEF Issue
  <2> QED
    BY <1>3, <2>1 DEF CallInv, CallShape
<1>5. reply'[c] = reply[c] => reply[c].tok = NoToken
  <2>1. CASE phase[c] \notin Awaiting
    BY <2>1 DEF CallInv, ReplyShape
  <2>2. CASE phase[c] \in Awaiting
    <3>1. wire[c] # NoRequest
      BY DEF Issue
    <3> QED
      BY <3>1 DEF CallInv, ReplyShape
  <2> QED
    BY <2>1, <2>2
<1>6. token <= Len(exp) /\ token < new
  BY <1>0 DEF TokenInv, TokensIssued
<1>7. TokensIssued'
  <2>1. ASSUME NEW d \in Calls
        PROVE  /\ \A t \in Presented(d) : t \in 1 .. token
               /\ wire'[d].kind = "call" => wire'[d].tok \in DOMAIN exp'
               /\ wire'[d].kind = "call" /\ phase[d] \in CallPhases =>
                      wire'[d].tok = tried[d][Len(tried[d])]
               /\ reply'[d].tok # NoToken => token < reply'[d].tok /\ reply'[d].tok <= new
    <3>0. 1 .. Len(exp) \subseteq 1 .. new
      BY <1>0
    <3>1. CASE d = c
      <4>1. wire'[d].kind = "none"
        BY <1>3, <3>1
      <4>2. reply'[d].tok \in {NoToken, new}
        BY <1>3, <1>5, <3>1
      <4>3. \A t \in Presented(d) : t \in 1 .. token
        BY DEF TokenInv, TokensIssued
      <4> QED
        BY <1>0, <1>6, <4>1, <4>2, <4>3
    <3>2. CASE d # c
      <4>1. /\ \A t \in Presented(d) : t \in 1 .. token
            /\ wire[d].kind = "call" => wire[d].tok \in DOMAIN exp
            /\ wire[d].kind = "call" /\ phase[d] \in CallPhases =>
                   wire[d].tok = tried[d][Len(tried[d])]
            /\ reply[d].tok # NoToken => token < reply[d].tok /\ reply[d].tok <= Len(exp)
        BY DEF TokenInv, TokensIssued, CallPhases
      <4>2. reply[d].tok \in Nat
        BY DEF TypeOK, Reply
      <4> QED
        BY <1>0, <1>2, <1>3, <3>0, <3>2, <4>1, <4>2
    <3> QED
      BY <3>1, <3>2
  <2>2. token' <= Len(exp')
    BY <1>0, <1>2, <1>3, <1>6
  <2> QED
    BY <1>2, <1>3, <2>1, <2>2 DEF TokensIssued, CallPhases
<1>8. RetryUsesNewToken'
  BY <1>3 DEF TokenInv, RetryUsesNewToken
<1>9. TimeKept'
  <2>1. token' # NoToken => expires' <= exp'[token'] + Timeout
    <3>1. token # NoToken => token \in 1 .. Len(exp)
      BY <1>0, <1>6
    <3> QED
      BY <1>2, <1>3, <3>1 DEF TokenInv, TimeKept
  <2>2. ASSUME NEW d \in Calls
        PROVE  /\ phase[d] \in Awaiting => now <= deadline[d] /\ deadline[d] <= now + Timeout
               /\ reply'[d].tok # NoToken =>
                      /\ deadline[d] + Timeout < exp'[reply'[d].tok]
                      /\ IF reply'[d].claim # NoClaim
                         THEN reply'[d].claim = exp'[reply'[d].tok]
                         ELSE deadline[d] + Hour <= exp'[reply'[d].tok] + Timeout
               /\ wire'[d].kind = "call" /\ phase[d] \in CallPhases =>
                      deadline[d] < exp'[wire'[d].tok]
    <3>1. CASE d = c
      <4>1. phase[c] \in Awaiting => now <= deadline[c] /\ deadline[c] <= now + Timeout
        BY DEF TokenInv, TimeKept
      <4>2. wire'[c].kind = "none"
        BY <1>3
      <4>3. CASE reply'[c] = reply[c]
        BY <1>5, <3>1, <4>1, <4>2, <4>3
      <4>4. CASE reply'[c] # reply[c]
        <5>1. /\ phase[c] \in Awaiting /\ reply'[c].tok = new /\ reply'[c].claim = e
          BY <1>3, <4>4
        <5>2. deadline[c] <= now + Timeout
          BY <4>1, <5>1
        <5>3. deadline[c] + Timeout < now + life
          BY <1>0, <1>1, <5>2
        <5>4. e = NoClaim => deadline[c] + Hour <= now + life + Timeout
          BY <1>0, <1>1, <5>2
        <5> QED
          BY <1>1, <1>2, <3>1, <4>1, <4>2, <5>1, <5>3, <5>4
      <4> QED
        BY <4>3, <4>4
    <3>2. CASE d # c
      <4>1. reply[d].tok # NoToken => reply[d].tok \in 1 .. Len(exp)
        <5>1. reply[d].tok \in Nat
          BY DEF TypeOK, Reply
        <5> QED
          BY <1>0, <5>1 DEF TokenInv, TokensIssued
      <4>2. wire[d].kind = "call" => wire[d].tok \in 1 .. Len(exp)
        BY <1>0 DEF TokenInv, TokensIssued
      <4> QED
        BY <1>2, <1>3, <3>2, <4>1, <4>2 DEF TokenInv, TimeKept, CallPhases
    <3> QED
      BY <3>1, <3>2
  <2> QED
    BY <1>3, <2>1, <2>2 DEF TimeKept, CallPhases
<1>10. NeverTooOld'
  <2>1. \A d \in Calls : reply'[d].status = "unauthorized" => reply'[d] = reply[d]
    BY <1>3
  <2> QED
    BY <1>3, <2>1 DEF TokenInv, NeverTooOld
<1> QED
  BY <1>7, <1>8, <1>9, <1>10 DEF TokenInv

\* Every other answer: it brings no token, and a refusal has its reason.
LEMMA AnswerTokenInv ==
    ASSUME TypeOK, CallInv, TokenInv, NEW c \in Calls, NEW s \in Statuses,
           Answer(c, s, NoToken, NoClaim),
           UNCHANGED <<exp, revoked>>,
           wire[c].kind # "none",
           wire[c].kind = "call" /\ s = "unauthorized" => ~Valid(wire[c].tok)
    PROVE  TokenInv'
<1>1. /\ UNCHANGED <<now, token, expires, phase, deadline, tried>>
      /\ \A d \in Calls : d # c => wire'[d] = wire[d] /\ reply'[d] = reply[d]
      /\ wire'[c] = NoRequest
      /\ reply'[c] = IF phase[c] \in Awaiting
                     THEN [status |-> s, tok |-> NoToken, claim |-> NoClaim]
                     ELSE reply[c]
  BY DEF Answer, TypeOK
<1>2. reply[c] = NoReply
  BY DEF CallInv, ReplyShape
<1>3. reply'[c].tok = NoToken
  BY <1>1, <1>2
<1>4. phase[c] \in CallPhases /\ reply'[c].status = "unauthorized" =>
          tried[c][Len(tried[c])] \in revoked
  <2> SUFFICES ASSUME phase[c] \in CallPhases, reply'[c].status = "unauthorized"
               PROVE  tried[c][Len(tried[c])] \in revoked
    OBVIOUS
  <2>1. wire[c].kind = "call" /\ s = "unauthorized"
    BY <1>1 DEF CallInv, CallShape, CallPhases
  <2>2. wire[c].tok = tried[c][Len(tried[c])] /\ wire[c].tok \in DOMAIN exp
    BY <2>1 DEF TokenInv, TokensIssued, CallPhases
  <2>3. now <= deadline[c] /\ deadline[c] < exp[wire[c].tok]
    BY <2>1 DEF TokenInv, TimeKept, CallPhases
  <2>4. now \in Nat /\ deadline[c] \in Nat /\ exp[wire[c].tok] \in Nat
    BY <2>2 DEF TypeOK
  <2>5. now < exp[wire[c].tok]
    BY <2>3, <2>4
  <2> QED
    BY <2>1, <2>2, <2>5 DEF Valid
<1> QED
  BY <1>1, <1>3, <1>4, QuietTokenInv

\* The servers keep the order of the tokens and refuse none for its age.
LEMMA ServeTokenInv ==
    ASSUME TypeOK, CallInv, TokenInv, NEW c \in Calls, Serve(c)
    PROVE  TokenInv'
<1>1. CASE Issue(c)
  BY <1>1, IssueTokenInv
<1>2. CASE RefuseToken(c)
  <2>1. PICK s \in Statuses : Answer(c, s, NoToken, NoClaim)
    BY <1>2 DEF RefuseToken
  <2> QED
    BY <1>2, <2>1, AnswerTokenInv DEF RefuseToken
<1>3. CASE Execute(c)
  <2>1. PICK s \in {"ok", "error"} : Answer(c, s, NoToken, NoClaim)
    BY <1>3 DEF Execute
  <2> QED
    BY <1>3, <2>1, AnswerTokenInv DEF Execute
<1>4. CASE Reject(c)
  <2>1. PICK s \in {"limited", "error"} : Answer(c, s, NoToken, NoClaim)
    BY <1>4 DEF Reject
  <2> QED
    BY <1>4, <2>1, AnswerTokenInv DEF Reject
<1>5. CASE Deny(c)
  BY <1>5, AnswerTokenInv DEF Deny
<1> QED
  BY <1>1, <1>2, <1>3, <1>4, <1>5 DEF Serve

\* So does a revocation.
LEMMA RevokeTokenInv ==
    ASSUME TypeOK, TokenInv, NEW t \in DOMAIN exp, Revoke(t)
    PROVE  TokenInv'
<1>1. /\ UNCHANGED <<now, token, expires, phase, deadline, wire, reply, exp, tried>>
      /\ revoked \subseteq revoked'
  BY DEF Revoke
<1>2. \A d \in Calls : Presented(d)' = Presented(d)
  BY <1>1 DEF Presented
<1>3. TokensIssued'
  BY <1>1, <1>2 DEF TokenInv, TokensIssued
<1>4. RetryUsesNewToken'
  BY <1>1 DEF TokenInv, RetryUsesNewToken
<1>5. TimeKept'
  BY <1>1 DEF TokenInv, TimeKept
<1>6. NeverTooOld'
  BY <1>1 DEF TokenInv, NeverTooOld
<1> QED
  BY <1>3, <1>4, <1>5, <1>6 DEF TokenInv

\* Time passes only up to the deadline of every exchange.
LEMMA TickTokenInv ==
    ASSUME TypeOK, TokenInv, Tick
    PROVE  TokenInv'
<1>1. /\ UNCHANGED <<token, expires, phase, deadline, wire, reply, exp, revoked, tried>>
      /\ now' = now + 1
      /\ \A c \in Calls : phase[c] \in Awaiting => now < deadline[c]
  BY DEF Tick
<1>2. \A d \in Calls : Presented(d)' = Presented(d)
  BY <1>1 DEF Presented
<1>3. TokensIssued'
  BY <1>1, <1>2 DEF TokenInv, TokensIssued
<1>4. RetryUsesNewToken'
  BY <1>1 DEF TokenInv, RetryUsesNewToken
<1>5. TimeKept'
  <2>1. ASSUME NEW c \in Calls, phase[c] \in Awaiting
        PROVE  now' <= deadline[c] /\ deadline[c] <= now' + Timeout
    <3>1. now \in Nat /\ deadline[c] \in Nat /\ Timeout \in Nat
      BY TokenAssumption DEF TypeOK
    <3>2. now < deadline[c] /\ deadline[c] <= now + Timeout
      BY <1>1, <2>1 DEF TokenInv, TimeKept
    <3> QED
      BY <1>1, <3>1, <3>2
  <2> QED
    BY <1>1, <2>1 DEF TokenInv, TimeKept
<1>6. NeverTooOld'
  BY <1>1 DEF TokenInv, NeverTooOld
<1> QED
  BY <1>3, <1>4, <1>5, <1>6 DEF TokenInv

\* Every step keeps it.
LEMMA NextTokenInv == TypeOK /\ CallInv /\ TokenInv /\ [Next]_vars => TokenInv'
<1> SUFFICES ASSUME TypeOK, CallInv, TokenInv, [Next]_vars PROVE TokenInv'
  OBVIOUS
<1>1. ASSUME NEW c \in Calls, Step(c) \/ Lock(c) PROVE TokenInv'
  BY <1>1, CallTokenInv
<1>2. ASSUME NEW c \in Calls, Serve(c) PROVE TokenInv'
  BY <1>2, ServeTokenInv
<1>3. ASSUME NEW t \in DOMAIN exp, Revoke(t) PROVE TokenInv'
  BY <1>3, RevokeTokenInv
<1>4. CASE Tick
  BY <1>4, TickTokenInv
<1>5. CASE UNCHANGED vars
  <2>1. \A d \in Calls : Presented(d)' = Presented(d)
    BY <1>5 DEF vars, Presented
  <2> QED
    BY <1>5, <2>1 DEF vars, TokenInv, TokensIssued, RetryUsesNewToken, TimeKept, NeverTooOld
<1> QED
  BY <1>1, <1>2, <1>3, <1>4, <1>5 DEF Next, Finished

\* The whole invariant holds for any number of calls and any timeout, window and
\* lifetimes with the headroom of HeadroomAssumption.
THEOREM SessionInvariant == Spec => []IInv
<1>1. Spec => []TokenInv
  BY InitTokenInv, NextTokenInv, TypeCorrect, CallsCorrect, PTL DEF Spec
<1>2. TypeOK /\ CallInv /\ TokenInv => IInv
  BY DEF IInv
<1> QED
  BY <1>1, <1>2, TypeCorrect, CallsCorrect, PTL

\* Post retries once, and with a token issued after the one that was refused.
THEOREM RetryIsNewer == Spec => []RetryUsesNewToken
<1>1. IInv => RetryUsesNewToken
  BY DEF IInv, TokenInv
<1> QED
  BY <1>1, SessionInvariant, PTL

\* Two timeouts of headroom are enough: no token is refused for its age.
THEOREM AgeNeverFails == Spec => []NeverTooOld
<1>1. IInv => NeverTooOld
  BY DEF IInv, TokenInv
<1> QED
  BY <1>1, SessionInvariant, PTL

\* Whatever the order in which token requests are answered or given up, the cache
\* moves only to a token newer than every one it held or a call presented.
THEOREM TokenOrder == Spec => TokenNeverGoesBack
<1> DEFINE Newer == token' # token =>
               \A c \in Calls : \A t \in Presented(c) \cup {token} : t < token'
<1>1. IInv /\ [Next]_vars => Newer
  <2> SUFFICES ASSUME IInv, [Next]_vars, token' # token
               PROVE  \A c \in Calls : \A t \in Presented(c) \cup {token} : t < token'
    OBVIOUS
  <2>1. PICK c \in Calls : TokenStored(c)
    BY DEF Next, Step, Lock, Serve, Finished, vars, EncodeFails, Begin, TokenRefused,
           Retry, PostReturn, Abandon, CacheHit, Fetch, Issue, RefuseToken, Execute,
           Reject, Deny, Revoke, Tick, Answer
  <2>2. token' = reply[c].tok /\ token < token' /\ token \in Nat /\ token' \in Nat
    BY <2>1 DEF TokenStored, IInv, TypeOK, Reply, CallInv, ReplyShape, TokenInv, TokensIssued
  <2>3. ASSUME NEW d \in Calls, NEW t \in Presented(d) PROVE t < token'
    <3>1. t \in 1 .. token
      BY <2>3 DEF IInv, TokenInv, TokensIssued
    <3> QED
      BY <2>2, <3>1
  <2> QED
    BY <2>2, <2>3
<1> QED
  BY <1>1, SessionInvariant, PTL DEF Spec, TokenNeverGoesBack

-----------------------------------------------------------------------------
(* A token is replaced in its window or for a refused call.                 *)

\* What has been presented is a token the servers issued.
LEMMA PresentedIssued ==
    ASSUME TypeOK, TokenInv, NEW t \in AllPresented
    PROVE  /\ t \in Nat /\ t \in 1 .. token /\ t \in 1 .. Len(exp)
           /\ exp[t] \in Nat
<1>1. PICK c \in Calls : t \in Presented(c)
  BY DEF AllPresented
<1>2. token \in Nat /\ Len(exp) \in Nat /\ token <= Len(exp) /\ t \in 1 .. token
  BY <1>1 DEF TypeOK, TokenInv, TokensIssued
<1>3. t \in 1 .. Len(exp)
  BY <1>2
<1> QED
  BY <1>2, <1>3 DEF TypeOK

\* Steps that leave the tokens and what is presented as they were: a call starts to
\* fetch only in the window of the token.
LEMMA QuietWasteInv ==
    ASSUME TypeOK, TokenInv, WasteInv,
           UNCHANGED <<now, token, expires, exp, tried>>,
           \A d \in Calls :
               /\ reply'[d].tok # NoToken => reply'[d] = reply[d]
               /\ phase'[d] = "fetch" => phase[d] = "fetch" \/ ~Fresh
    PROVE  WasteInv'
<1>1. AllPresented' = AllPresented
  BY DEF AllPresented, Presented
<1>2. NeverUnderrated'
  BY DEF WasteInv, NeverUnderrated
<1>3. FetchedInWindow'
  <2> SUFFICES ASSUME NEW d \in Calls, phase'[d] = "fetch", token # NoToken
               PROVE  exp[token] <= now + RefreshWindow
    BY DEF FetchedInWindow
  <2>1. CASE phase[d] = "fetch"
    BY <2>1 DEF WasteInv, FetchedInWindow
  <2>2. CASE ~Fresh
    <3>1. /\ now \in Nat /\ RefreshWindow \in Nat /\ expires \in Nat /\ token \in Nat
          /\ token \in 1 .. Len(exp)
      BY TokenAssumption DEF TypeOK, TokenInv, TokensIssued
    <3>2. exp[token] \in Nat /\ exp[token] <= expires
      BY <3>1 DEF TypeOK, WasteInv, NeverUnderrated
    <3>3. ~ (now + RefreshWindow < expires)
      BY <2>2 DEF Fresh
    <3> QED
      BY <3>1, <3>2, <3>3
  <2> QED
    BY <2>1, <2>2
<1>4. ReplacedOnRefusal'
  BY <1>1 DEF WasteInv, ReplacedOnRefusal
<1> QED
  BY <1>2, <1>3, <1>4 DEF WasteInv

\* A call takes the token from the cache: nothing new is presented but what is there.
LEMMA CacheHitWasteInv ==
    ASSUME TypeOK, CallInv, TokenInv, WasteInv, NEW c \in Calls, CacheHit(c)
    PROVE  WasteInv'
<1>1. /\ UNCHANGED <<now, token, expires, exp>>
      /\ phase[c] = "access" /\ tried[c] = <<>>
      /\ tried' = [tried EXCEPT ![c] = Append(tried[c], token)]
      /\ \A d \in Calls : /\ reply'[d].tok # NoToken => reply'[d] = reply[d]
                          /\ phase'[d] = "fetch" => phase[d] = "fetch"
      /\ token # NoToken /\ token \in Nat
  BY DEF CacheHit, SendOperation, Send, TypeOK, CallInv, CallShape, Fresh
<1>2. tried'[c] = <<token>> /\ \A d \in Calls : d # c => tried'[d] = tried[d]
  BY <1>1 DEF TypeOK
<1>3. AllPresented' \subseteq AllPresented \cup {token}
  <2> SUFFICES ASSUME NEW d \in Calls, NEW t \in Presented(d)'
               PROVE  t \in AllPresented \cup {token}
    BY DEF AllPresented
  <2>1. CASE d = c
    BY <1>2, <2>1 DEF Presented
  <2>2. CASE d # c
    BY <1>2, <2>2 DEF Presented, AllPresented
  <2> QED
    BY <2>1, <2>2
<1>4. NeverUnderrated'
  BY <1>1 DEF WasteInv, NeverUnderrated
<1>5. FetchedInWindow'
  BY <1>1 DEF WasteInv, FetchedInWindow
<1>6. ReplacedOnRefusal'
  <2> SUFFICES ASSUME NEW t \in AllPresented' \ {token'}, ~ (exp[t] <= now + RefreshWindow)
               PROVE  \E d \in Calls :
                          /\ Len(tried'[d]) = 2
                          /\ t < tried'[d][2]
                          /\ \A u \in AllPresented' : u <= t \/ tried'[d][2] <= u
    BY <1>1 DEF ReplacedOnRefusal
  <2>1. t \in AllPresented \ {token}
    BY <1>1, <1>3
  <2>2. PICK d \in Calls : /\ Len(tried[d]) = 2
                           /\ t < tried[d][2]
                           /\ \A u \in AllPresented : u <= t \/ tried[d][2] <= u
    BY <2>1 DEF WasteInv, ReplacedOnRefusal
  <2>3. d # c
    BY <1>1, <2>2
  <2>4. tried'[d] = tried[d]
    BY <1>2, <2>3
  <2>5. tried[d][2] <= token
    <3>1. tried[d] \in Seq(Nat) /\ 2 \in DOMAIN tried[d]
      BY <2>2 DEF TypeOK
    <3> QED
      BY <1>1, <3>1 DEF TokenInv, TokensIssued, Presented
  <2> QED
    BY <1>3, <2>2, <2>4, <2>5
<1> QED
  BY <1>4, <1>5, <1>6 DEF WasteInv

\* A new token is stored: the one before was in its window, or this is the second token
\* of a call that was refused.
LEMMA TokenStoredWasteInv ==
    ASSUME TypeOK, CallInv, TokenInv, WasteInv, NEW c \in Calls, TokenStored(c)
    PROVE  WasteInv'
<1> DEFINE new == reply[c].tok
<1>1. /\ UNCHANGED <<now, exp>>
      /\ phase[c] \in {"fetch", "refetch"}
      /\ token' = new /\ new # NoToken /\ new \in Nat /\ token < new /\ token \in Nat
      /\ expires' = tokenExpiry(reply[c].claim)
      /\ tried' = [tried EXCEPT ![c] = Append(tried[c], new)]
      /\ phase' = [phase EXCEPT ![c] = IF phase[c] = "fetch" THEN "call1" ELSE "call2"]
      /\ reply' = [reply EXCEPT ![c] = NoReply]
  BY DEF TokenStored, SendOperation, Send, TypeOK, Reply, CallInv, ReplyShape, TokenInv,
         TokensIssued, server
<1>2. \A d \in Calls : d # c => /\ tried'[d] = tried[d] /\ reply'[d] = reply[d]
                                /\ phase'[d] = phase[d]
  BY <1>1 DEF TypeOK
<1>3. /\ tried'[c] = Append(tried[c], new) /\ tried[c] \in Seq(Nat)
      /\ phase'[c] # "fetch" /\ reply'[c].tok = NoToken
  BY <1>1 DEF TypeOK
<1>4. AllPresented' = AllPresented \cup {new}
  <2>1. Presented(c)' = Presented(c) \cup {new}
    BY <1>3 DEF Presented
  <2>2. \A d \in Calls : d # c => Presented(d)' = Presented(d)
    BY <1>2 DEF Presented
  <2> QED
    BY <2>1, <2>2 DEF AllPresented
<1>5. NeverUnderrated'
  <2>1. exp[new] <= IF reply[c].claim # NoClaim THEN reply[c].claim ELSE now + Hour
    BY <1>1 DEF WasteInv, NeverUnderrated
  <2>2. exp'[token'] <= expires'
    BY <1>1, <2>1 DEF tokenExpiry
  <2>3. ASSUME NEW d \in Calls, reply'[d].tok # NoToken
        PROVE  exp'[reply'[d].tok] <= IF reply'[d].claim # NoClaim THEN reply'[d].claim
                                                                   ELSE now' + Hour
    <3>1. d # c
      BY <1>3, <2>3
    <3> QED
      BY <1>1, <1>2, <2>3, <3>1 DEF WasteInv, NeverUnderrated
  <2> QED
    BY <2>2, <2>3 DEF NeverUnderrated
<1>6. \A d \in Calls : phase'[d] # "fetch"
  <2>1. mu = c /\ \A d \in Calls : d # c => phase[d] # "fetch"
    BY <1>1 DEF CallInv, OneFetch
  <2> QED
    BY <1>2, <1>3, <2>1
<1>7. FetchedInWindow'
  BY <1>6 DEF FetchedInWindow
<1>8. ReplacedOnRefusal'
  <2> SUFFICES ASSUME NEW t \in AllPresented' \ {token'}, ~ (exp[t] <= now + RefreshWindow)
               PROVE  \E d \in Calls :
                          /\ Len(tried'[d]) = 2
                          /\ t < tried'[d][2]
                          /\ \A u \in AllPresented' : u <= t \/ tried'[d][2] <= u
    BY <1>1 DEF ReplacedOnRefusal
  <2>1. t \in AllPresented
    BY <1>1, <1>4
  <2>2. CASE t = token
    <3>1. t # NoToken
      BY <2>1, PresentedIssued
    <3>2. phase[c] = "refetch"
      BY <1>1, <2>2, <3>1 DEF WasteInv, FetchedInWindow
    <3>3. Len(tried[c]) = 1
      BY <3>2 DEF CallInv, CallShape
    <3>4. Len(tried'[c]) = 2 /\ tried'[c][2] = new
      BY <1>3, <3>3
    <3>5. \A u \in AllPresented' : u <= t \/ new <= u
      <4> TAKE u \in AllPresented'
      <4>1. CASE u = new
        BY <1>1, <4>1
      <4>2. CASE u \in AllPresented
        BY <1>1, <2>2, <4>2, PresentedIssued
      <4> QED
        BY <1>4, <4>1, <4>2
    <3> QED
      BY <1>1, <2>2, <3>4, <3>5
  <2>3. CASE t # token
    <3>1. PICK d \in Calls : /\ Len(tried[d]) = 2
                             /\ t < tried[d][2]
                             /\ \A u \in AllPresented : u <= t \/ tried[d][2] <= u
      BY <2>1, <2>3 DEF WasteInv, ReplacedOnRefusal
    <3>2. d # c
      BY <1>1, <3>1 DEF CallInv, CallShape
    <3>3. tried'[d] = tried[d]
      BY <1>2, <3>2
    <3>4. tried[d][2] \in 1 .. token
      <4>1. tried[d] \in Seq(Nat) /\ 2 \in DOMAIN tried[d]
        BY <3>1 DEF TypeOK
      <4> QED
        BY <4>1 DEF TokenInv, TokensIssued, Presented
    <3>5. tried[d][2] <= new
      BY <1>1, <3>4
    <3> QED
      BY <1>4, <3>1, <3>3, <3>5
  <2> QED
    BY <2>2, <2>3
<1> QED
  BY <1>5, <1>7, <1>8 DEF WasteInv

\* The servers add a token, which lives as long as the client is told, or an hour.
LEMMA IssueWasteInv ==
    ASSUME TypeOK, CallInv, TokenInv, WasteInv, NEW c \in Calls, Issue(c)
    PROVE  WasteInv'
<1>1. PICK life \in Nat, e \in Nat :
          /\ exp' = Append(exp, now + life)
          /\ Answer(c, "ok", Len(exp'), e)
          /\ now + life <= IF e # NoClaim THEN e ELSE now + Hour
  <2>0. /\ now \in Nat /\ Hour \in Nat /\ Lifetimes \subseteq Nat
        /\ \A life \in Lifetimes : 2 * Timeout < life
    BY TokenAssumption, HeadroomAssumption DEF TypeOK
  <2>1. CASE \E life \in Lifetimes : /\ exp' = Append(exp, now + life)
                                      /\ Answer(c, "ok", Len(exp'), now + life)
    <3>1. PICK life \in Lifetimes : /\ exp' = Append(exp, now + life)
                                    /\ Answer(c, "ok", Len(exp'), now + life)
      BY <2>1
    <3>2. life \in Nat /\ now + life \in Nat /\ now + life # NoClaim
      BY <2>0, TokenAssumption
    <3> QED
      BY <3>1, <3>2
  <2>2. CASE exp' = Append(exp, now + Hour) /\ Answer(c, "ok", Len(exp'), NoClaim)
    BY <2>0, <2>2
  <2> QED
    BY <2>1, <2>2 DEF Issue
<1>2. /\ UNCHANGED <<now, token, expires, phase, tried>>
      /\ \A d \in Calls : d # c => reply'[d] = reply[d]
      /\ reply'[c].tok # NoToken => \/ reply'[c] = reply[c]
                                    \/ reply'[c].tok = Len(exp') /\ reply'[c].claim = e
  BY <1>1 DEF Answer, TypeOK
<1>3. /\ exp \in Seq(Nat) /\ Len(exp) \in Nat /\ Len(exp') = Len(exp) + 1
      /\ \A t \in 1 .. Len(exp) : exp'[t] = exp[t]
      /\ exp'[Len(exp')] = now + life
  BY <1>1 DEF TypeOK
<1>4. AllPresented' = AllPresented
  BY <1>2 DEF AllPresented, Presented
<1>5. token # NoToken => token \in 1 .. Len(exp)
  BY <1>3 DEF TypeOK, TokenInv, TokensIssued
<1>6. NeverUnderrated'
  <2>1. token' # NoToken => exp'[token'] <= expires'
    BY <1>2, <1>3, <1>5 DEF WasteInv, NeverUnderrated
  <2>2. ASSUME NEW d \in Calls, reply'[d].tok # NoToken
        PROVE  exp'[reply'[d].tok] <= IF reply'[d].claim # NoClaim THEN reply'[d].claim
                                                                   ELSE now' + Hour
    <3>1. CASE reply'[d] = reply[d]
      <4>1. reply[d].tok \in 1 .. Len(exp)
        <5>1. reply[d].tok \in Nat
          BY DEF TypeOK, Reply
        <5> QED
          BY <1>3, <2>2, <3>1, <5>1 DEF TokenInv, TokensIssued
      <4> QED
        BY <1>2, <1>3, <2>2, <3>1, <4>1 DEF WasteInv, NeverUnderrated
    <3>2. CASE reply'[d] # reply[d]
      <4>1. d = c /\ reply'[d].tok = Len(exp') /\ reply'[d].claim = e
        BY <1>2, <2>2, <3>2
      <4> QED
        BY <1>1, <1>2, <1>3, <4>1
    <3> QED
      BY <3>1, <3>2
  <2> QED
    BY <2>1, <2>2 DEF NeverUnderrated
<1>7. FetchedInWindow'
  BY <1>2, <1>3, <1>5 DEF WasteInv, FetchedInWindow
<1>8. ReplacedOnRefusal'
  <2>1. \A t \in AllPresented : exp'[t] = exp[t]
    BY <1>3, PresentedIssued
  <2> QED
    BY <1>2, <1>4, <2>1 DEF WasteInv, ReplacedOnRefusal
<1> QED
  BY <1>6, <1>7, <1>8 DEF WasteInv

\* As time passes tokens only move into their windows.
LEMMA TickWasteInv ==
    ASSUME TypeOK, TokenInv, WasteInv, Tick
    PROVE  WasteInv'
<1>1. /\ UNCHANGED <<token, expires, phase, reply, exp, tried>>
      /\ now' = now + 1
      /\ now \in Nat /\ RefreshWindow \in Nat /\ Hour \in Nat
  BY TokenAssumption DEF Tick, TypeOK, cache, server, history
<1>2. AllPresented' = AllPresented
  BY <1>1 DEF AllPresented, Presented
<1>3. NeverUnderrated'
  <2>1. \A d \in Calls : reply[d].tok # NoToken => exp[reply[d].tok] \in Nat
    <3> SUFFICES ASSUME NEW d \in Calls, reply[d].tok # NoToken PROVE exp[reply[d].tok] \in Nat
      OBVIOUS
    <3>1. reply[d].tok \in Nat /\ Len(exp) \in Nat /\ reply[d].tok <= Len(exp)
      BY DEF TypeOK, Reply, TokenInv, TokensIssued
    <3>2. reply[d].tok \in 1 .. Len(exp)
      BY <3>1
    <3> QED
      BY <3>2 DEF TypeOK
  <2> QED
    BY <1>1, <2>1 DEF WasteInv, NeverUnderrated
<1>4. FetchedInWindow'
  <2> SUFFICES ASSUME NEW d \in Calls, phase[d] = "fetch", token # NoToken
               PROVE  exp[token] <= now + 1 + RefreshWindow
    BY <1>1 DEF FetchedInWindow
  <2>1. token \in 1 .. Len(exp)
    BY DEF TypeOK, TokenInv, TokensIssued
  <2>2. exp[token] \in Nat /\ exp[token] <= now + RefreshWindow
    BY <2>1 DEF TypeOK, WasteInv, FetchedInWindow
  <2> QED
    BY <1>1, <2>2
<1>5. ReplacedOnRefusal'
  <2> SUFFICES ASSUME NEW t \in AllPresented \ {token}, ~ (exp[t] <= now + 1 + RefreshWindow)
               PROVE  \E d \in Calls :
                          /\ Len(tried[d]) = 2
                          /\ t < tried[d][2]
                          /\ \A u \in AllPresented : u <= t \/ tried[d][2] <= u
    BY <1>1, <1>2 DEF ReplacedOnRefusal
  <2>1. ~ (exp[t] <= now + RefreshWindow)
    BY <1>1, PresentedIssued
  <2> QED
    BY <2>1 DEF WasteInv, ReplacedOnRefusal
<1> QED
  BY <1>3, <1>4, <1>5 DEF WasteInv

\* Every step keeps it.
LEMMA NextWasteInv == TypeOK /\ CallInv /\ TokenInv /\ WasteInv /\ [Next]_vars => WasteInv'
<1> SUFFICES ASSUME TypeOK, CallInv, TokenInv, WasteInv, [Next]_vars PROVE WasteInv'
  OBVIOUS
<1>0. NoReply.tok = NoToken
  BY DEF NoReply
<1>1. ASSUME NEW c \in Calls, Step(c) PROVE WasteInv'
  <2>1. CASE TokenStored(c)
    BY <2>1, TokenStoredWasteInv
  <2>2. CASE ~ TokenStored(c)
    <3>1. UNCHANGED <<now, token, expires, exp, tried>>
      BY <1>1, <2>2 DEF Step, EncodeFails, Begin, TokenRefused, Retry, PostReturn, Abandon
    <3>2. /\ \A d \in Calls : d # c => reply'[d] = reply[d] /\ phase'[d] = phase[d]
          /\ reply'[c] \in {reply[c], NoReply} /\ phase'[c] # "fetch"
      BY <1>1, <2>2 DEF Step, EncodeFails, Begin, TokenRefused, Retry, PostReturn, Abandon,
         Return, TypeOK
    <3> QED
      BY <1>0, <3>1, <3>2, QuietWasteInv
  <2> QED
    BY <2>1, <2>2
<1>2. ASSUME NEW c \in Calls, Lock(c) PROVE WasteInv'
  <2>1. CASE CacheHit(c)
    BY <2>1, CacheHitWasteInv
  <2>2. CASE Fetch(c)
    <3>1. UNCHANGED <<now, token, expires, exp, tried>>
      BY <2>2 DEF Fetch
    <3>2. /\ \A d \in Calls : d # c => reply'[d] = reply[d] /\ phase'[d] = phase[d]
          /\ reply'[c] = NoReply
          /\ phase'[c] = "fetch" => ~Fresh
      BY <2>2 DEF Fetch, Send, TypeOK
    <3> QED
      BY <1>0, <3>1, <3>2, QuietWasteInv
  <2> QED
    BY <1>2, <2>1, <2>2 DEF Lock
<1>3. ASSUME NEW c \in Calls, Serve(c) PROVE WasteInv'
  <2>1. CASE Issue(c)
    BY <2>1, IssueWasteInv
  <2>2. CASE RefuseToken(c) \/ Execute(c) \/ Reject(c) \/ Deny(c)
    <3>1. PICK s \in Statuses : Answer(c, s, NoToken, NoClaim)
      BY <2>2 DEF RefuseToken, Execute, Reject, Deny
    <3>2. /\ UNCHANGED <<now, token, expires, phase, tried>>
          /\ \A d \in Calls : reply'[d].tok # NoToken => reply'[d] = reply[d]
      BY <3>1 DEF Answer, TypeOK
    <3>3. UNCHANGED exp
      BY <2>2 DEF RefuseToken, Execute, Reject, Deny
    <3> QED
      BY <3>2, <3>3, QuietWasteInv
  <2> QED
    BY <1>3, <2>1, <2>2 DEF Serve
<1>4. ASSUME NEW t \in DOMAIN exp, Revoke(t) PROVE WasteInv'
  BY <1>4, QuietWasteInv DEF Revoke
<1>5. CASE Tick
  BY <1>5, TickWasteInv
<1>6. CASE UNCHANGED vars
  BY <1>6, QuietWasteInv DEF vars
<1> QED
  BY <1>1, <1>2, <1>3, <1>4, <1>5, <1>6 DEF Next, Finished

\* The strengthening of WasteBounded, for any number of calls.
THEOREM WasteExplained == Spec => []WasteInv
<1>1. Init => WasteInv
  <2> SUFFICES ASSUME Init PROVE WasteInv
    OBVIOUS
  <2>1. AllPresented = {}
    BY DEF Init, AllPresented, Presented
  <2> QED
    BY <2>1 DEF Init, WasteInv, NeverUnderrated, FetchedInWindow, ReplacedOnRefusal
<1>2. TypeOK /\ CallInv /\ TokenInv /\ WasteInv /\ [Next]_vars => WasteInv'
  BY NextWasteInv
<1>3. IInv => TypeOK /\ CallInv /\ TokenInv
  BY DEF IInv
<1> QED
  BY <1>1, <1>2, <1>3, SessionInvariant, PTL DEF Spec

\* However many calls share the token, no more good tokens are replaced than calls were
\* refused: each such token is followed by the second token of a call of its own.
THEOREM WasteIsBounded ==
    ASSUME IsFiniteSet(Calls)
    PROVE  Spec => []WasteBounded
<1>1. ASSUME TypeOK, TokenInv, WasteInv PROVE WasteBounded
  <2> DEFINE Follows(t, c) == /\ Len(tried[c]) = 2
                              /\ t < tried[c][2]
                              /\ \A u \in AllPresented : u <= t \/ tried[c][2] <= u
             f == [t \in Wasted |-> CHOOSE c \in Calls : Follows(t, c)]
  <2>1. \A t \in Wasted : t \in AllPresented \ {token} /\ \E c \in Calls : Follows(t, c)
    <3> SUFFICES ASSUME NEW t \in Wasted
                 PROVE  t \in AllPresented \ {token} /\ \E c \in Calls : Follows(t, c)
      OBVIOUS
    <3>1. t \in AllPresented \ {token} /\ now + RefreshWindow < exp[t]
      BY DEF Wasted
    <3>2. ~ (exp[t] <= now + RefreshWindow)
      <4>1. exp[t] \in Nat /\ now \in Nat /\ RefreshWindow \in Nat
        BY <1>1, <3>1, PresentedIssued, TokenAssumption DEF TypeOK
      <4> QED
        BY <3>1, <4>1
    <3> QED
      BY <1>1, <3>1, <3>2 DEF WasteInv, ReplacedOnRefusal
  <2>2. \A t \in Wasted : f[t] \in Calls /\ Follows(t, f[t])
    BY <2>1
  <2>3. f \in [Wasted -> Retried]
    BY <2>2 DEF Retried
  <2>4. ASSUME NEW t \in Wasted, NEW u \in Wasted, f[t] = f[u] PROVE t = u
    <3>1. PICK c \in Calls : Follows(t, c) /\ Follows(u, c)
      BY <2>2, <2>4
    <3>2. t \in AllPresented /\ u \in AllPresented /\ t \in Nat /\ u \in Nat
      BY <1>1, <2>1, PresentedIssued
    <3>3. tried[c][2] \in Nat
      <4>1. tried[c] \in Seq(Nat) /\ 2 \in DOMAIN tried[c]
        BY <1>1, <3>1 DEF TypeOK
      <4> QED
        BY <4>1
    <3> QED
      BY <3>1, <3>2, <3>3
  <2>5. f \in Injection(Wasted, Retried)
    BY <2>3, <2>4 DEF Injection, IsInjective
  <2>6. IsFiniteSet(Retried)
    BY FS_Subset DEF Retried
  <2> HIDE DEF f
  <2> QED
    BY <2>5, <2>6, FS_Injection DEF WasteBounded
<1>2. IInv => TypeOK /\ TokenInv
  BY DEF IInv
<1> QED
  BY <1>1, <1>2, SessionInvariant, WasteExplained, PTL

-----------------------------------------------------------------------------
(* Refinement of RemoteCalls.                                               *)

\* What a step of call c looks like from above, while other calls go on.
LEMMA StepRefines ==
    ASSUME TypeOK, CallInv, NEW c \in Calls, Step(c) \/ Lock(c)
    PROVE  \/ Remote!Admit(c) \/ Remote!Decline(c)
           \/ \E o \in Remote!Outcomes : Remote!Settle(c, o)
           \/ UNCHANGED Remote!vars
<1> USE DEF Remote!Outcomes, Remote!Effectless
<1>r. ASSUME NEW r \in Results \ {"none"}, Return(c, r), UNCHANGED runs,
             phase[c] \in Phases \ {"idle", "returned"},
             r = "ok" => runs[c] = 1,
             r \in {"unauthorized", "limited", "authError"} => runs[c] = 0
      PROVE  \E o \in Remote!Outcomes : Remote!Settle(c, o)
  <2> DEFINE o == IF r # "badBody" THEN r ELSE IF runs[c] = 0 THEN "noBody" ELSE "ok"
  <2>1. o \in Remote!Outcomes
    BY <1>r DEF Results
  <2>2. UNCHANGED Effect /\ (c \in Effect <=> runs[c] > 0)
    BY <1>r DEF Effect
  <2>3. Outcome' = [Outcome EXCEPT ![c] = o]
    BY <1>r DEF Outcome, Return, TypeOK
  <2>4. c \in Open /\ Open' = Open \ {c}
    BY <1>r DEF Open, Return, TypeOK
  <2>5. /\ o = "ok" => c \in Effect
        /\ o \in Remote!Effectless => c \notin Effect
    BY <1>r, <2>2 DEF TypeOK, Results
  <2> QED
    BY <2>1, <2>2, <2>3, <2>4, <2>5 DEF Remote!Settle
<1>s. ASSUME UNCHANGED <<result, runs>>, NEW p \in Phases \ {"idle", "returned"},
             phase' = [phase EXCEPT ![c] = p], phase[c] \notin {"idle", "returned"}
      PROVE  UNCHANGED Remote!vars
  <2>1. UNCHANGED <<Effect, Outcome>>
    BY <1>s DEF Effect, Outcome
  <2>2. UNCHANGED Open
    BY <1>s DEF Open, TypeOK
  <2> QED
    BY <2>1, <2>2 DEF Remote!vars
<1> USE DEF CallInv, CallShape, ReplyShape, EffectKnown, TypeOK, Phases, Awaiting, Results
<1>1. CASE EncodeFails(c)
  <2>1. /\ runs[c] = 0 /\ UNCHANGED runs /\ phase[c] = "idle" /\ result[c] = "none"
        /\ phase' = [phase EXCEPT ![c] = "returned"]
        /\ result' = [result EXCEPT ![c] = "badBody"]
    BY <1>1 DEF EncodeFails, Return, history
  <2>2. UNCHANGED Effect /\ c \notin Effect
    BY <2>1 DEF Effect
  <2>3. UNCHANGED Open /\ c \notin Open
    BY <2>1 DEF Open
  <2>4. Outcome[c] = "none" /\ Outcome' = [Outcome EXCEPT ![c] = "noBody"]
    BY <2>1 DEF Outcome
  <2> QED
    BY <2>2, <2>3, <2>4 DEF Remote!Decline
<1>2. CASE Begin(c)
  <2>1. /\ UNCHANGED <<runs, result>> /\ phase[c] = "idle" /\ result[c] = "none"
        /\ phase' = [phase EXCEPT ![c] = "access"]
    BY <1>2 DEF Begin, history
  <2>2. UNCHANGED <<Effect, Outcome>> /\ Outcome[c] = "none"
    BY <2>1 DEF Effect, Outcome
  <2>3. c \notin Open /\ Open' = Open \cup {c}
    BY <2>1 DEF Open
  <2> QED
    BY <2>2, <2>3 DEF Remote!Admit
<1>3. CASE CacheHit(c)
  BY <1>3, <1>s DEF CacheHit, SendOperation, Send
<1>4. CASE Fetch(c)
  BY <1>4, <1>s DEF Fetch, Send, history
<1>5. CASE TokenStored(c)
  BY <1>5, <1>s DEF TokenStored, SendOperation, Send
<1>6. CASE TokenRefused(c)
  BY <1>6, <1>r DEF TokenRefused, history
<1>7. CASE Retry(c)
  BY <1>7, <1>s DEF Retry, history
<1>8. CASE PostReturn(c)
  BY <1>8, <1>r DEF PostReturn, history, Reply, Statuses
<1>9. CASE Abandon(c)
  BY <1>9, <1>r DEF Abandon
<1> QED
  BY <1>1, <1>2, <1>3, <1>4, <1>5, <1>6, <1>7, <1>8, <1>9 DEF Step, Lock

\* An operation carried out is the call taking effect; any other answer is invisible.
LEMMA ServeRefines ==
    ASSUME TypeOK, CallInv, NEW c \in Calls, Serve(c)
    PROVE  Remote!TakeEffect(c) \/ UNCHANGED Remote!vars
<1>1. CASE Execute(c)
  <2>1. runs[c] = 0 /\ (c \in Open \/ result[c] = "lost")
    <3>1. wire[c].kind = "call" /\ wire[c] # NoRequest
      BY <1>1 DEF Execute, NoRequest
    <3>2. runs[c] = 0 /\ phase[c] # "idle" /\ (phase[c] = "returned" => result[c] = "lost")
      BY <3>1 DEF CallInv, CallShape, EffectKnown
    <3> QED
      BY <3>2 DEF Open
  <2>2. UNCHANGED <<phase, result>> /\ runs' = [runs EXCEPT ![c] = runs[c] + 1]
    BY <1>1 DEF Execute, Answer
  <2>3. c \notin Effect /\ Effect' = Effect \cup {c}
    BY <2>1, <2>2 DEF Effect, TypeOK
  <2>4. UNCHANGED Open /\ (result[c] = "lost" => Outcome[c] = "lost")
    BY <2>2 DEF Open, Outcome
  <2>5. UNCHANGED Outcome
    <3>1. \A d \in Calls : Outcome'[d] = Outcome[d]
      <4> TAKE d \in Calls
      <4>1. CASE d # c
        BY <2>2, <4>1 DEF Outcome, TypeOK
      <4>2. CASE d = c
        <5>1. wire[c] # NoRequest
          BY <1>1 DEF Execute, NoRequest
        <5>2. result[c] # "badBody"
          BY <5>1 DEF CallInv, CallShape
        <5> QED
          BY <2>2, <4>2, <5>2 DEF Outcome
      <4> QED
        BY <4>1, <4>2
    <3> QED
      BY <3>1 DEF Outcome
  <2> QED
    BY <2>1, <2>3, <2>4, <2>5 DEF Remote!TakeEffect
<1>2. CASE ~ Execute(c)
  <2>1. UNCHANGED <<phase, result, runs>>
    BY <1>2 DEF Serve, Issue, RefuseToken, Reject, Deny, Answer
  <2> QED
    BY <2>1 DEF Remote!vars, Open, Effect, Outcome
<1> QED
  BY <1>1, <1>2

\* Whatever is lost, delayed, refused or retried, and however many calls share the
\* token, a Post behaves as a call of RemoteCalls.
THEOREM Refinement == Spec => ImplementsRemoteCalls
<1>1. Init => Remote!Init
  <2> SUFFICES ASSUME Init PROVE Remote!Init
    OBVIOUS
  <2>1. Open = {} /\ Effect = {}
    BY DEF Init, Open, Effect
  <2>2. Outcome = [c \in Calls |-> "none"]
    BY DEF Init, Outcome
  <2> QED
    BY <2>1, <2>2 DEF Remote!Init
<1>2. ASSUME TypeOK, CallInv, [Next]_vars
      PROVE  Remote!Next \/ UNCHANGED Remote!vars
  <2>1. ASSUME NEW c \in Calls, Step(c) \/ Lock(c)
        PROVE  Remote!Next \/ UNCHANGED Remote!vars
    BY <1>2, <2>1, StepRefines DEF Remote!Next
  <2>2. ASSUME NEW c \in Calls, Serve(c)
        PROVE  Remote!Next \/ UNCHANGED Remote!vars
    BY <1>2, <2>2, ServeRefines DEF Remote!Next
  <2>3. ASSUME (\E t \in DOMAIN exp : Revoke(t)) \/ Tick \/ UNCHANGED vars
        PROVE  UNCHANGED Remote!vars
    <3>1. UNCHANGED <<phase, result, runs>>
      BY <2>3 DEF Revoke, Tick, vars, history
    <3> QED
      BY <3>1 DEF Remote!vars, Open, Effect, Outcome
  <2> QED
    BY <1>2, <2>1, <2>2, <2>3 DEF Next, Finished
<1>3. TypeOK /\ CallInv /\ [Next]_vars => [Remote!Next]_(Remote!vars)
  BY <1>2
<1> QED
  BY <1>1, <1>3, TypeCorrect, CallsCorrect, PTL DEF Spec, ImplementsRemoteCalls, Remote!Spec
=============================================================================
