------------------------- MODULE ServerSessionProofs -------------------------
(***************************************************************************)
(* What ServerSession promises for every set of calls and every number of   *)
(* seats.  The inductive invariant IInv is proved in two layers: CallInv,   *)
(* which needs only the types, and TokenInv, which needs CallInv.           *)
(***************************************************************************)
EXTENDS ServerSession, TLAPS

USE DEF Token, NoToken, NoRequest, NoReply, Awaiting, Places, Results,
        client, callers, server, history

-----------------------------------------------------------------------------
(* Types.                                                                   *)

\* A request and a reply are records of their types.
LEMMA RequestType ==
    ASSUME NEW k \in {"none", "auth", "call", "logout"}, NEW t \in Nat, NEW j \in Nat
    PROVE  [kind |-> k, tok |-> t, cookie |-> j] \in Request
  BY DEF Request

\* So is a reply.
LEMMA ReplyType ==
    ASSUME NEW s \in {"none", "ok", "unauthorized", "error"}, NEW t \in Nat
    PROVE  [status |-> s, tok |-> t] \in Reply
  BY DEF Reply

\* The first state is typed.
LEMMA InitTypeOK == Init => TypeOK
  BY DEF Init, TypeOK, Request, Reply

\* The goroutine of a call keeps the types.
LEMMA StepTypeOK ==
    ASSUME TypeOK, NEW c \in Calls, Step(c)
    PROVE  TypeOK'
<1> USE DEF TypeOK, Return, Send, authLocked, attempt
<1>0. NoRequest \in Request /\ NoReply \in Reply
  BY DEF Request, Reply
<1>r. reply[c] \in Reply /\ reply[c].tok \in Nat /\ reply[c].status \in {"none", "ok", "unauthorized", "error"}
  BY DEF Reply
<1>p. Presented(c) \in SUBSET Nat
  BY DEF Presented
<1>1. CASE BodyFails(c)
  BY <1>1 DEF BodyFails
<1>2. CASE DoBegin(c)
  <2>0. token \in Nat /\ cookie \in Nat
    OBVIOUS
  <2>1. PICK k \in {"auth", "call"}, t \in Nat :
            wire' = [wire EXCEPT ![c] = [kind |-> k, tok |-> t, cookie |-> cookie]]
    BY <1>2, <2>0 DEF DoBegin
  <2>x. wire' \in [Calls -> Request]
    BY <2>0, <2>1, RequestType
  <2>2. tried' \in [Calls -> Seq(Nat)]
    <3>1. Append(tried[c], token) \in Seq(Nat)
      BY <2>0
    <3> QED
      BY <1>2, <3>1 DEF DoBegin
  <2>3. pc' \in [Calls -> Places]
    BY <1>2 DEF DoBegin
  <2>4. /\ reply' = [reply EXCEPT ![c] = NoReply]
        /\ UNCHANGED <<mu, token, cookie, op, result, issued, live, runs, stranded>>
    BY <1>2 DEF DoBegin
  <2> QED
    BY <1>0, <2>x, <2>2, <2>3, <2>4
<1>3. CASE Authenticated(c)
  <2>1. token' \in Nat /\ cookie' \in Nat
    BY <1>3, <1>r DEF Authenticated
  <2>2. wire' \in [Calls -> Request]
    BY <1>3, <2>1, RequestType DEF Authenticated
  <2>3. tried' \in [Calls -> Seq(Nat)]
    BY <1>3, <2>1 DEF Authenticated
  <2>4. pc' \in [Calls -> Places]
    BY <1>3 DEF Authenticated
  <2> QED
    BY <1>0, <1>3, <2>1, <2>2, <2>3, <2>4 DEF Authenticated
<1>4. CASE AuthRefused(c)
  BY <1>0, <1>4 DEF AuthRefused
<1>5. CASE Reauthenticate(c)
  BY <1>0, <1>5, RequestType DEF Reauthenticate
<1>6. CASE DoReturn(c)
  BY <1>0, <1>r, <1>6 DEF DoReturn
<1>7. CASE CloseIdle(c)
  BY <1>7 DEF CloseIdle
<1>8. CASE CloseBegin(c)
  BY <1>0, <1>8, RequestType DEF CloseBegin, JarSetNone
<1>9. CASE CloseReturn(c)
  BY <1>0, <1>p, <1>9 DEF CloseReturn
<1>10. CASE Abandon(c)
  BY <1>0, <1>r, <1>p, <1>10 DEF Abandon, Forfeit
<1> QED
  BY <1>1, <1>2, <1>3, <1>4, <1>5, <1>6, <1>7, <1>8, <1>9, <1>10 DEF Step

\* So does whatever the server does with a request.
LEMMA ServeTypeOK ==
    ASSUME TypeOK, NEW c \in Calls, Serve(c)
    PROVE  TypeOK'
<1> USE DEF TypeOK
<1>0. NoRequest \in Request /\ wire[c].tok \in Nat
  BY DEF Request
<1>a. ASSUME NEW s \in {"ok", "unauthorized", "error"}, NEW t \in Nat, Answer(c, s, t)
      PROVE  /\ wire' \in [Calls -> Request] /\ reply' \in [Calls -> Reply]
             /\ UNCHANGED <<mu, token, cookie, op, pc, result, tried>>
  BY <1>0, <1>a, ReplyType DEF Answer
<1>1. CASE Grant(c)
  <2>1. issued' \in Nat /\ Answer(c, "ok", issued')
    BY <1>1 DEF Grant
  <2> QED
    BY <1>1, <1>a, <2>1 DEF Grant
<1>2. CASE Refuse(c)
  BY <1>2, <1>a DEF Refuse
<1>3. CASE Execute(c)
  BY <1>3, <1>a DEF Execute
<1>4. CASE Reject(c)
  BY <1>4, <1>a DEF Reject
<1>5. CASE Deny(c)
  BY <1>5, <1>a DEF Deny
<1>6. CASE Logout(c)
  BY <1>6, <1>a DEF Logout
<1>7. CASE LogoutFails(c)
  BY <1>7, <1>a DEF LogoutFails
<1> QED
  BY <1>1, <1>2, <1>3, <1>4, <1>5, <1>6, <1>7 DEF Serve

\* Every step keeps the types.
LEMMA NextTypeOK == TypeOK /\ [Next]_vars => TypeOK'
<1> SUFFICES ASSUME TypeOK, [Next]_vars PROVE TypeOK'
  OBVIOUS
<1>1. ASSUME NEW c \in Calls, NEW o \in {"do", "close"}, Start(c, o) PROVE TypeOK'
  BY <1>1 DEF TypeOK, Start
<1>2. ASSUME NEW c \in Calls, Lock(c) PROVE TypeOK'
  BY <1>2 DEF TypeOK, Lock
<1>3. ASSUME NEW c \in Calls, Step(c) PROVE TypeOK'
  BY <1>3, StepTypeOK
<1>4. ASSUME NEW c \in Calls, Serve(c) PROVE TypeOK'
  BY <1>4, ServeTypeOK
<1>5. ASSUME NEW t \in live, IdleTimeout(t) PROVE TypeOK'
  BY <1>5 DEF TypeOK, IdleTimeout
<1>6. CASE Restart
  BY <1>6 DEF TypeOK, Restart
<1>7. CASE UNCHANGED vars
  BY <1>7 DEF TypeOK, vars, Presented
<1> QED
  BY <1>1, <1>2, <1>3, <1>4, <1>5, <1>6, <1>7 DEF Next, Finished

\* Every variable of the client, its callers, the network and the server keeps its
\* type, for any set of calls and any number of seats.
THEOREM TypeCorrect == Spec => []TypeOK
  BY InitTypeOK, NextTypeOK, PTL DEF Spec

-----------------------------------------------------------------------------
(* Calls: mutual exclusion and what is known of the effect.                 *)

\* No call has begun in the first state.
LEMMA InitCallInv == Init => CallInv
  BY SessionAssumption DEF Init, CallInv, OneExchange, CallShape, ReplyShape, EffectKnown

\* The goroutine of a call, holding mu, knows where it is and what it has sent.
LEMMA StepCallInv ==
    ASSUME TypeOK, CallInv, NEW c \in Calls, Step(c)
    PROVE  CallInv'
<1> USE SessionAssumption DEF TypeOK, CallInv, OneExchange, CallShape, ReplyShape, EffectKnown,
                Return, Send, authLocked, attempt, Request, Reply
<1>1. CASE BodyFails(c)
  BY <1>1 DEF BodyFails
<1>2. CASE DoBegin(c)
  <2>0. PICK k \in {"auth", "call"}, next \in {"auth1", "call1"} :
            /\ k = "auth" <=> next = "auth1"
            /\ pc[c] = "held" /\ op[c] = "do"
            /\ pc' = [pc EXCEPT ![c] = next]
            /\ wire' = [wire EXCEPT ![c] = [kind |-> k, tok |-> wire'[c].tok, cookie |-> cookie]]
            /\ reply' = [reply EXCEPT ![c] = NoReply]
            /\ tried' = [tried EXCEPT ![c] = tried'[c]]
            /\ UNCHANGED <<mu, op, result, runs>>
    BY <1>2 DEF DoBegin
  <2>1. OneExchange'
    BY <2>0
  <2>2. CallShape'
    BY <2>0
  <2>3. ReplyShape'
    BY <2>0
  <2>4. EffectKnown'
    BY <2>0
  <2> QED
    BY <2>1, <2>2, <2>3, <2>4
<1>3. CASE Authenticated(c)
  BY <1>3 DEF Authenticated
<1>4. CASE AuthRefused(c)
  BY <1>4 DEF AuthRefused
<1>5. CASE Reauthenticate(c)
  BY <1>5 DEF Reauthenticate
<1>6. CASE DoReturn(c)
  BY <1>6 DEF DoReturn
<1>7. CASE CloseIdle(c)
  BY <1>7 DEF CloseIdle
<1>8. CASE CloseBegin(c)
  BY <1>8 DEF CloseBegin, JarSetNone
<1>9. CASE CloseReturn(c)
  BY <1>9 DEF CloseReturn
<1>10. CASE Abandon(c)
  BY <1>10 DEF Abandon, Forfeit
<1> QED
  BY <1>1, <1>2, <1>3, <1>4, <1>5, <1>6, <1>7, <1>8, <1>9, <1>10 DEF Step

\* An answer of the server fits the exchange it ends.
LEMMA ServeCallInv ==
    ASSUME TypeOK, CallInv, NEW c \in Calls, Serve(c)
    PROVE  CallInv'
<1> USE DEF TypeOK, CallInv, OneExchange, CallShape, ReplyShape, EffectKnown,
            Answer, Request, Reply
<1>1. CASE Grant(c)
  BY <1>1 DEF Grant
<1>2. CASE Refuse(c)
  BY <1>2 DEF Refuse
<1>3. CASE Execute(c)
  BY <1>3 DEF Execute
<1>4. CASE Reject(c)
  BY <1>4 DEF Reject
<1>5. CASE Deny(c)
  BY <1>5 DEF Deny
<1>6. CASE Logout(c)
  BY <1>6 DEF Logout
<1>7. CASE LogoutFails(c)
  BY <1>7 DEF LogoutFails
<1> QED
  BY <1>1, <1>2, <1>3, <1>4, <1>5, <1>6, <1>7 DEF Serve

\* Every step keeps what is known of the calls.
LEMMA NextCallInv == TypeOK /\ CallInv /\ [Next]_vars => CallInv'
<1> SUFFICES ASSUME TypeOK, CallInv, [Next]_vars PROVE CallInv'
  OBVIOUS
<1> USE DEF CallInv, OneExchange, CallShape, ReplyShape, EffectKnown
<1>1. ASSUME NEW c \in Calls, NEW o \in {"do", "close"}, Start(c, o) PROVE CallInv'
  <2>1. OneExchange'
    BY <1>1 DEF TypeOK, Start
  <2>2. CallShape'
    BY <1>1 DEF TypeOK, Start
  <2>3. ReplyShape'
    BY <1>1 DEF TypeOK, Start
  <2>4. EffectKnown'
    BY <1>1 DEF TypeOK, Start
  <2> QED
    BY <2>1, <2>2, <2>3, <2>4
<1>2. ASSUME NEW c \in Calls, Lock(c) PROVE CallInv'
  BY <1>2, SessionAssumption DEF TypeOK, Lock
<1>3. ASSUME NEW c \in Calls, Step(c) PROVE CallInv'
  BY <1>3, StepCallInv DEF CallInv
<1>4. ASSUME NEW c \in Calls, Serve(c) PROVE CallInv'
  BY <1>4, ServeCallInv DEF CallInv
<1>5. ASSUME NEW t \in live, IdleTimeout(t) PROVE CallInv'
  BY <1>5 DEF IdleTimeout
<1>6. CASE Restart
  BY <1>6 DEF Restart
<1>7. CASE UNCHANGED vars
  BY <1>7 DEF vars
<1> QED
  BY <1>1, <1>2, <1>3, <1>4, <1>5, <1>6, <1>7 DEF Next, Finished

\* What a call is known to have sent, got back and caused, from its place in Do or
\* Close, holds in every reachable state.
THEOREM CallsCorrect == Spec => []CallInv
  BY InitCallInv, NextCallInv, TypeCorrect, PTL DEF Spec

\* At any moment at most one goroutine is in an exchange, and it holds Client.mu:
\* token and the wire are never shared by two calls.
THEOREM MutualExclusion == Spec => []OneExchange
<1>1. CallInv => OneExchange
  BY DEF CallInv
<1> QED
  BY <1>1, CallsCorrect, PTL

\* However often sessions die and exchanges fail, the operation of a Do is executed
\* at most once.
THEOREM ExecutedAtMostOnce == Spec => []AtMostOnce
<1>1. CallInv => AtMostOnce
  BY DEF CallInv, EffectKnown, AtMostOnce
<1> QED
  BY <1>1, CallsCorrect, PTL

\* What a Do returns never contradicts what the server did, or will still do.
THEOREM HonestResult == Spec => []ResultIsHonest
<1>1. CallInv => ResultIsHonest
  BY DEF CallInv, CallShape, EffectKnown, ResultIsHonest
<1> QED
  BY <1>1, CallsCorrect, PTL

-----------------------------------------------------------------------------
(* Tokens and seats.                                                        *)

\* The tokens a call has presented are the entries of its list.
LEMMA PresentedTokens ==
    ASSUME TypeOK, NEW c \in Calls
    PROVE  /\ Presented(c) \in SUBSET Nat
           /\ \A i \in 1 .. Len(tried[c]) : tried[c][i] \in Presented(c)
           /\ Len(tried[c]) = 0 => Presented(c) = {}
  BY DEF TypeOK, Presented

\* What a call has presented grows by the token it presents now.
LEMMA PresentsOneMore ==
    ASSUME TypeOK, NEW c \in Calls, NEW t \in Nat,
           tried' = [tried EXCEPT ![c] = Append(tried[c], t)]
    PROVE  /\ Presented(c)' = Presented(c) \cup {t}
           /\ \A d \in Calls : d # c => Presented(d)' = Presented(d) /\ tried'[d] = tried[d]
           /\ Len(tried'[c]) = Len(tried[c]) + 1
           /\ tried'[c][Len(tried'[c])] = t
           /\ \A i \in 1 .. Len(tried[c]) : tried'[c][i] = tried[c][i]
<1>1. tried[c] \in Seq(Nat) /\ tried'[c] = Append(tried[c], t)
  BY DEF TypeOK
<1>2. /\ Len(tried'[c]) = Len(tried[c]) + 1
      /\ tried'[c][Len(tried'[c])] = t
      /\ \A i \in 1 .. Len(tried[c]) : tried'[c][i] = tried[c][i]
  BY <1>1
<1>3. DOMAIN tried[c] = 1 .. Len(tried[c]) /\ DOMAIN tried'[c] = 1 .. Len(tried[c]) + 1
  BY <1>1, <1>2
<1>4. Presented(c)' = Presented(c) \cup {t}
  BY <1>1, <1>2, <1>3 DEF Presented
<1>5. \A d \in Calls : d # c => Presented(d)' = Presented(d) /\ tried'[d] = tried[d]
  BY DEF TypeOK, Presented
<1> QED
  BY <1>2, <1>4, <1>5

\* A step that leaves the lists alone presents nothing.
LEMMA PresentsNoMore ==
    ASSUME UNCHANGED tried, NEW c \in Calls
    PROVE  Presented(c)' = Presented(c)
  BY DEF Presented

\* Nothing has been issued or presented in the first state.
LEMMA InitTokenInv == Init => TokenInv
  BY DEF Init, TokenInv, TokenShape, TokensIssued, SeatsAccounted, RetryUsesNewToken, Presented

\* Presenting a token that was issued keeps TokensIssued.
LEMMA PresentTokensIssued ==
    ASSUME TypeOK, TokensIssued, NEW c \in Calls, NEW t \in Nat, t <= issued,
           tried' = [tried EXCEPT ![c] = Append(tried[c], t)],
           \A d \in Calls : reply'[d].tok = NoToken,
           token' \in {NoToken, t}, UNCHANGED <<issued, live>>
    PROVE  TokensIssued'
<1>1. \A d \in Calls : \A u \in Presented(d)' : u <= issued
  <2>0. Presented(c)' = Presented(c) \cup {t}
    BY PresentsOneMore
  <2>1. \A u \in Presented(c)' : u <= issued
    BY <2>0 DEF TokensIssued
  <2>2. \A d \in Calls : d # c => Presented(d)' = Presented(d)
    BY PresentsOneMore
  <2> QED
    BY <2>1, <2>2 DEF TokensIssued
<1>2. \A d \in Calls : reply'[d].tok <= issued
  BY DEF TypeOK
<1>3. token' <= issued
  BY DEF TypeOK
<1> QED
  BY <1>1, <1>2, <1>3 DEF TokensIssued

\* Presenting a second token, newer than the first, keeps RetryUsesNewToken.
LEMMA PresentRetry ==
    ASSUME TypeOK, RetryUsesNewToken, NEW c \in Calls, NEW t \in Nat,
           tried' = [tried EXCEPT ![c] = Append(tried[c], t)],
           Len(tried[c]) <= 1, \A u \in Presented(c) : u < t
    PROVE  RetryUsesNewToken'
<1>1. /\ Len(tried'[c]) = Len(tried[c]) + 1
      /\ tried'[c][Len(tried'[c])] = t
      /\ \A i \in 1 .. Len(tried[c]) : tried'[c][i] = tried[c][i]
      /\ \A d \in Calls : d # c => tried'[d] = tried[d]
  BY PresentsOneMore
<1>l. Len(tried[c]) \in Nat
  BY DEF TypeOK
<1>2. Len(tried[c]) = 0 \/ Len(tried[c]) = 1
  <2> DEFINE n == Len(tried[c])
  <2>1. n \in Nat /\ n <= 1
    BY <1>l
  <2> HIDE DEF n
  <2>2. n = 0 \/ n = 1
    BY <2>1
  <2> QED
    BY <2>2 DEF n
<1>3. Len(tried'[c]) <= 2
  BY <1>1, <1>2
<1>4. ASSUME Len(tried'[c]) = 2 PROVE tried'[c][1] < tried'[c][2]
  <2>1. Len(tried[c]) = 1
    BY <1>1, <1>2, <1>4
  <2>2. tried'[c][2] = t /\ tried'[c][1] = tried[c][1]
    BY <1>1, <1>4, <2>1
  <2>3. tried[c][1] \in Presented(c)
    BY <2>1, PresentedTokens
  <2> QED
    BY <2>2, <2>3
<1> QED
  BY <1>1, <1>3, <1>4 DEF RetryUsesNewToken

\* While call c moves, no other call is in an exchange.
LEMMA OthersIdle ==
    ASSUME TypeOK, CallInv, NEW c \in Calls, Step(c)
    PROVE  \A d \in Calls : d # c => pc[d] \notin {"held"} \cup Awaiting /\ reply[d] = NoReply
<1>1. pc[c] \in {"held"} \cup Awaiting
  BY DEF Step, BodyFails, DoBegin, Authenticated, AuthRefused, Reauthenticate,
         DoReturn, CloseIdle, CloseBegin, CloseReturn, Abandon
<1> QED
  BY <1>1 DEF CallInv, OneExchange, ReplyShape

\* So a seat that is not stranded is in the hands of call c or of the client.
LEMMA SeatHolders ==
    ASSUME TypeOK, CallInv, TokenInv, NEW c \in Calls, Step(c), NEW t \in live
    PROVE  \/ t = token
           \/ t \in stranded
           \/ reply[c].tok = t
           \/ pc[c] = "logout" /\ t \in Presented(c)
<1>1. t # NoToken
  BY DEF TokenInv, TokensIssued, TypeOK
<1>2. \A d \in Calls : d # c => reply[d].tok # t /\ pc[d] # "logout"
  BY <1>1, OthersIdle
<1> QED
  BY <1>2 DEF TokenInv, SeatsAccounted

\* Do presents the token of the client, or asks for one.
LEMMA DoBeginTokenInv ==
    ASSUME TypeOK, CallInv, TokenInv, NEW c \in Calls, DoBegin(c)
    PROVE  TokenInv'
<1>s. Step(c)
  BY DEF Step
<1>a. pc[c] = "held" /\ tried[c] = <<>> /\ reply[c] = NoReply
  BY DEF DoBegin, CallInv, CallShape, ReplyShape
<1>b. /\ pc[c] = "held" /\ Len(tried[c]) = 0 /\ Presented(c) = {}
      /\ reply[c] = NoReply /\ token \in Nat /\ token <= issued
  BY <1>a, PresentedTokens DEF TypeOK, TokenInv, TokensIssued
<1>q. reply' = [reply EXCEPT ![c] = NoReply]
  BY DEF DoBegin, Send, attempt, authLocked
<1>r. \A d \in Calls : reply'[d].tok = NoToken
  BY <1>q, <1>s, OthersIdle DEF TypeOK
<1>h. \A t \in live : t = token \/ t \in stranded
  <2>1. \A t \in live : t # NoToken
    BY DEF TokenInv, TokensIssued, TypeOK
  <2> QED
    BY <1>b, <1>s, <2>1, SeatHolders
<1>1. CASE token = NoToken
  <2>1. /\ UNCHANGED <<tried, token, live, issued, stranded>>
        /\ pc' = [pc EXCEPT ![c] = "auth1"]
        /\ wire' = [wire EXCEPT ![c] = [kind |-> "auth", tok |-> NoToken, cookie |-> cookie]]
        /\ reply' = [reply EXCEPT ![c] = NoReply]
    BY <1>1 DEF DoBegin, authLocked, Send
  <2>p. \A d \in Calls : Presented(d)' = Presented(d)
    BY <2>1, PresentsNoMore
  <2>2. TokenShape'
    BY <1>1, <1>b, <1>s, <2>1, <2>p, OthersIdle DEF TokenInv, TokenShape, TypeOK
  <2>3. TokensIssued'
    BY <1>r, <2>1, <2>p DEF TokenInv, TokensIssued, TypeOK
  <2>4. SeatsAccounted'
    BY <1>h, <2>1 DEF SeatsAccounted
  <2>5. RetryUsesNewToken'
    BY <2>1 DEF TokenInv, RetryUsesNewToken
  <2> QED
    BY <2>2, <2>3, <2>4, <2>5 DEF TokenInv
<1>2. CASE token # NoToken
  <2>1. /\ UNCHANGED <<token, live, issued, stranded>>
        /\ tried' = [tried EXCEPT ![c] = Append(tried[c], token)]
        /\ pc' = [pc EXCEPT ![c] = "call1"]
        /\ wire' = [wire EXCEPT ![c] = [kind |-> "call", tok |-> token, cookie |-> cookie]]
        /\ reply' = [reply EXCEPT ![c] = NoReply]
    BY <1>2 DEF DoBegin, attempt, Send
  <2>p. /\ \A d \in Calls : d # c => Presented(d)' = Presented(d) /\ tried'[d] = tried[d]
        /\ Len(tried'[c]) = 1
        /\ tried'[c][Len(tried'[c])] = token
    <3>1. /\ \A d \in Calls : d # c => Presented(d)' = Presented(d) /\ tried'[d] = tried[d]
          /\ Len(tried'[c]) = Len(tried[c]) + 1
          /\ tried'[c][Len(tried'[c])] = token
      BY <1>b, <2>1, PresentsOneMore
    <3> QED
      BY <1>b, <3>1
  <2>2. TokenShape'
    BY <1>2, <1>b, <1>s, <2>1, <2>p, OthersIdle DEF TokenInv, TokenShape, TypeOK
  <2>3. TokensIssued'
    BY <1>b, <1>r, <2>1, PresentTokensIssued DEF TokenInv
  <2>4. SeatsAccounted'
    BY <1>h, <2>1 DEF SeatsAccounted
  <2>5. RetryUsesNewToken'
    <3>1. RetryUsesNewToken /\ Len(tried[c]) <= 1 /\ \A u \in Presented(c) : u < token
      BY <1>b DEF TokenInv
    <3> QED
      BY <1>b, <2>1, <3>1, PresentRetry
  <2> QED
    BY <2>2, <2>3, <2>4, <2>5 DEF TokenInv
<1> QED
  BY <1>1, <1>2

\* A session that was granted becomes the client's and is presented.
LEMMA AuthenticatedTokenInv ==
    ASSUME TypeOK, CallInv, TokenInv, NEW c \in Calls, Authenticated(c)
    PROVE  TokenInv'
<1> DEFINE t == reply[c].tok
<1>s. Step(c)
  BY DEF Step
<1>t. t \in Nat /\ t # NoToken /\ t <= issued /\ \A u \in Presented(c) : u < t
  BY DEF Authenticated, CallInv, ReplyShape, TokenInv, TokensIssued, TypeOK, Reply
<1>b. pc[c] \in {"auth1", "auth2"} /\ token = NoToken
      /\ Len(tried[c]) = (IF pc[c] = "auth1" THEN 0 ELSE 1)
  BY DEF Authenticated, TokenInv, TokenShape
<1>1. /\ token' = t
      /\ UNCHANGED <<live, issued, stranded>>
      /\ tried' = [tried EXCEPT ![c] = Append(tried[c], t)]
      /\ pc' = [pc EXCEPT ![c] = IF pc[c] = "auth1" THEN "call1" ELSE "call2"]
      /\ wire' = [wire EXCEPT ![c] = [kind |-> "call", tok |-> t, cookie |-> t]]
      /\ reply' = [reply EXCEPT ![c] = NoReply]
  BY DEF Authenticated, attempt, Send
<1>r. \A d \in Calls : reply'[d].tok = NoToken
  BY <1>1, <1>s, OthersIdle DEF TypeOK
<1>p. /\ \A d \in Calls : d # c => Presented(d)' = Presented(d) /\ tried'[d] = tried[d]
      /\ Len(tried'[c]) = Len(tried[c]) + 1
      /\ tried'[c][Len(tried'[c])] = t
  BY <1>1, <1>t, PresentsOneMore
<1>2. TokenShape'
  BY <1>1, <1>b, <1>s, <1>t, <1>p, OthersIdle DEF TokenInv, TokenShape, TypeOK
<1>3. TokensIssued'
  BY <1>1, <1>t, <1>r, PresentTokensIssued DEF TokenInv
<1>4. SeatsAccounted'
  <2>1. \A u \in live : u # NoToken
    BY DEF TokenInv, TokensIssued, TypeOK
  <2>2. \A u \in live : u = t \/ u \in stranded
    BY <1>b, <1>s, <2>1, SeatHolders
  <2> QED
    BY <1>1, <2>2 DEF SeatsAccounted
<1>5. RetryUsesNewToken'
  <2>1. RetryUsesNewToken /\ Len(tried[c]) <= 1
    BY <1>b DEF TokenInv
  <2> QED
    BY <1>1, <1>t, <2>1, PresentRetry
<1> QED
  BY <1>2, <1>3, <1>4, <1>5 DEF TokenInv

\* Close presents the client's token for the last time and forgets it.
LEMMA CloseBeginTokenInv ==
    ASSUME TypeOK, CallInv, TokenInv, NEW c \in Calls, CloseBegin(c)
    PROVE  TokenInv'
<1>s. Step(c)
  BY DEF Step
<1>b. /\ pc[c] = "held" /\ Len(tried[c]) = 0 /\ Presented(c) = {}
      /\ reply[c] = NoReply /\ token \in Nat /\ token <= issued /\ token # NoToken
  BY PresentedTokens
  DEF CloseBegin, CallInv, CallShape, ReplyShape, TypeOK, TokenInv, TokensIssued
<1>1. /\ token' = NoToken
      /\ UNCHANGED <<live, issued, stranded>>
      /\ tried' = [tried EXCEPT ![c] = Append(tried[c], token)]
      /\ pc' = [pc EXCEPT ![c] = "logout"]
      /\ wire' = [wire EXCEPT ![c] = [kind |-> "logout", tok |-> token, cookie |-> cookie']]
      /\ reply' = [reply EXCEPT ![c] = NoReply]
  BY DEF CloseBegin, Send
<1>r. \A d \in Calls : reply'[d].tok = NoToken
  BY <1>1, <1>s, OthersIdle DEF TypeOK
<1>p. /\ Presented(c)' = {token}
      /\ \A d \in Calls : d # c => Presented(d)' = Presented(d) /\ tried'[d] = tried[d]
      /\ Len(tried'[c]) = 1
  <2>1. /\ Presented(c)' = Presented(c) \cup {token}
        /\ \A d \in Calls : d # c => Presented(d)' = Presented(d) /\ tried'[d] = tried[d]
        /\ Len(tried'[c]) = Len(tried[c]) + 1
    BY <1>1, <1>b, PresentsOneMore
  <2> QED
    BY <1>b, <2>1
<1>2. TokenShape'
  BY <1>1, <1>b, <1>s, <1>p, OthersIdle DEF TokenInv, TokenShape, TypeOK
<1>3. TokensIssued'
  BY <1>1, <1>b, <1>r, PresentTokensIssued DEF TokenInv
<1>4. SeatsAccounted'
  <2>1. \A u \in live : u # NoToken
    BY DEF TokenInv, TokensIssued, TypeOK
  <2>2. \A u \in live : u = token \/ u \in stranded
    BY <1>b, <1>s, <2>1, SeatHolders
  <2> QED
    BY <1>1, <1>p, <2>2 DEF SeatsAccounted, TypeOK
<1>5. RetryUsesNewToken'
  <2>1. RetryUsesNewToken /\ Len(tried[c]) <= 1 /\ \A u \in Presented(c) : u < token
    BY <1>b DEF TokenInv
  <2> QED
    BY <1>1, <1>b, <2>1, PresentRetry
<1> QED
  BY <1>2, <1>3, <1>4, <1>5 DEF TokenInv

\* The goroutine of a call keeps tokens and seats accounted for.
LEMMA StepTokenInv ==
    ASSUME TypeOK, CallInv, TokenInv, NEW c \in Calls, Step(c)
    PROVE  TokenInv'
<1>p. /\ \A d \in Calls : Presented(d) \in SUBSET Nat
      /\ \A d \in Calls : \A i \in 1 .. Len(tried[d]) : tried[d][i] \in Presented(d)
      /\ \A d \in Calls : Len(tried[d]) = 0 => Presented(d) = {}
      /\ UNCHANGED tried => \A d \in Calls : Presented(d)' = Presented(d)
  BY PresentedTokens, PresentsNoMore
<1>m. \A d \in Calls : d # c => pc[d] \notin Awaiting /\ reply[d] = NoReply
  BY OthersIdle
<1>s. ASSUME NEW t \in live
      PROVE  \/ t = token
             \/ t \in stranded
             \/ reply[c].tok = t
             \/ pc[c] = "logout" /\ t \in Presented(c)
  BY SeatHolders
<1> USE DEF TypeOK, CallInv, OneExchange, CallShape, ReplyShape, TokenInv, TokenShape,
            TokensIssued, SeatsAccounted, RetryUsesNewToken,
            Return, Send, authLocked, attempt, Request, Reply
<1>1. CASE BodyFails(c)
  <2>1. TokenShape'
    BY <1>p, <1>1 DEF BodyFails
  <2>2. TokensIssued'
    BY <1>p, <1>1 DEF BodyFails
  <2>3. SeatsAccounted'
    BY <1>p, <1>1 DEF BodyFails
  <2>4. RetryUsesNewToken'
    BY <1>p, <1>1 DEF BodyFails
  <2> QED
    BY <2>1, <2>2, <2>3, <2>4 DEF TokenInv
<1>2. CASE DoBegin(c)
  BY <1>2, DoBeginTokenInv
<1>3. CASE Authenticated(c)
  BY <1>3, AuthenticatedTokenInv
<1>4. CASE AuthRefused(c)
  <2>1. TokenShape'
    BY <1>p, <1>4 DEF AuthRefused
  <2>2. TokensIssued'
    BY <1>p, <1>4 DEF AuthRefused
  <2>3. SeatsAccounted'
    BY <1>p, <1>s, <1>4 DEF AuthRefused
  <2>4. RetryUsesNewToken'
    BY <1>p, <1>4 DEF AuthRefused
  <2> QED
    BY <2>1, <2>2, <2>3, <2>4 DEF TokenInv
<1>5. CASE Reauthenticate(c)
  <2>1. TokenShape'
    BY <1>p, <1>5 DEF Reauthenticate
  <2>2. TokensIssued'
    BY <1>p, <1>5 DEF Reauthenticate
  <2>3. SeatsAccounted'
    BY <1>p, <1>5 DEF Reauthenticate
  <2>4. RetryUsesNewToken'
    BY <1>p, <1>5 DEF Reauthenticate
  <2> QED
    BY <2>1, <2>2, <2>3, <2>4 DEF TokenInv
<1>6. CASE DoReturn(c)
  <2>1. TokenShape'
    BY <1>p, <1>6 DEF DoReturn
  <2>2. TokensIssued'
    BY <1>p, <1>6 DEF DoReturn
  <2>3. SeatsAccounted'
    BY <1>p, <1>6 DEF DoReturn
  <2>4. RetryUsesNewToken'
    BY <1>p, <1>6 DEF DoReturn
  <2> QED
    BY <2>1, <2>2, <2>3, <2>4 DEF TokenInv
<1>7. CASE CloseIdle(c)
  <2>1. TokenShape'
    BY <1>p, <1>7 DEF CloseIdle
  <2>2. TokensIssued'
    BY <1>p, <1>7 DEF CloseIdle
  <2>3. SeatsAccounted'
    BY <1>p, <1>7 DEF CloseIdle
  <2>4. RetryUsesNewToken'
    BY <1>p, <1>7 DEF CloseIdle
  <2> QED
    BY <2>1, <2>2, <2>3, <2>4 DEF TokenInv
<1>8. CASE CloseBegin(c)
  BY <1>8, CloseBeginTokenInv
<1>9. CASE CloseReturn(c)
  <2>1. TokenShape'
    BY <1>p, <1>9 DEF CloseReturn
  <2>2. TokensIssued'
    BY <1>p, <1>9 DEF CloseReturn
  <2>3. SeatsAccounted'
    <3>1. \A d \in Calls : Presented(d)' = Presented(d)
      BY <1>p, <1>9 DEF CloseReturn
    <3>2. \A t \in live : t = token \/ t \in stranded \/ t \in Presented(c)
      BY <1>s, <1>9 DEF CloseReturn
    <3>3. CASE reply[c].status = "ok"
      BY <1>9, <3>1, <3>2, <3>3 DEF CloseReturn
    <3>4. CASE reply[c].status # "ok"
      BY <1>9, <3>2, <3>4 DEF CloseReturn
    <3> QED
      BY <3>3, <3>4
  <2>4. RetryUsesNewToken'
    BY <1>p, <1>9 DEF CloseReturn
  <2> QED
    BY <2>1, <2>2, <2>3, <2>4 DEF TokenInv
<1>10. CASE Abandon(c)
  <2>1. TokenShape'
    BY <1>p, <1>10 DEF Abandon, Forfeit
  <2>2. TokensIssued'
    BY <1>p, <1>10 DEF Abandon, Forfeit
  <2>3. SeatsAccounted'
    BY <1>p, <1>10 DEF Abandon, Forfeit
  <2>4. RetryUsesNewToken'
    BY <1>p, <1>10 DEF Abandon, Forfeit
  <2> QED
    BY <2>1, <2>2, <2>3, <2>4 DEF TokenInv
<1> QED
  BY <1>1, <1>2, <1>3, <1>4, <1>5, <1>6, <1>7, <1>8, <1>9, <1>10 DEF Step

\* A seat that is neither the client's nor lost belongs to an exchange under way.
LEMMA SeatHeld ==
    ASSUME SeatsAccounted, NEW t \in live, t # token, t \notin stranded
    PROVE  \E d \in Calls : reply[d].tok = t \/ (pc[d] = "logout" /\ t \in Presented(d))
  BY DEF SeatsAccounted

\* A logout carried out gives back the seat it names and no other.
LEMMA LogoutSeats ==
    ASSUME TypeOK, CallInv, TokenInv, NEW c \in Calls, Logout(c)
    PROVE  SeatsAccounted'
<1>1. /\ UNCHANGED <<pc, token, stranded, tried>> /\ live' \subseteq live
      /\ \A d \in Calls : d # c => reply'[d] = reply[d]
  BY DEF Logout, Answer, callers, client, TypeOK
<1>2. reply[c].tok = NoToken
  BY DEF Logout, CallInv, ReplyShape
<1>3. \A d \in Calls : Presented(d)' = Presented(d)
  BY <1>1, PresentsNoMore
<1> SUFFICES ASSUME NEW t \in live', t # token, t \notin stranded
             PROVE  \E d \in Calls :
                        reply'[d].tok = t \/ (pc[d] = "logout" /\ t \in Presented(d))
  BY <1>1, <1>3 DEF SeatsAccounted
<1>4. t \in live /\ t # NoToken
  BY <1>1 DEF TokenInv, TokensIssued
<1>5. PICK d \in Calls : reply[d].tok = t \/ (pc[d] = "logout" /\ t \in Presented(d))
  BY <1>4, SeatHeld DEF TokenInv
<1>6. reply[d].tok = t => d # c
  BY <1>2, <1>4
<1>7. CASE reply[d].tok = t
  <2>1. reply'[d].tok = t
    BY <1>1, <1>5, <1>6, <1>7
  <2> QED
    BY <1>5, <2>1
<1>8. CASE pc[d] = "logout" /\ t \in Presented(d)
  BY <1>5, <1>8
<1> QED
  BY <1>5, <1>7, <1>8

\* The server keeps tokens and seats accounted for.
LEMMA ServeTokenInv ==
    ASSUME TypeOK, CallInv, TokenInv, NEW c \in Calls, Serve(c)
    PROVE  TokenInv'
<1>p. UNCHANGED tried /\ \A d \in Calls : Presented(d)' = Presented(d)
  <2>1. UNCHANGED tried
    BY DEF Serve, Grant, Refuse, Execute, Reject, Deny, Logout, LogoutFails, Answer
  <2> QED
    BY <2>1, PresentsNoMore
<1>t. \A d \in Calls : Presented(d) \in SUBSET Nat
  BY PresentedTokens
<1> USE DEF TypeOK, CallInv, OneExchange, CallShape, ReplyShape, TokenInv, TokenShape,
            TokensIssued, SeatsAccounted, RetryUsesNewToken, Answer, Request, Reply
<1>1. CASE Grant(c)
  <2>1. TokenShape'
    BY <1>p, <1>t, <1>1 DEF Grant
  <2>2. TokensIssued'
    BY <1>p, <1>t, <1>1 DEF Grant
  <2>3. SeatsAccounted'
    BY <1>p, <1>t, <1>1 DEF Grant
  <2>4. RetryUsesNewToken'
    BY <1>p, <1>t, <1>1 DEF Grant
  <2> QED
    BY <2>1, <2>2, <2>3, <2>4
<1>2. CASE Refuse(c)
  <2>1. TokenShape'
    BY <1>p, <1>t, <1>2 DEF Refuse
  <2>2. TokensIssued'
    BY <1>p, <1>t, <1>2 DEF Refuse
  <2>3. SeatsAccounted'
    BY <1>p, <1>t, <1>2 DEF Refuse
  <2>4. RetryUsesNewToken'
    BY <1>p, <1>t, <1>2 DEF Refuse
  <2> QED
    BY <2>1, <2>2, <2>3, <2>4
<1>3. CASE Execute(c)
  <2>1. TokenShape'
    BY <1>p, <1>t, <1>3 DEF Execute
  <2>2. TokensIssued'
    BY <1>p, <1>t, <1>3 DEF Execute
  <2>3. SeatsAccounted'
    BY <1>p, <1>t, <1>3 DEF Execute
  <2>4. RetryUsesNewToken'
    BY <1>p, <1>t, <1>3 DEF Execute
  <2> QED
    BY <2>1, <2>2, <2>3, <2>4
<1>4. CASE Reject(c)
  <2>1. TokenShape'
    BY <1>p, <1>t, <1>4 DEF Reject
  <2>2. TokensIssued'
    BY <1>p, <1>t, <1>4 DEF Reject
  <2>3. SeatsAccounted'
    BY <1>p, <1>t, <1>4 DEF Reject
  <2>4. RetryUsesNewToken'
    BY <1>p, <1>t, <1>4 DEF Reject
  <2> QED
    BY <2>1, <2>2, <2>3, <2>4
<1>5. CASE Deny(c)
  <2>1. TokenShape'
    BY <1>p, <1>t, <1>5 DEF Deny
  <2>2. TokensIssued'
    BY <1>p, <1>t, <1>5 DEF Deny
  <2>3. SeatsAccounted'
    BY <1>p, <1>t, <1>5 DEF Deny
  <2>4. RetryUsesNewToken'
    BY <1>p, <1>t, <1>5 DEF Deny
  <2> QED
    BY <2>1, <2>2, <2>3, <2>4
<1>6. CASE Logout(c)
  <2>1. TokenShape'
    BY <1>p, <1>t, <1>6 DEF Logout
  <2>2. TokensIssued'
    BY <1>p, <1>t, <1>6 DEF Logout
  <2>3. SeatsAccounted'
    BY <1>6, LogoutSeats
  <2>4. RetryUsesNewToken'
    BY <1>p, <1>t, <1>6 DEF Logout
  <2> QED
    BY <2>1, <2>2, <2>3, <2>4
<1>7. CASE LogoutFails(c)
  <2>1. TokenShape'
    BY <1>p, <1>t, <1>7 DEF LogoutFails
  <2>2. TokensIssued'
    BY <1>p, <1>t, <1>7 DEF LogoutFails
  <2>3. SeatsAccounted'
    BY <1>p, <1>t, <1>7 DEF LogoutFails
  <2>4. RetryUsesNewToken'
    BY <1>p, <1>t, <1>7 DEF LogoutFails
  <2> QED
    BY <2>1, <2>2, <2>3, <2>4
<1> QED
  BY <1>1, <1>2, <1>3, <1>4, <1>5, <1>6, <1>7 DEF Serve

\* Every step does.
LEMMA NextTokenInv == TypeOK /\ CallInv /\ TokenInv /\ [Next]_vars => TokenInv'
<1> SUFFICES ASSUME TypeOK, CallInv, TokenInv, [Next]_vars PROVE TokenInv'
  OBVIOUS
<1> USE DEF TokenInv, TokenShape, TokensIssued, SeatsAccounted, RetryUsesNewToken
<1>1. ASSUME NEW c \in Calls, NEW o \in {"do", "close"}, Start(c, o) PROVE TokenInv'
  BY <1>1, PresentsNoMore DEF TypeOK, Start
<1>2. ASSUME NEW c \in Calls, Lock(c) PROVE TokenInv'
  BY <1>2, PresentsNoMore DEF TypeOK, Lock
<1>3. ASSUME NEW c \in Calls, Step(c) PROVE TokenInv'
  BY <1>3, StepTokenInv
<1>4. ASSUME NEW c \in Calls, Serve(c) PROVE TokenInv'
  BY <1>4, ServeTokenInv
<1>5. ASSUME NEW t \in live, IdleTimeout(t) PROVE TokenInv'
  BY <1>5, PresentsNoMore DEF TypeOK, IdleTimeout
<1>6. CASE Restart
  BY <1>6, PresentsNoMore DEF TypeOK, Restart
<1>7. CASE UNCHANGED vars
  BY <1>7, PresentsNoMore DEF TypeOK, vars
<1> QED
  BY <1>1, <1>2, <1>3, <1>4, <1>5, <1>6, <1>7 DEF Next, Finished

\* The inductive invariant.
THEOREM SessionInvariant == Spec => []IInv
<1>1. Init => IInv
  BY InitTypeOK, InitCallInv, InitTokenInv DEF IInv
<1>2. IInv /\ [Next]_vars => IInv'
  BY NextTypeOK, NextCallInv, NextTokenInv DEF IInv
<1> QED
  BY <1>1, <1>2, PTL DEF Spec

\* No path of Do or Close loses a live session other than by losing an exchange.
THEOREM NoSeatLost == Spec => []SeatsAccounted
<1>1. IInv => SeatsAccounted
  BY DEF IInv, TokenInv
<1> QED
  BY <1>1, SessionInvariant, PTL

\* Apart from sessions lost with an exchange, the client never occupies two seats.
THEOREM OneSeat == Spec => []SingleSeat
<1>1. IInv => SingleSeat
  <2> SUFFICES ASSUME IInv, NEW s \in live \ stranded, NEW t \in live \ stranded
               PROVE  s = t
    BY DEF SingleSeat
  <2> USE DEF IInv, TypeOK, CallInv, TokenInv
  <2>1. s # NoToken /\ t # NoToken
    BY DEF TokensIssued
  <2>2. CASE \E c \in Calls : pc[c] \in Awaiting
    <3>1. PICK c \in Calls : pc[c] \in Awaiting
      BY <2>2
    <3>2. \A d \in Calls : d # c => reply[d] = NoReply /\ pc[d] # "logout"
      BY <3>1 DEF OneExchange, ReplyShape
    <3>3. ASSUME NEW u \in live, u \notin stranded
          PROVE  \/ u = token
                 \/ reply[c].tok = u
                 \/ pc[c] = "logout" /\ u \in Presented(c)
      <4>1. u # NoToken
        BY DEF TokensIssued
      <4>2. SUFFICES ASSUME u # token
                     PROVE  reply[c].tok = u \/ (pc[c] = "logout" /\ u \in Presented(c))
        OBVIOUS
      <4>3. PICK d \in Calls : reply[d].tok = u \/ (pc[d] = "logout" /\ u \in Presented(d))
        BY <3>3, <4>2, SeatHeld
      <4>4. d = c
        BY <3>2, <4>1, <4>3
      <4> QED
        BY <4>3, <4>4
    <3>4. reply[c].tok # NoToken => token = NoToken /\ pc[c] # "logout"
      BY DEF ReplyShape, TokenShape
    <3>5. pc[c] = "logout" => token = NoToken /\ \E u : Presented(c) = {u}
      <4>1. SUFFICES ASSUME pc[c] = "logout"
                     PROVE  token = NoToken /\ \E u : Presented(c) = {u}
        OBVIOUS
      <4>2. token = NoToken /\ Len(tried[c]) = 1
        BY <4>1 DEF TokenShape
      <4>3. DOMAIN tried[c] = {1}
        BY <4>2
      <4>4. Presented(c) = {tried[c][1]}
        BY <4>3 DEF Presented
      <4> QED
        BY <4>2, <4>4
    <3> QED
      BY <2>1, <3>3, <3>4, <3>5
  <2>3. CASE ~ \E c \in Calls : pc[c] \in Awaiting
    BY <2>1, <2>3 DEF SeatsAccounted, ReplyShape
  <2> QED
    BY <2>2, <2>3
<1> QED
  BY <1>1, SessionInvariant, PTL

\* A retry presents a newer token than the one refused, and there is only one.
THEOREM RetryIsNewer == Spec => []RetryUsesNewToken
<1>1. IInv => RetryUsesNewToken
  BY DEF IInv, TokenInv
<1> QED
  BY <1>1, SessionInvariant, PTL

-----------------------------------------------------------------------------
(* The cookie.                                                              *)

\* The goroutine of a call sends the key and the cookie of one session.
LEMMA StepCookieInv ==
    ASSUME TypeOK, CallInv, TokenInv, CookieInv, NEW c \in Calls, Step(c)
    PROVE  CookieInv'
<1> USE DEF TypeOK, CallInv, ReplyShape, TokenInv, TokenShape, CookieInv, CookieAgrees,
            Return, Send, authLocked, attempt, Request, Reply
<1>1. CASE BodyFails(c)
  BY <1>1 DEF BodyFails
<1>2. CASE DoBegin(c)
  <2>1. CASE token = NoToken
    <3>1. /\ wire' = [wire EXCEPT ![c] = [kind |-> "auth", tok |-> NoToken, cookie |-> cookie]]
          /\ UNCHANGED <<token, cookie>>
      BY <1>2, <2>1 DEF DoBegin
    <3> QED
      BY <3>1
  <2>2. CASE token # NoToken
    <3>1. /\ wire' = [wire EXCEPT ![c] = [kind |-> "call", tok |-> token, cookie |-> cookie]]
          /\ UNCHANGED <<token, cookie>> /\ cookie = token
      BY <1>2, <2>2 DEF DoBegin
    <3> QED
      BY <3>1
  <2> QED
    BY <2>1, <2>2
<1>3. CASE Authenticated(c)
  BY <1>3 DEF Authenticated
<1>4. CASE AuthRefused(c)
  BY <1>4 DEF AuthRefused
<1>5. CASE Reauthenticate(c)
  BY <1>5 DEF Reauthenticate
<1>6. CASE DoReturn(c)
  BY <1>6 DEF DoReturn
<1>7. CASE CloseIdle(c)
  BY <1>7 DEF CloseIdle
<1>8. CASE CloseBegin(c)
  BY <1>8 DEF CloseBegin
<1>9. CASE CloseReturn(c)
  BY <1>9 DEF CloseReturn
<1>10. CASE Abandon(c)
  <2>1. token # NoToken => reply[c].tok = NoToken
    OBVIOUS
  <2>2. token' # NoToken => cookie' = token'
    BY <1>10, <2>1 DEF Abandon
  <2>3. wire' = wire \/ wire' = [wire EXCEPT ![c] = NoRequest]
    BY <1>10 DEF Abandon
  <2>4. CASE wire' = wire
    BY <2>2, <2>4
  <2>5. CASE wire' = [wire EXCEPT ![c] = NoRequest]
    BY <2>2, <2>5
  <2> QED
    BY <2>3, <2>4, <2>5
<1> QED
  BY <1>1, <1>2, <1>3, <1>4, <1>5, <1>6, <1>7, <1>8, <1>9, <1>10 DEF Step

\* Every step keeps the two in agreement.
LEMMA NextCookieInv ==
    TypeOK /\ CallInv /\ TokenInv /\ CookieInv /\ [Next]_vars => CookieInv'
<1> SUFFICES ASSUME TypeOK, CallInv, TokenInv, CookieInv, [Next]_vars PROVE CookieInv'
  OBVIOUS
<1> USE DEF CookieInv, CookieAgrees
<1>1. ASSUME NEW c \in Calls, NEW o \in {"do", "close"}, Start(c, o) PROVE CookieInv'
  BY <1>1 DEF Start
<1>2. ASSUME NEW c \in Calls, Lock(c) PROVE CookieInv'
  BY <1>2 DEF Lock
<1>3. ASSUME NEW c \in Calls, Step(c) PROVE CookieInv'
  BY <1>3, StepCookieInv DEF CookieInv
<1>4. ASSUME NEW c \in Calls, Serve(c) PROVE CookieInv'
  <2>1. UNCHANGED <<token, cookie>> /\ wire' = [wire EXCEPT ![c] = NoRequest]
    BY <1>4 DEF Serve, Grant, Refuse, Execute, Reject, Deny, Logout, LogoutFails, Answer
  <2> QED
    BY <2>1 DEF TypeOK
<1>5. ASSUME NEW t \in live, IdleTimeout(t) PROVE CookieInv'
  BY <1>5 DEF IdleTimeout
<1>6. CASE Restart
  BY <1>6 DEF Restart
<1>7. CASE UNCHANGED vars
  BY <1>7 DEF vars
<1> QED
  BY <1>1, <1>2, <1>3, <1>4, <1>5, <1>6, <1>7 DEF Next, Finished

\* A request never names one session in its key and another in its cookie.
THEOREM KeyAndCookieAgree == Spec => []CookieAgrees
<1>1. Init => CookieInv
  BY DEF Init, CookieInv, CookieAgrees
<1>2. IInv /\ CookieInv /\ [Next]_vars => CookieInv'
  BY NextCookieInv DEF IInv
<1>3. CookieInv => CookieAgrees
  BY DEF CookieInv
<1> QED
  BY <1>1, <1>2, <1>3, SessionInvariant, PTL DEF Spec

-----------------------------------------------------------------------------
(* Token order.                                                             *)

\* No step of anybody puts back a token that some call has presented before.
THEOREM TokenOrder == Spec => TokenNeverGoesBack
<1> DEFINE Forward ==
      token' # token =>
         \/ token' = NoToken
         \/ /\ token = NoToken
            /\ \A c \in Calls : \A t \in Presented(c) : t < token'
<1>1. ASSUME IInv, [Next]_vars PROVE Forward
  <2>1. ASSUME NEW c \in Calls, Authenticated(c) PROVE Forward
    BY <1>1, <2>1 DEF IInv, CallInv, ReplyShape, TokenInv, TokenShape, TokensIssued, Authenticated
  <2>2. ASSUME NEW c \in Calls, Step(c), ~ Authenticated(c)
        PROVE  UNCHANGED token \/ token' = NoToken
    BY <2>2 DEF Step, BodyFails, DoBegin, AuthRefused, Reauthenticate, DoReturn,
                CloseIdle, CloseBegin, CloseReturn, Abandon
  <2>3. ASSUME NEW c \in Calls, Serve(c) PROVE UNCHANGED token
    BY <2>3 DEF Serve, Grant, Refuse, Execute, Reject, Deny, Logout, LogoutFails, Answer
  <2>4. ASSUME NEW c \in Calls, (\E o \in {"do", "close"} : Start(c, o)) \/ Lock(c)
        PROVE  UNCHANGED token
    BY <2>4 DEF Start, Lock
  <2>5. ASSUME (\E t \in live : IdleTimeout(t)) \/ Restart \/ UNCHANGED vars
        PROVE  UNCHANGED token
    BY <2>5 DEF IdleTimeout, Restart, vars
  <2> QED
    BY <1>1, <2>1, <2>2, <2>3, <2>4, <2>5 DEF Next, Finished
<1>2. IInv /\ [Next]_vars => [Forward]_vars
  BY <1>1
<1> QED
  BY <1>2, SessionInvariant, PTL DEF Spec, TokenNeverGoesBack

-----------------------------------------------------------------------------
(* Refinement of SerialCalls.                                               *)

\* What a step of call c looks like from above.
LEMMA StepRefines ==
    ASSUME TypeOK, CallInv, NEW c \in Calls, Step(c)
    PROVE  (\E o \in Abstract!Outcomes : Abstract!Settle(c, o)) \/ UNCHANGED Abstract!vars
<1>m. mu = c
  BY OthersIdle DEF CallInv, OneExchange, Step, BodyFails, DoBegin, Authenticated, AuthRefused,
     Reauthenticate, DoReturn, CloseIdle, CloseBegin, CloseReturn, Abandon
<1>r. ASSUME NEW r \in Results \ {"none"}, Return(c, r), UNCHANGED <<op, runs>>,
             op[c] = "do" => (r = "ok" => runs[c] = 1),
             op[c] = "do" => (r \in {"unauthorized", "noBody"} => runs[c] = 0),
             op[c] = "close" => r \in {"ok", "lost"} /\ runs[c] = 0
      PROVE  \E o \in Abstract!Outcomes : Abstract!Settle(c, o)
  <2> DEFINE o == IF op[c] = "close" /\ r = "ok" THEN "closed" ELSE r
  <2>1. o \in Abstract!Outcomes \cup {"error"}
    BY <1>r DEF Abstract!Outcomes
  <2>2. UNCHANGED Effect /\ (c \in Effect <=> runs[c] > 0)
    BY <1>r DEF Effect
  <2>3. Outcome' = [Outcome EXCEPT ![c] = o]
    BY <1>r DEF Outcome, Return, TypeOK
  <2>4. mu' = NoCall
    BY <1>r DEF Return
  <2>5. /\ o = "ok" => c \in Effect
        /\ o \in {"unauthorized", "noBody", "closed"} => c \notin Effect
    BY <1>r, <2>2 DEF TypeOK
  <2> QED
    BY <1>m, <2>1, <2>2, <2>3, <2>4, <2>5 DEF Abstract!Settle, Abstract!Outcomes
<1>s. ASSUME UNCHANGED <<mu, op, result, runs>> PROVE UNCHANGED Abstract!vars
  BY <1>s DEF Abstract!vars, Effect, Outcome
<1> USE DEF CallInv, CallShape, ReplyShape, EffectKnown, TypeOK
<1>1. CASE BodyFails(c)
  BY <1>1, <1>r DEF BodyFails
<1>2. CASE DoBegin(c)
  BY <1>2, <1>s DEF DoBegin
<1>3. CASE Authenticated(c)
  BY <1>3, <1>s DEF Authenticated
<1>4. CASE AuthRefused(c)
  BY <1>4, <1>r DEF AuthRefused
<1>5. CASE Reauthenticate(c)
  BY <1>5, <1>s DEF Reauthenticate
<1>6. CASE DoReturn(c)
  BY <1>6, <1>r DEF DoReturn, Reply
<1>7. CASE CloseIdle(c)
  BY <1>7, <1>r DEF CloseIdle
<1>8. CASE CloseBegin(c)
  BY <1>8, <1>s DEF CloseBegin
<1>9. CASE CloseReturn(c)
  BY <1>9, <1>r DEF CloseReturn
<1>10. CASE Abandon(c)
  BY <1>10, <1>r DEF Abandon
<1> QED
  BY <1>1, <1>2, <1>3, <1>4, <1>5, <1>6, <1>7, <1>8, <1>9, <1>10 DEF Step

\* A request carried out is the abstract call taking effect; any other answer is
\* invisible.
LEMMA ServeRefines ==
    ASSUME TypeOK, CallInv, NEW c \in Calls, Serve(c)
    PROVE  Abstract!TakeEffect(c) \/ UNCHANGED Abstract!vars
<1>1. CASE Execute(c)
  <2>1. runs[c] = 0 /\ op[c] = "do" /\ (mu = c \/ result[c] = "lost")
    <3>1. wire[c].kind = "call" /\ wire[c] # NoRequest
      BY <1>1 DEF Execute
    <3>2. runs[c] = 0 /\ op[c] = "do"
      BY <3>1 DEF CallInv, CallShape, EffectKnown
    <3>3. pc[c] \in Awaiting \/ pc[c] = "returned"
      BY <3>1 DEF CallInv, CallShape, TypeOK
    <3>4. pc[c] \in Awaiting => mu = c
      BY DEF CallInv, OneExchange
    <3>5. pc[c] = "returned" => result[c] = "lost"
      BY <3>1 DEF CallInv, CallShape
    <3> QED
      BY <3>2, <3>3, <3>4, <3>5
  <2>2. UNCHANGED <<mu, op, result>> /\ runs' = [runs EXCEPT ![c] = runs[c] + 1]
    BY <1>1 DEF Execute, Answer
  <2>3. c \notin Effect /\ Effect' = Effect \cup {c}
    BY <2>1, <2>2 DEF Effect, TypeOK
  <2>4. UNCHANGED Outcome /\ (result[c] = "lost" => Outcome[c] = "lost")
    BY <2>2 DEF Outcome
  <2> QED
    BY <2>1, <2>2, <2>3, <2>4 DEF Abstract!TakeEffect
<1>2. CASE ~ Execute(c)
  <2>1. UNCHANGED <<mu, op, result, runs>>
    BY <1>2 DEF Serve, Grant, Refuse, Reject, Deny, Logout, LogoutFails, Answer
  <2> QED
    BY <2>1 DEF Abstract!vars, Effect, Outcome
<1> QED
  BY <1>1, <1>2

\* Whatever the network and the server do, Do and Close behave as the one-at-a-time
\* service of SerialCalls, where an operation takes effect at most once and the
\* outcome says what is known of it.
THEOREM Refinement == Spec => ImplementsSerialCalls
<1>1. Init => Abstract!Init
  <2> SUFFICES ASSUME Init PROVE Abstract!Init
    OBVIOUS
  <2>1. Effect = {}
    BY DEF Init, Effect
  <2>2. Outcome = [c \in Calls |-> "none"]
    BY DEF Init, Outcome
  <2> QED
    BY <2>1, <2>2 DEF Init, Abstract!Init
<1>2. ASSUME TypeOK, CallInv, [Next]_vars
      PROVE  Abstract!Next \/ UNCHANGED Abstract!vars
  <2>1. ASSUME NEW c \in Calls, NEW o \in {"do", "close"}, Start(c, o)
        PROVE  UNCHANGED Abstract!vars
    <3>1. UNCHANGED <<mu, result, runs>> /\ op' = [op EXCEPT ![c] = o] /\ result[c] = "none"
      BY <1>2, <2>1 DEF Start, CallInv, CallShape
    <3>2. UNCHANGED Outcome
      BY <1>2, <3>1 DEF Outcome, TypeOK
    <3> QED
      BY <3>1, <3>2 DEF Abstract!vars, Effect
  <2>2. ASSUME NEW c \in Calls, Lock(c) PROVE Abstract!Admit(c)
    BY <1>2, <2>2 DEF Lock, Abstract!Admit, Effect, Outcome, CallInv, CallShape
  <2>3. ASSUME NEW c \in Calls, Step(c) PROVE Abstract!Next \/ UNCHANGED Abstract!vars
    BY <1>2, <2>3, StepRefines DEF Abstract!Next
  <2>4. ASSUME NEW c \in Calls, Serve(c) PROVE Abstract!Next \/ UNCHANGED Abstract!vars
    BY <1>2, <2>4, ServeRefines DEF Abstract!Next
  <2>5. ASSUME (\E t \in live : IdleTimeout(t)) \/ Restart \/ UNCHANGED vars
        PROVE  UNCHANGED Abstract!vars
    BY <2>5 DEF IdleTimeout, Restart, vars, Abstract!vars, Effect, Outcome
  <2> QED
    BY <1>2, <2>1, <2>2, <2>3, <2>4, <2>5 DEF Next, Finished, Abstract!Next
<1>3. TypeOK /\ CallInv /\ [Next]_vars => [Abstract!Next]_(Abstract!vars)
  BY <1>2
<1> QED
  BY <1>1, <1>3, TypeCorrect, CallsCorrect, PTL DEF Spec, ImplementsSerialCalls, Abstract!Spec

\* Serving one call at a time is a way of serving calls: what holds of every call of
\* SerialCalls holds of a call of RemoteCalls.
LEMMA SerialIsRemote == Abstract!Spec => Abstract!ImplementsRemoteCalls
<1> USE DEF Abstract!Outcomes, Abstract!Remote!Outcomes, Abstract!Remote!Effectless
<1>0. NoCall \notin Calls
  BY SessionAssumption
<1>1. Abstract!Init => Abstract!Remote!Init
  BY DEF Abstract!Init, Abstract!Open, Abstract!Remote!Init
<1>2. [Abstract!Next]_(Abstract!vars) => [Abstract!Remote!Next]_(Abstract!Remote!vars)
  <2> SUFFICES ASSUME [Abstract!Next]_(Abstract!vars)
               PROVE  Abstract!Remote!Next \/ UNCHANGED Abstract!Remote!vars
    OBVIOUS
  <2>1. ASSUME NEW c \in Calls, Abstract!Admit(c) PROVE Abstract!Remote!Admit(c)
    BY <1>0, <2>1 DEF Abstract!Admit, Abstract!Open, Abstract!Remote!Admit
  <2>2. ASSUME NEW c \in Calls, Abstract!TakeEffect(c) PROVE Abstract!Remote!TakeEffect(c)
    BY <1>0, <2>2 DEF Abstract!TakeEffect, Abstract!Open, Abstract!Remote!TakeEffect
  <2>3. ASSUME NEW c \in Calls, NEW o \in Abstract!Outcomes, Abstract!Settle(c, o)
        PROVE  Abstract!Remote!Settle(c, o)
    BY <1>0, <2>3 DEF Abstract!Settle, Abstract!Open, Abstract!Remote!Settle
  <2>4. CASE UNCHANGED Abstract!vars
    BY <2>4 DEF Abstract!vars, Abstract!Open, Abstract!Remote!vars
  <2> QED
    BY <2>1, <2>2, <2>3, <2>4 DEF Abstract!Next, Abstract!Remote!Next
<1> QED
  BY <1>1, <1>2, PTL DEF Abstract!Spec, Abstract!ImplementsRemoteCalls, Abstract!Remote!Spec

\* A Do or Close of the client is a call of RemoteCalls, which is what the services are
\* modelled over: what they rely on holds over the iikoServer client whatever the network
\* and the server do.
THEOREM ClientIsRemote == Spec => Abstract!ImplementsRemoteCalls
  BY Refinement, SerialIsRemote DEF ImplementsSerialCalls
=============================================================================
