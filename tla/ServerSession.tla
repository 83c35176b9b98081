---------------------------- MODULE ServerSession ----------------------------
(***************************************************************************)
(* One rest.Client of package iikoserver/rest and the iikoServer behind it. *)
(*                                                                         *)
(* Any number of goroutines call Do and Close on the same client.  A call   *)
(* holds Client.mu from its first line to its return, so the client sends   *)
(* one request at a time; what makes the component hard is what mu does NOT *)
(* cover: the server goes on working on a request whose caller has given up *)
(* (timeout, cancelled context, broken connection), sessions die while the  *)
(* client is idle or mid-call, and a session is a paid licence seat.        *)
(*                                                                         *)
(* A call is one goroutine in one invocation of Do or Close.  wire[c] is    *)
(* the request of call c the server has not answered yet; it may outlive    *)
(* the call.  reply[c] is an answer that reached the host of call c and has *)
(* not been read.                                                          *)
(***************************************************************************)
EXTENDS Naturals, Sequences, FiniteSets

CONSTANTS Calls,    \* the invocations of Do and Close that will be made
          NoCall,   \* nobody holds Client.mu
          Seats     \* licence seats the server can hand out

ASSUME SessionAssumption ==
    /\ NoCall \notin Calls
    /\ Seats \in Nat

NoToken == 0        \* Client.token == ""; session tokens are 1, 2, 3, ...

VARIABLES
    \* the client
    mu,             \* the call holding Client.mu, or NoCall
    token,          \* Client.token
    cookie,         \* the `key` cookie in http.Client.Jar, or NoToken
    \* its callers
    op,             \* which method call c invokes
    pc,             \* where call c is
    result,         \* what call c returned
    \* the network
    wire,           \* request of call c on its way to the server, or in it
    reply,          \* answer on its way to call c
    \* the server
    issued,         \* tokens handed out so far
    live,           \* tokens whose session, and seat, is alive
    \* history, read by the properties only
    runs,           \* how often the server executed the operation of call c
    tried,          \* the tokens call c presented, in order
    stranded        \* tokens lost together with the exchange that carried them

client  == <<mu, token, cookie>>
callers == <<op, pc, result>>
server  == <<issued, live>>
history == <<runs, tried, stranded>>
vars    == <<mu, token, cookie, op, pc, result, wire, reply, issued, live,
             runs, tried, stranded>>

-----------------------------------------------------------------------------
Token   == Nat
Request == [kind : {"none", "auth", "call", "logout"}, tok : Token, cookie : Token]
Reply   == [status : {"none", "ok", "unauthorized", "error"}, tok : Token]

NoRequest == [kind |-> "none", tok |-> NoToken, cookie |-> NoToken]
NoReply   == [status |-> "none", tok |-> NoToken]

\* Inside http.Client.Do: the request is out and the answer is not in.
Awaiting == {"auth1", "call1", "auth2", "call2", "logout"}
Places   == {"new", "waiting", "held", "returned"} \cup Awaiting

\* What a call returned: success, an Error built from the answer, an Error for
\* a second 401, a transport error, an error reading the caller's body.
Results == {"none", "ok", "error", "unauthorized", "lost", "noBody"}

\* The tokens call c has presented; for a Close, the session it is giving up.
Presented(c) == {tried[c][i] : i \in DOMAIN tried[c]}

Init ==
    /\ mu = NoCall
    /\ token = NoToken
    /\ cookie = NoToken
    /\ op = [c \in Calls |-> "do"]
    /\ pc = [c \in Calls |-> "new"]
    /\ result = [c \in Calls |-> "none"]
    /\ wire = [c \in Calls |-> NoRequest]
    /\ reply = [c \in Calls |-> NoReply]
    /\ issued = 0
    /\ live = {}
    /\ runs = [c \in Calls |-> 0]
    /\ tried = [c \in Calls |-> <<>>]
    /\ stranded = {}

-----------------------------------------------------------------------------
(* Steps shared by Do and Close.                                            *)

\* http.Client.Do puts a request out with the cookie the jar has for the host.
Send(c, kind, tok, jar, next) ==
    /\ wire' = [wire EXCEPT ![c] = [kind |-> kind, tok |-> tok, cookie |-> jar]]
    /\ reply' = [reply EXCEPT ![c] = NoReply]
    /\ pc' = [pc EXCEPT ![c] = next]

\* The deferred Unlock runs on every way out of Do and Close.
Return(c, r) ==
    /\ pc' = [pc EXCEPT ![c] = "returned"]
    /\ result' = [result EXCEPT ![c] = r]
    /\ mu' = NoCall

\* A goroutine enters Do or Close and queues on the mutex, deaf to its context.
Start(c, o) ==
    /\ pc[c] = "new"
    /\ op' = [op EXCEPT ![c] = o]
    /\ pc' = [pc EXCEPT ![c] = "waiting"]
    /\ UNCHANGED <<client, result, wire, reply, server, history>>

\* Mutation: requests do not serialize through mu.
LockUnguarded(c) ==
    /\ pc[c] = "waiting"
    /\ mu' = c
    /\ pc' = [pc EXCEPT ![c] = "held"]
    /\ UNCHANGED <<token, cookie, op, result, wire, reply, server, history>>

Lock(c) ==
    /\ pc[c] = "waiting"
    /\ mu = NoCall
    /\ mu' = c
    /\ pc' = [pc EXCEPT ![c] = "held"]
    /\ UNCHANGED <<token, cookie, op, result, wire, reply, server, history>>

-----------------------------------------------------------------------------
(* Client.Do, with attempt and authLocked.                                  *)

\* The caller's io.Reader fails before anything is sent.
BodyFails(c) ==
    /\ pc[c] = "held" /\ op[c] = "do"
    /\ Return(c, "noBody")
    /\ UNCHANGED <<token, cookie, op, wire, reply, server, history>>

\* The auth request carries no key; the jar adds whatever cookie it still has.
authLocked(c, next) ==
    /\ Send(c, "auth", NoToken, cookie, next)
    /\ UNCHANGED tried

attempt(c, tok, jar, next) ==
    /\ Send(c, "call", tok, jar, next)
    /\ tried' = [tried EXCEPT ![c] = Append(@, tok)]

DoBegin(c) ==
    /\ pc[c] = "held" /\ op[c] = "do"
    /\ \/ token = NoToken /\ authLocked(c, "auth1")
       \/ token # NoToken /\ attempt(c, token, cookie, "call1")
    /\ UNCHANGED <<client, op, result, server, runs, stranded>>

\* Mutation: the cookie of the new session is not kept.
AuthenticatedNoJar(c) ==
    /\ pc[c] \in {"auth1", "auth2"}
    /\ reply[c].status = "ok"
    /\ token' = reply[c].tok
    /\ attempt(c, token', cookie, IF pc[c] = "auth1" THEN "call1" ELSE "call2")
    /\ UNCHANGED <<mu, cookie, op, result, server, runs, stranded>>

\* authLocked got a usable token: it is stored and the request goes out with it.
Authenticated(c) ==
    /\ pc[c] \in {"auth1", "auth2"}
    /\ reply[c].status = "ok"
    /\ token' = reply[c].tok
    /\ cookie' = reply[c].tok
    /\ attempt(c, token', cookie', IF pc[c] = "auth1" THEN "call1" ELSE "call2")
    /\ UNCHANGED <<mu, op, result, server, runs, stranded>>

\* A status other than 200, or a body that is no token.
AuthRefused(c) ==
    /\ pc[c] \in {"auth1", "auth2"}
    /\ reply[c].status = "error"
    /\ Return(c, "error")
    /\ reply' = [reply EXCEPT ![c] = NoReply]
    /\ UNCHANGED <<token, cookie, op, wire, server, history>>

\* Mutation: any failure is retried, not only a 401.
ReauthenticateOnError(c) ==
    /\ pc[c] = "call1"
    /\ reply[c].status \in {"unauthorized", "error"}
    /\ token' = NoToken
    /\ authLocked(c, "auth2")
    /\ UNCHANGED <<mu, cookie, op, result, server, runs, stranded>>

\* Mutation: the second 401 is answered like the first, with one more exchange.
ReauthenticateAlways(c) ==
    /\ pc[c] \in {"call1", "call2"}
    /\ reply[c].status = "unauthorized"
    /\ token' = NoToken
    /\ authLocked(c, IF pc[c] = "call1" THEN "auth2" ELSE "auth3")
    /\ UNCHANGED <<mu, cookie, op, result, server, runs, stranded>>

\* Mutation: the retry goes out without a new token.
RetrySameToken(c) ==
    /\ pc[c] = "call1"
    /\ reply[c].status = "unauthorized"
    /\ attempt(c, token, cookie, "call2")
    /\ UNCHANGED <<client, op, result, server, runs, stranded>>

\* First 401: forget the token, authenticate again and retry, once.
Reauthenticate(c) ==
    /\ pc[c] = "call1"
    /\ reply[c].status = "unauthorized"
    /\ token' = NoToken
    /\ authLocked(c, "auth2")
    /\ UNCHANGED <<mu, cookie, op, result, server, runs, stranded>>

\* Mutation: the status check is missing, only a 401 is noticed.
DoReturnUnchecked(c) ==
    /\ \/ pc[c] = "call1" /\ reply[c].status \in {"ok", "error"}
       \/ pc[c] = "call2" /\ reply[c].status # "none"
    /\ Return(c, IF reply[c].status = "error" THEN "ok" ELSE reply[c].status)
    /\ reply' = [reply EXCEPT ![c] = NoReply]
    /\ UNCHANGED <<token, cookie, op, wire, server, history>>

\* Any other answer, and any answer to the retry, is what Do returns.
DoReturn(c) ==
    /\ \/ pc[c] = "call1" /\ reply[c].status \in {"ok", "error"}
       \/ pc[c] = "call2" /\ reply[c].status # "none"
    /\ Return(c, reply[c].status)
    /\ reply' = [reply EXCEPT ![c] = NoReply]
    /\ UNCHANGED <<token, cookie, op, wire, server, history>>

-----------------------------------------------------------------------------
(* Client.Close.                                                            *)

CloseIdle(c) ==
    /\ pc[c] = "held" /\ op[c] = "close"
    /\ token = NoToken
    /\ Return(c, "ok")
    /\ UNCHANGED <<token, cookie, op, wire, reply, server, history>>

\* net/http/cookiejar: SetCookies returns at once when it is given no cookies,
\* so SetCookies(u, nil) leaves the jar as it is.
JarSetNone(jar) == jar

\* The token is forgotten before the logout request goes out.
CloseBegin(c) ==
    /\ pc[c] = "held" /\ op[c] = "close"
    /\ token # NoToken
    /\ token' = NoToken
    /\ cookie' = JarSetNone(cookie)
    /\ Send(c, "logout", token, cookie', "logout")
    /\ tried' = [tried EXCEPT ![c] = Append(@, token)]
    /\ UNCHANGED <<mu, op, result, server, runs, stranded>>

\* Close drains the body and looks at nothing else: every answer is success.
CloseReturn(c) ==
    /\ pc[c] = "logout"
    /\ reply[c].status # "none"
    /\ Return(c, "ok")
    /\ stranded' = IF reply[c].status = "ok" THEN stranded
                                             ELSE stranded \cup Presented(c)
    /\ reply' = [reply EXCEPT ![c] = NoReply]
    /\ UNCHANGED <<token, cookie, op, wire, server, runs, tried>>

-----------------------------------------------------------------------------
(* http.Client gives up: Config.Timeout, the caller's context, a broken      *)
(* connection or a body that stops halfway.  The request may never have      *)
(* reached the server, may still be in it, or may have been answered.        *)

\* A token this exchange has cost: granted and never read, or forgotten by Close
\* with no answer to its logout.
Forfeit(c) ==
    IF pc[c] = "logout" THEN Presented(c)
    ELSE IF reply[c].tok # NoToken THEN {reply[c].tok} ELSE {}

\* Mutation: a transport error makes the client forget its session.
AbandonForgets(c) ==
    /\ pc[c] \in Awaiting
    /\ Return(c, "lost")
    /\ token' = NoToken
    /\ \/ UNCHANGED wire
       \/ wire' = [wire EXCEPT ![c] = NoRequest]
    /\ reply' = [reply EXCEPT ![c] = NoReply]
    /\ stranded' = stranded \cup Forfeit(c)
    /\ UNCHANGED <<cookie, op, server, runs, tried>>

\* Mutation: New sets no Timeout, so only a body that stops halfway ends an exchange.
AbandonNoTimeout(c) ==
    /\ pc[c] \in Awaiting
    /\ reply[c] # NoReply
    /\ Return(c, "lost")
    /\ reply' = [reply EXCEPT ![c] = NoReply]
    /\ stranded' = stranded \cup Forfeit(c)
    /\ UNCHANGED <<token, cookie, op, wire, server, runs, tried>>

Abandon(c) ==
    /\ pc[c] \in Awaiting
    /\ Return(c, "lost")
    /\ \/ UNCHANGED wire
       \/ wire' = [wire EXCEPT ![c] = NoRequest]
    /\ reply' = [reply EXCEPT ![c] = NoReply]
    /\ stranded' = stranded \cup Forfeit(c)
    /\ \/ UNCHANGED cookie          \* the headers were read, the body was not
       \/ reply[c].tok # NoToken /\ cookie' = reply[c].tok
    /\ UNCHANGED <<token, op, server, runs, tried>>

-----------------------------------------------------------------------------
(* The server, as the client's documentation and tests describe it.          *)

\* The answer reaches the caller only if it is still waiting for it.
Answer(c, status, tok) ==
    /\ wire' = [wire EXCEPT ![c] = NoRequest]
    /\ reply' = IF pc[c] \in Awaiting
                THEN [reply EXCEPT ![c] = [status |-> status, tok |-> tok]]
                ELSE reply
    /\ UNCHANGED <<client, callers, tried>>

\* A successful /auth takes a seat.
Grant(c) ==
    /\ wire[c].kind = "auth"
    /\ Cardinality(live) < Seats
    /\ issued' = issued + 1
    /\ live' = live \cup {issued'}
    /\ Answer(c, "ok", issued')
    /\ stranded' = IF pc[c] \in Awaiting THEN stranded
                                         ELSE stranded \cup {issued'}
    /\ UNCHANGED runs

\* Wrong credentials, no free seat (other programs hold seats too), an HTML page.
Refuse(c) ==
    /\ wire[c].kind = "auth"
    /\ Answer(c, "error", NoToken)
    /\ UNCHANGED <<server, runs, stranded>>

\* The operation is carried out; the answer may still be an error.
Execute(c) ==
    /\ wire[c].kind = "call"
    /\ wire[c].tok \in live
    /\ runs' = [runs EXCEPT ![c] = @ + 1]
    /\ \E status \in {"ok", "error"} : Answer(c, status, NoToken)
    /\ UNCHANGED <<server, stranded>>

\* 400, 403, 404, 409, or an HTML page from a proxy: nothing was carried out.
Reject(c) ==
    /\ wire[c].kind = "call"
    /\ Answer(c, "error", NoToken)
    /\ UNCHANGED <<server, runs, stranded>>

\* 401: the session is not known (any more).
Deny(c) ==
    /\ wire[c].kind = "call"
    /\ wire[c].tok \notin live
    /\ Answer(c, "unauthorized", NoToken)
    /\ UNCHANGED <<server, runs, stranded>>

Logout(c) ==
    /\ wire[c].kind = "logout"
    /\ live' = live \ {wire[c].tok}
    /\ Answer(c, "ok", NoToken)
    /\ UNCHANGED <<issued, runs, stranded>>

LogoutFails(c) ==
    /\ wire[c].kind = "logout"
    /\ \E status \in {"error", "unauthorized"} : Answer(c, status, NoToken)
    /\ UNCHANGED <<server, runs, stranded>>

\* About an hour without requests ends a session.
IdleTimeout(t) ==
    /\ t \in live
    /\ live' = live \ {t}
    /\ UNCHANGED <<client, callers, wire, reply, issued, history>>

Restart ==
    /\ live # {}
    /\ live' = {}
    /\ UNCHANGED <<client, callers, wire, reply, issued, history>>

-----------------------------------------------------------------------------
\* What the goroutine of call c does by itself once it holds the mutex.
Step(c) ==
    \/ BodyFails(c) \/ DoBegin(c) \/ Authenticated(c) \/ AuthRefused(c)
    \/ Reauthenticate(c) \/ DoReturn(c)
    \/ CloseIdle(c) \/ CloseBegin(c) \/ CloseReturn(c)
    \/ Abandon(c)

Serve(c) ==
    \/ Grant(c) \/ Refuse(c)
    \/ Execute(c) \/ Reject(c) \/ Deny(c)
    \/ Logout(c) \/ LogoutFails(c)

\* Every call has returned; what the server still does is seen by nobody.
Finished ==
    /\ \A c \in Calls : pc[c] = "returned"
    /\ UNCHANGED vars

Next ==
    \/ \E c \in Calls : \/ \E o \in {"do", "close"} : Start(c, o)
                        \/ Lock(c)
                        \/ Step(c)
                        \/ Serve(c)
    \/ \E t \in live : IdleTimeout(t)
    \/ Restart
    \/ Finished

Spec == Init /\ [][Next]_vars

(***************************************************************************)
(* Nothing is assumed of the server or the network.  A call that holds mu   *)
(* moves: an exchange that gets no answer ends by Config.Timeout, which New *)
(* sets to 120 s when the caller left it zero.  sync.Mutex hands the lock to *)
(* a waiter that was passed over for 1 ms, so a waiter is not starved.      *)
(***************************************************************************)
Fairness == \A c \in Calls : WF_vars(Step(c)) /\ SF_vars(Lock(c))

FairSpec == Spec /\ Fairness

-----------------------------------------------------------------------------
(* Properties.                                                              *)

\* Every variable has its type.
TypeOK ==
    /\ mu \in Calls \cup {NoCall}
    /\ token \in Token
    /\ cookie \in Token
    /\ op \in [Calls -> {"do", "close"}]
    /\ pc \in [Calls -> Places]
    /\ result \in [Calls -> Results]
    /\ wire \in [Calls -> Request]
    /\ reply \in [Calls -> Reply]
    /\ issued \in Nat
    /\ live \in SUBSET Token
    /\ runs \in [Calls -> Nat]
    /\ tried \in [Calls -> Seq(Token)]
    /\ stranded \in SUBSET Token

\* Client invariant 2, seen from the client: at most one goroutine is in an
\* exchange, and it is the one that holds mu, so no two calls ever read or write
\* token at the same time.
OneExchange ==
    \A c \in Calls : pc[c] \in {"held"} \cup Awaiting <=> mu = c

\* A Do executes its operation at most once however often it retries: a retry
\* follows a 401 only, so a document is not posted twice.
AtMostOnce == \A c \in Calls : runs[c] <= 1

\* A Do that reports success was executed; one that reports a second 401, or
\* whose body could not be read, was not and never will be, although requests may
\* still be in flight when it returns.
ResultIsHonest ==
    \A c \in Calls :
        op[c] = "do" =>
            /\ result[c] = "ok" => runs[c] = 1
            /\ result[c] \in {"unauthorized", "noBody"} =>
                   runs[c] = 0 /\ wire[c] = NoRequest

\* The retry of a Do presents a token newer than the one the server refused, and
\* there is one retry: a session that keeps dying cannot make a call loop.
RetryUsesNewToken ==
    \A c \in Calls :
        /\ Len(tried[c]) <= 2
        /\ Len(tried[c]) = 2 => tried[c][1] < tried[c][2]

\* A request travels with its session twice, as the key parameter and as the cookie,
\* and the two agree: it does not matter which of them a build of iiko reads.
CookieAgrees ==
    \A c \in Calls : wire[c].kind = "call" => wire[c].cookie = wire[c].tok

\* Every seat the client occupies is known to it (the token it holds, the grant it
\* is about to read, the session it is logging out of) unless the exchange that
\* carried the token failed: no path of Do or Close drops a live session.
SeatsAccounted ==
    \A t \in live :
        \/ t = token
        \/ t \in stranded
        \/ \E c \in Calls : \/ reply[c].tok = t
                            \/ pc[c] = "logout" /\ t \in Presented(c)

\* Leaving aside the sessions lost with a failed exchange, the client never
\* occupies two seats: it does not ask for a session while the last one may be
\* alive, so it fits a single-seat licence through any expiries and restarts.
SingleSeat == \A s, t \in live \ stranded : s = t

\* A token is never overwritten by another, and one that is stored is newer than
\* every token any call has presented: a late answer to one call cannot bring back
\* a session that another call has already found dead or closed.
TokenNeverGoesBack ==
    [][token' # token =>
         \/ token' = NoToken
         \/ /\ token = NoToken
            /\ \A c \in Calls : \A t \in Presented(c) : t < token']_vars

\* Every call that was made returns, with mu free for the next one, though the
\* server may never answer and sessions may die at any moment.
EveryCallReturns == \A c \in Calls : pc[c] = "waiting" ~> pc[c] = "returned"

\* The refinement: mu is the call being served; which calls took effect and
\* what they were told are read off runs and result.
Effect  == {c \in Calls : runs[c] > 0}
Outcome == [c \in Calls |-> IF op[c] = "close" /\ result[c] = "ok"
                            THEN "closed" ELSE result[c]]

Abstract == INSTANCE SerialCalls WITH
    serving <- mu, effect <- Effect, outcome <- Outcome

\* The client implements the abstract service of SerialCalls.
ImplementsSerialCalls == Abstract!Spec

-----------------------------------------------------------------------------
(* The inductive invariant behind the properties above.                     *)

\* Where a call is determines what it has on the wire and behind it.
CallShape ==
    \A c \in Calls :
        /\ pc[c] \in {"new", "waiting", "held"} =>
               wire[c] = NoRequest /\ tried[c] = <<>> /\ runs[c] = 0
        /\ pc[c] \in {"auth1", "auth2"} => wire[c].kind \in {"none", "auth"}
        /\ pc[c] \in {"call1", "call2"} => wire[c].kind \in {"none", "call"}
        /\ pc[c] = "logout" => wire[c].kind \in {"none", "logout"}
        /\ pc[c] \in {"auth1", "call1", "auth2", "call2"} => op[c] = "do"
        /\ pc[c] = "logout" => op[c] = "close"
        /\ wire[c].kind \in {"auth", "call"} => op[c] = "do"
        /\ wire[c].kind = "none" => wire[c] = NoRequest
        /\ pc[c] = "returned" <=> result[c] # "none"
        /\ result[c] \notin {"none", "lost"} => wire[c] = NoRequest

\* A reply belongs to a waiting call whose request has been taken off the wire.
ReplyShape ==
    \A c \in Calls :
        /\ reply[c] # NoReply => pc[c] \in Awaiting /\ wire[c] = NoRequest
        /\ reply[c].tok # NoToken => reply[c].status = "ok" /\ pc[c] \in {"auth1", "auth2"}
        /\ reply[c].status = "ok" /\ pc[c] \in {"auth1", "auth2"} => reply[c].tok # NoToken

\* What is known of the effect at each point of a call.
EffectKnown ==
    \A c \in Calls :
        /\ runs[c] \in {0, 1}
        /\ wire[c].kind = "call" => runs[c] = 0
        /\ pc[c] \in {"auth1", "auth2", "logout"} => runs[c] = 0
        /\ pc[c] \in {"call1", "call2"} =>
               /\ reply[c].status = "ok" => runs[c] = 1
               /\ reply[c].status = "unauthorized" => runs[c] = 0
        /\ op[c] = "do" =>
               /\ result[c] = "ok" => runs[c] = 1
               /\ result[c] \in {"unauthorized", "noBody"} => runs[c] = 0
        /\ op[c] = "close" => runs[c] = 0

\* How many tokens a call has presented, and which of them the client still holds.
TokenShape ==
    \A c \in Calls :
        /\ pc[c] \in {"auth1", "logout", "auth2"} => token = NoToken
        /\ pc[c] = "auth1" => Len(tried[c]) = 0
        /\ pc[c] \in {"call1", "auth2", "logout"} => Len(tried[c]) = 1
        /\ pc[c] = "call2" => Len(tried[c]) = 2
        /\ pc[c] \in {"call1", "call2"} =>
               /\ token = tried[c][Len(tried[c])]
               /\ token # NoToken
               /\ wire[c].kind = "call" => wire[c].tok = token
        /\ pc[c] = "call1" /\ reply[c].status = "unauthorized" => token \notin live
        /\ pc[c] = "logout" =>
               /\ wire[c].kind = "logout" => Presented(c) = {wire[c].tok}
               /\ reply[c].status = "ok" => Presented(c) \cap live = {}

\* Tokens are issued in order, and a grant on its way is newer than all of them.
TokensIssued ==
    /\ token <= issued
    /\ \A t \in live : t \in 1 .. issued
    /\ \A c \in Calls : reply[c].tok <= issued
    /\ \A c \in Calls : \A t \in Presented(c) : t <= issued
    /\ \A c, d \in Calls :
           reply[c].tok # NoToken => \A t \in Presented(d) : t < reply[c].tok

\* The part about calls, the part about tokens and seats, and the whole.
CallInv  == OneExchange /\ CallShape /\ ReplyShape /\ EffectKnown
TokenInv == TokenShape /\ TokensIssued /\ SeatsAccounted /\ RetryUsesNewToken
IInv     == TypeOK /\ CallInv /\ TokenInv

\* The cookie of the jar is the token whenever there is one.
CookieInv == (token # NoToken => cookie = token) /\ CookieAgrees

-----------------------------------------------------------------------------
(* What the documentation and the comments of the package say and the code   *)
(* does not do.                                                             *)

\* "Close releases the licence slot": after a Close that reported success the
\* session it closed is dead.
CloseReleasesSeat ==
    \A c \in Calls :
        op[c] = "close" /\ result[c] = "ok" => Presented(c) \cap live = {}
=============================================================================
