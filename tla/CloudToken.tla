------------------------------ MODULE CloudToken ------------------------------
(***************************************************************************)
(* The access token of package iikocloud/rest and the exchanges that use it: *)
(* what a Post does between acquire and release, with accessToken and send,  *)
(* and the iikoCloud servers behind it.                                     *)
(*                                                                         *)
(* Client.mu is held while a token is fetched, never while an operation is   *)
(* under way, so calls run at the same time, read a token and use it later:  *)
(* by then another call may have replaced it, its hour may be over, or the   *)
(* server may have revoked it.  An exchange lasts at most Timeout.           *)
(***************************************************************************)
EXTENDS Naturals, Sequences, FiniteSets

CONSTANTS Calls,          \* the invocations of Post that will be made
          NoCall,         \* nobody holds Client.mu
          Timeout,        \* http.Client.Timeout, as New sets it: 2 minutes
          RefreshWindow,  \* refreshWindow: 5 minutes
          Hour,           \* the documented lifetime of a token
          Lifetimes,      \* the lifetimes a token with an exp claim may have
          Horizon         \* bound: time stops here

TokenAssumption ==
    /\ NoCall \notin Calls
    /\ Timeout \in Nat /\ RefreshWindow \in Nat /\ Hour \in Nat /\ Horizon \in Nat
    /\ Lifetimes \subseteq Nat
ASSUME TokenAssumption

\* What the constants of the package and the documented lifetime amount to.
HeadroomAssumption ==
    /\ 2 * Timeout <= RefreshWindow
    /\ 2 * Timeout < Hour
    /\ \A life \in Lifetimes : 2 * Timeout < life
ASSUME HeadroomAssumption

NoToken == 0        \* Client.token == ""; tokens are 1, 2, 3, ...
NoClaim == 0        \* a token whose exp claim cannot be read

VARIABLES
    now,            \* what Client.now returns, and the servers' clock
    \* the client
    mu,             \* the call holding Client.mu, or NoCall
    token,          \* Client.token
    expires,        \* Client.expires
    phase,          \* where call c is
    deadline,       \* when http.Client gives up the exchange of call c
    result,         \* what call c returned
    \* the network
    wire,           \* request of call c on its way to the server, or in it
    reply,          \* answer on its way to call c
    \* the servers
    exp,            \* exp[t]: when token t expires, for all tokens issued so far
    revoked,        \* tokens taken back before that
    \* history, read by the properties only
    runs,           \* how often the servers executed the operation of call c
    tried           \* the tokens call c presented, in order

cache   == <<mu, token, expires>>
server  == <<exp, revoked>>
history == <<runs, tried>>
vars    == <<now, mu, token, expires, phase, deadline, result, wire, reply,
             exp, revoked, runs, tried>>

-----------------------------------------------------------------------------
Token    == Nat
Request  == [kind : {"none", "token", "call"}, tok : Token]
Statuses == {"none", "ok", "unauthorized", "limited", "error"}
Reply    == [status : Statuses, tok : Token, claim : Nat]

NoRequest == [kind |-> "none", tok |-> NoToken]
NoReply   == [status |-> "none", tok |-> NoToken, claim |-> NoClaim]

\* Inside http.Client.Do.
Awaiting == {"fetch", "call1", "refetch", "call2"}
Phases   == {"idle", "access", "force", "returned"} \cup Awaiting

\* nil, Error, RateLimitError, Error of a second 401, AuthError, a transport
\* error, a body that could not be encoded or decoded.
Results == {"none", "ok", "error", "limited", "unauthorized", "authError", "lost",
            "badBody"}

Presented(c) == {tried[c][i] : i \in DOMAIN tried[c]}

Init ==
    /\ now = 0
    /\ mu = NoCall
    /\ token = NoToken
    /\ expires = 0
    /\ phase = [c \in Calls |-> "idle"]
    /\ deadline = [c \in Calls |-> 0]
    /\ result = [c \in Calls |-> "none"]
    /\ wire = [c \in Calls |-> NoRequest]
    /\ reply = [c \in Calls |-> NoReply]
    /\ exp = <<>>
    /\ revoked = {}
    /\ runs = [c \in Calls |-> 0]
    /\ tried = [c \in Calls |-> <<>>]

-----------------------------------------------------------------------------
(* Client.Post between acquire and release.                                 *)

\* Client.send.
Send(c, kind, tok, next) ==
    /\ wire' = [wire EXCEPT ![c] = [kind |-> kind, tok |-> tok]]
    /\ reply' = [reply EXCEPT ![c] = NoReply]
    /\ deadline' = [deadline EXCEPT ![c] = now + Timeout]
    /\ phase' = [phase EXCEPT ![c] = next]

SendOperation(c, tok, next) ==
    /\ Send(c, "call", tok, next)
    /\ tried' = [tried EXCEPT ![c] = Append(@, tok)]

Return(c, r) ==
    /\ phase' = [phase EXCEPT ![c] = "returned"]
    /\ result' = [result EXCEPT ![c] = r]
    /\ reply' = [reply EXCEPT ![c] = NoReply]
    /\ deadline' = [deadline EXCEPT ![c] = 0]

\* The body is encoded before a token is asked for.
EncodeFails(c) ==
    /\ phase[c] = "idle"
    /\ Return(c, "badBody")
    /\ UNCHANGED <<now, cache, wire, server, history>>

Begin(c) ==
    /\ phase[c] = "idle"
    /\ phase' = [phase EXCEPT ![c] = "access"]
    /\ UNCHANGED <<now, cache, deadline, result, wire, reply, server, history>>

\* Mutation: no headroom, a token is used up to its last moment.
FreshToTheEnd == token # NoToken /\ now < expires

\* now is before expires - refreshWindow.
Fresh == token # NoToken /\ now + RefreshWindow < expires

\* accessToken(force = false) finds the cached token good.
CacheHit(c) ==
    /\ phase[c] = "access"
    /\ mu = NoCall
    /\ Fresh
    /\ SendOperation(c, token, "call1")
    /\ UNCHANGED <<now, cache, result, server, runs>>

\* Mutation: the token is looked up without the mutex.
FetchUnguarded(c) ==
    /\ \/ phase[c] = "access" /\ ~Fresh /\ Send(c, "token", NoToken, "fetch")
       \/ phase[c] = "force" /\ Send(c, "token", NoToken, "refetch")
    /\ mu' = c
    /\ UNCHANGED <<now, token, expires, result, server, history>>

\* Mutation: every call fetches a token.
FetchAlways(c) ==
    /\ mu = NoCall
    /\ \/ phase[c] = "access" /\ Send(c, "token", NoToken, "fetch")
       \/ phase[c] = "force" /\ Send(c, "token", NoToken, "refetch")
    /\ mu' = c
    /\ UNCHANGED <<now, token, expires, result, server, history>>

\* It is missing or in its refresh window, or the call must have a new one.
Fetch(c) ==
    /\ mu = NoCall
    /\ \/ phase[c] = "access" /\ ~Fresh /\ Send(c, "token", NoToken, "fetch")
       \/ phase[c] = "force" /\ Send(c, "token", NoToken, "refetch")
    /\ mu' = c
    /\ UNCHANGED <<now, token, expires, result, server, history>>

\* Mutation: the time of issue is stored for the time of expiry.
tokenIssued(claim) == IF claim # NoClaim THEN claim - Hour ELSE now

\* tokenExpiry: the exp claim, or the documented hour counted from now.
tokenExpiry(claim) == IF claim # NoClaim THEN claim ELSE now + Hour

\* The token is stored, mu is free and the operation goes out with the token.
TokenStored(c) ==
    /\ phase[c] \in {"fetch", "refetch"}
    /\ reply[c].status = "ok"
    /\ token' = reply[c].tok
    /\ expires' = tokenExpiry(reply[c].claim)
    /\ mu' = NoCall
    /\ SendOperation(c, token', IF phase[c] = "fetch" THEN "call1" ELSE "call2")
    /\ UNCHANGED <<now, result, server, runs>>

\* Any status but 2xx, a body that is not JSON, an empty token: authError wraps them
\* all, a 429 too.
TokenRefused(c) ==
    /\ phase[c] \in {"fetch", "refetch"}
    /\ reply[c].status \notin {"none", "ok"}
    /\ Return(c, "authError")
    /\ mu' = NoCall
    /\ UNCHANGED <<now, token, expires, wire, server, history>>

\* Mutation: a second 401 is retried like the first.
RetryAlways(c) ==
    /\ phase[c] \in {"call1", "call2"}
    /\ reply[c].status = "unauthorized"
    /\ phase' = [phase EXCEPT ![c] = "force"]
    /\ reply' = [reply EXCEPT ![c] = NoReply]
    /\ deadline' = [deadline EXCEPT ![c] = 0]
    /\ UNCHANGED <<now, cache, result, wire, server, history>>

\* Mutation: a failed call is retried like a refused one.
RetryOnError(c) ==
    /\ phase[c] = "call1"
    /\ reply[c].status \in {"unauthorized", "error"}
    /\ phase' = [phase EXCEPT ![c] = "force"]
    /\ reply' = [reply EXCEPT ![c] = NoReply]
    /\ deadline' = [deadline EXCEPT ![c] = 0]
    /\ UNCHANGED <<now, cache, result, wire, server, history>>

\* First 401: a token is fetched whatever the cache holds.
Retry(c) ==
    /\ phase[c] = "call1"
    /\ reply[c].status = "unauthorized"
    /\ phase' = [phase EXCEPT ![c] = "force"]
    /\ reply' = [reply EXCEPT ![c] = NoReply]
    /\ deadline' = [deadline EXCEPT ![c] = 0]
    /\ UNCHANGED <<now, cache, result, wire, server, history>>

\* Any other answer, and any answer to the retry, is what Post returns; a body that
\* does not decode is an error of its own.
PostReturn(c) ==
    /\ \/ phase[c] = "call1" /\ reply[c].status \notin {"none", "unauthorized"}
       \/ phase[c] = "call2" /\ reply[c].status # "none"
    /\ \/ Return(c, reply[c].status)
       \/ reply[c].status = "ok" /\ Return(c, "badBody")
    /\ UNCHANGED <<now, cache, wire, server, history>>

\* Mutation: http.Client has no Timeout, so only a body that stops halfway ends an
\* exchange.
AbandonNoTimeout(c) ==
    /\ phase[c] \in Awaiting
    /\ reply[c] # NoReply
    /\ Return(c, "lost")
    /\ mu' = IF mu = c THEN NoCall ELSE mu
    /\ UNCHANGED <<now, token, expires, wire, server, runs, tried>>

\* The timeout, the caller's context, a broken connection, half a body.  The
\* request may be lost, still under way, or carried out.
Abandon(c) ==
    /\ phase[c] \in Awaiting
    /\ Return(c, "lost")
    /\ mu' = IF mu = c THEN NoCall ELSE mu
    /\ \/ UNCHANGED wire
       \/ wire' = [wire EXCEPT ![c] = NoRequest]
    /\ UNCHANGED <<now, token, expires, server, runs, tried>>

-----------------------------------------------------------------------------
(* The servers, as the client's code and tests describe them.                *)

\* The answer reaches the caller only if it is still waiting for it.
Answer(c, status, tok, claim) ==
    /\ wire' = [wire EXCEPT ![c] = NoRequest]
    /\ reply' = IF phase[c] \in Awaiting
                THEN [reply EXCEPT ![c] =
                          [status |-> status, tok |-> tok, claim |-> claim]]
                ELSE reply
    /\ UNCHANGED <<now, cache, phase, deadline, result, tried>>

\* A token with an exp claim, or one the client cannot read, which lives an hour.
Issue(c) ==
    /\ wire[c].kind = "token"
    /\ \/ \E life \in Lifetimes : /\ exp' = Append(exp, now + life)
                                  /\ Answer(c, "ok", Len(exp'), now + life)
       \/ exp' = Append(exp, now + Hour) /\ Answer(c, "ok", Len(exp'), NoClaim)
    /\ UNCHANGED <<revoked, runs>>

RefuseToken(c) ==
    /\ wire[c].kind = "token"
    /\ \E status \in {"unauthorized", "limited", "error"} :
           Answer(c, status, NoToken, NoClaim)
    /\ UNCHANGED <<server, runs>>

Valid(t) == now < exp[t] /\ t \notin revoked

\* The operation is carried out; the answer may still be an error.
Execute(c) ==
    /\ wire[c].kind = "call"
    /\ Valid(wire[c].tok)
    /\ runs' = [runs EXCEPT ![c] = @ + 1]
    /\ \E status \in {"ok", "error"} : Answer(c, status, NoToken, NoClaim)
    /\ UNCHANGED server

\* Refused before anything is carried out: a 429, a bad request.
Reject(c) ==
    /\ wire[c].kind = "call"
    /\ \E status \in {"limited", "error"} : Answer(c, status, NoToken, NoClaim)
    /\ UNCHANGED <<server, runs>>

\* 401: the token is not good (any more).
Deny(c) ==
    /\ wire[c].kind = "call"
    /\ ~Valid(wire[c].tok)
    /\ Answer(c, "unauthorized", NoToken, NoClaim)
    /\ UNCHANGED <<server, runs>>

Revoke(t) ==
    /\ t \in DOMAIN exp
    /\ Valid(t)
    /\ revoked' = revoked \cup {t}
    /\ UNCHANGED <<now, cache, phase, deadline, result, wire, reply, exp, history>>

\* No exchange outlasts its timeout.
Tick ==
    /\ now < Horizon
    /\ \A c \in Calls : phase[c] \in Awaiting => now < deadline[c]
    /\ now' = now + 1
    /\ UNCHANGED <<cache, phase, deadline, result, wire, reply, server, history>>

-----------------------------------------------------------------------------
\* What the goroutine of call c does without waiting for mu.
Step(c) ==
    \/ EncodeFails(c) \/ Begin(c)
    \/ TokenStored(c) \/ TokenRefused(c) \/ Retry(c) \/ PostReturn(c) \/ Abandon(c)

Lock(c) == CacheHit(c) \/ Fetch(c)

Serve(c) ==
    \/ Issue(c) \/ RefuseToken(c) \/ Execute(c) \/ Reject(c) \/ Deny(c)

Finished ==
    /\ \A c \in Calls : phase[c] = "returned"
    /\ UNCHANGED vars

Next ==
    \/ \E c \in Calls : Step(c) \/ Lock(c) \/ Serve(c)
    \/ \E t \in DOMAIN exp : Revoke(t)
    \/ Tick
    \/ Finished

Spec == Init /\ [][Next]_vars

-----------------------------------------------------------------------------
(* Properties.                                                              *)

\* Every variable has its type.
TypeOK ==
    /\ now \in Nat
    /\ mu \in Calls \cup {NoCall}
    /\ token \in Token
    /\ expires \in Nat
    /\ phase \in [Calls -> Phases]
    /\ deadline \in [Calls -> Nat]
    /\ result \in [Calls -> Results]
    /\ wire \in [Calls -> Request]
    /\ reply \in [Calls -> Reply]
    /\ exp \in Seq(Nat)
    /\ revoked \in SUBSET Token
    /\ runs \in [Calls -> Nat]
    /\ tried \in [Calls -> Seq(Token)]

\* At most one call is fetching a token, and it is the one that holds mu: a token
\* that is on its way is waited for, not fetched again.
OneFetch == \A c \in Calls : phase[c] \in {"fetch", "refetch"} <=> mu = c

\* An operation (an order, a payment) is carried out at most once by a Post.
AtMostOnce == \A c \in Calls : runs[c] <= 1

\* A Post that reports success was carried out; one that failed before its
\* operation went out, or reports a second 401 or a 429, was not and never will be.
ResultIsHonest ==
    \A c \in Calls :
        /\ result[c] = "ok" => runs[c] = 1
        /\ result[c] \in {"unauthorized", "limited", "authError"} =>
               runs[c] = 0 /\ wire[c] = NoRequest

\* A Post presents at most two tokens, and the second was issued after the first was
\* refused: "exactly one retry, and only after a forced refresh".
RetryUsesNewToken ==
    \A c \in Calls :
        /\ Len(tried[c]) <= 2
        /\ Len(tried[c]) = 2 => tried[c][1] < tried[c][2]

\* What refreshWindow is for: a token is never refused for its age.  It was read, or
\* its lifetime estimated, at most two timeouts before the request arrived, so a 401
\* means that the server took it back.
NeverTooOld ==
    \A c \in Calls :
        phase[c] \in {"call1", "call2"} /\ reply[c].status = "unauthorized" =>
            tried[c][Len(tried[c])] \in revoked

AllPresented == UNION {Presented(c) : c \in Calls}

\* Tokens the client had, and has replaced by another while they were good.
Wasted == {t \in AllPresented \ {token} :
               t \notin revoked /\ now + RefreshWindow < exp[t]}

\* The calls that were refused and sent again with a new token.
Retried == {c \in Calls : Len(tried[c]) = 2}

\* Calls that start together share one fetch: a good token is replaced only for a
\* call that was refused, and a refused call costs at most one.
WasteBounded == Cardinality(Wasted) <= Cardinality(Retried)

\* The cached token is only ever replaced by a newer one: a late answer cannot bring
\* back a token another call has found dead.
TokenNeverGoesBack ==
    [][token' # token => \A c \in Calls : \A t \in Presented(c) \cup {token} : t < token']_vars

-----------------------------------------------------------------------------
(* What a caller sees of all this.                                          *)

Open   == {c \in Calls : phase[c] \notin {"idle", "returned"}}
Effect == {c \in Calls : runs[c] > 0}

\* A body that could not be decoded answers a call that was carried out.
Outcome == [c \in Calls |-> IF result[c] # "badBody" THEN result[c]
                            ELSE IF runs[c] = 0 THEN "noBody" ELSE "ok"]

Remote == INSTANCE RemoteCalls WITH open <- Open, effect <- Effect, outcome <- Outcome

\* Whatever is lost, delayed, refused or retried, a Post takes effect at most once, and
\* what it returns says what is known of that.
ImplementsRemoteCalls == Remote!Spec

-----------------------------------------------------------------------------
(* The inductive invariant behind the safety properties.                    *)

\* Where a call is determines what it has on the wire and behind it.
CallShape ==
    \A c \in Calls :
        /\ phase[c] \in {"idle", "access"} =>
               wire[c] = NoRequest /\ tried[c] = <<>> /\ runs[c] = 0
        /\ phase[c] = "force" =>
               wire[c] = NoRequest /\ Len(tried[c]) = 1 /\ runs[c] = 0
        /\ phase[c] \in {"fetch", "refetch"} =>
               wire[c].kind \in {"none", "token"} /\ runs[c] = 0
        /\ phase[c] \in {"call1", "call2"} => wire[c].kind \in {"none", "call"}
        /\ phase[c] = "fetch" => Len(tried[c]) = 0
        /\ phase[c] \in {"call1", "refetch"} => Len(tried[c]) = 1
        /\ phase[c] = "call2" => Len(tried[c]) = 2
        /\ wire[c].kind = "none" => wire[c] = NoRequest
        /\ phase[c] = "returned" <=> result[c] # "none"
        /\ result[c] \notin {"none", "lost"} => wire[c] = NoRequest

\* A reply belongs to a waiting call whose request has been taken off the wire.
ReplyShape ==
    \A c \in Calls :
        /\ reply[c] # NoReply => phase[c] \in Awaiting /\ wire[c] = NoRequest
        /\ reply[c].tok # NoToken =>
               reply[c].status = "ok" /\ phase[c] \in {"fetch", "refetch"}
        /\ reply[c].status = "ok" /\ phase[c] \in {"fetch", "refetch"} =>
               reply[c].tok # NoToken

\* What is known of the effect at each point of a call.
EffectKnown ==
    \A c \in Calls :
        /\ runs[c] \in {0, 1}
        /\ wire[c].kind = "call" => runs[c] = 0
        /\ phase[c] \in {"call1", "call2"} =>
               /\ reply[c].status = "ok" => runs[c] = 1
               /\ reply[c].status \in {"unauthorized", "limited"} => runs[c] = 0
        /\ result[c] = "ok" => runs[c] = 1
        /\ result[c] \in {"unauthorized", "limited", "authError"} => runs[c] = 0

\* The client has at most the newest token it was given, no call has a newer one,
\* and one on its way is newer still.
TokensIssued ==
    /\ token <= Len(exp)
    /\ \A c \in Calls :
           /\ \A t \in Presented(c) : t \in 1 .. token
           /\ wire[c].kind = "call" => wire[c].tok \in DOMAIN exp
           /\ wire[c].kind = "call" /\ phase[c] \in {"call1", "call2"} =>
                  wire[c].tok = tried[c][Len(tried[c])]
           /\ reply[c].tok # NoToken => token < reply[c].tok /\ reply[c].tok <= Len(exp)

\* Clock, deadlines and expiries: what makes two timeouts of headroom enough.
TimeKept ==
    /\ token # NoToken => expires <= exp[token] + Timeout
    /\ \A c \in Calls :
           /\ phase[c] \in Awaiting => now <= deadline[c] /\ deadline[c] <= now + Timeout
           /\ reply[c].tok # NoToken =>
                  /\ deadline[c] + Timeout < exp[reply[c].tok]
                  /\ IF reply[c].claim # NoClaim
                     THEN reply[c].claim = exp[reply[c].tok]
                     ELSE deadline[c] + Hour <= exp[reply[c].tok] + Timeout
           /\ wire[c].kind = "call" /\ phase[c] \in {"call1", "call2"} =>
                  deadline[c] < exp[wire[c].tok]

CallInv  == OneFetch /\ CallShape /\ ReplyShape /\ EffectKnown
TokenInv == TokensIssued /\ RetryUsesNewToken /\ TimeKept /\ NeverTooOld

\* The whole: every reachable state is typed and satisfies both parts.
IInv == TypeOK /\ CallInv /\ TokenInv

\* The client never takes a token for shorter-lived than it is.
NeverUnderrated ==
    /\ token # NoToken => exp[token] <= expires
    /\ \A c \in Calls : reply[c].tok # NoToken =>
           exp[reply[c].tok] <= IF reply[c].claim # NoClaim THEN reply[c].claim
                                                            ELSE now + Hour

\* So a fetch without a refusal replaces no token but one in its window,
FetchedInWindow ==
    \A c \in Calls :
        phase[c] = "fetch" /\ token # NoToken => exp[token] <= now + RefreshWindow

\* and every other token that was replaced was so by the second token of a call, the
\* next one the client had.
ReplacedOnRefusal ==
    \A t \in AllPresented \ {token} :
        \/ exp[t] <= now + RefreshWindow
        \/ \E c \in Calls :
               /\ Len(tried[c]) = 2
               /\ t < tried[c][2]
               /\ \A u \in AllPresented : u <= t \/ tried[c][2] <= u

WasteInv == NeverUnderrated /\ FetchedInWindow /\ ReplacedOnRefusal
=============================================================================
