----------------------------- MODULE ServiceCalls -----------------------------
(***************************************************************************)
(* What the services of iikoServer and iikoCloud tell a caller about a call. *)
(*                                                                         *)
(* A method checks its arguments, makes one call of the shared rest.Client   *)
(* and judges the answer.  Here the client is what RemoteCalls promises of   *)
(* either of them; what is added is the second half of the story: iikoServer *)
(* answers a business rejection with HTTP 200, in one of three shapes, and   *)
(* an operation that was carried out may be answered by something the client *)
(* cannot read.  A read is carried out when it has been computed, and a      *)
(* command to iikoCloud when it has been accepted.                          *)
(*                                                                         *)
(* The callers are careful ones: told that nothing was done, they try again; *)
(* told anything else, they do not.                                         *)
(***************************************************************************)
EXTENDS Naturals, ServiceMethods

CONSTANTS Callers,  \* each of them wants one thing done
          Tries     \* bound: how often a caller tries

Attempts == Callers \X (1 .. Tries)

ASSUME TriesAssumption == Tries \in Nat \ {0}

-----------------------------------------------------------------------------
VARIABLES
    open, effect, outcome,      \* the client, see RemoteCalls; calls are attempts
    method,                     \* what caller c invokes
    fit,                        \* whether its arguments pass the method's checks
    try,                        \* which attempt it is at
    stage,                      \* where it is: about to call, in Do, back
    told,                       \* what the method returned
    body,                       \* the shape of the answer that an attempt got
    decision                    \* what the server did about an attempt

session == <<open, effect, outcome>>
vars    == <<open, effect, outcome, method, fit, try, stage, told, body, decision>>

Client == INSTANCE RemoteCalls WITH Calls <- Attempts

Init ==
    /\ Client!Init
    /\ method \in [Callers -> Methods]
    /\ fit \in [Callers -> BOOLEAN]
    /\ \A c \in Callers : method[c].checks \/ fit[c]
    /\ try = [c \in Callers |-> 1]
    /\ stage = [c \in Callers |-> "ready"]
    /\ told = [c \in Callers |-> "nothing"]
    /\ body = [a \in Attempts |-> "none"]
    /\ decision = [a \in Attempts |-> "none"]

Attempt(c) == <<c, try[c]>>

-----------------------------------------------------------------------------
(* The server, and its answers.                                             *)

\* An operation the server gets to is carried out or rejected.
Handle(a) ==
    /\ Client!TakeEffect(a)
    /\ \E d \in {"applied", "rejected"} : decision' = [decision EXCEPT ![a] = d]
    /\ UNCHANGED <<method, fit, try, stage, told, body>>

\* The bodies of a 2xx answer.  One that does not parse, or has a value of another type
\* than it is decoded into, is unreadable, and so is an empty one where iikoServer answers.
\* The results of document methods name no root element, so that any other XML fits them:
\* "noVerdict" has no <valid>.
Bodies(speaks, d) ==
    CASE speaks = "v2"       /\ d = "applied"  -> {"response", "noResponse", "bare", "unreadable"}
      [] speaks = "v2"       /\ d = "rejected" -> {"resultError", "unreadable"}
      [] speaks = "document" /\ d = "applied"  -> {"valid", "noVerdict", "unreadable"}
      [] speaks = "document" /\ d = "rejected" -> {"invalid", "noVerdict", "unreadable"}
      [] speaks = "xml"      /\ d = "applied"  -> {"entity", "emptyList", "unreadable"}
      [] speaks = "cloud"    /\ d = "applied"  -> {"entity", "empty", "unreadable"}
      [] OTHER                                 -> {}

-----------------------------------------------------------------------------
(* Judging an answer.                                                       *)

\* Mutation: no envelope is looked for, any JSON is decoded into out.
DecodePlain(b) == IF b = "unreadable" THEN "undecoded" ELSE "ok"

\* rest.DecodeV2: an envelope is unwrapped, a bare body passed through, and any result
\* but SUCCESS is an Error with Status 200.
DecodeV2(b) ==
    CASE b = "unreadable"  -> "undecoded"
      [] b = "resultError" -> "rejected"
      [] OTHER             -> "ok"

\* Mutation: the decoding error is dropped, and the zero value says valid=false.
ImportDocUnread(b) == IF b = "valid" THEN "ok" ELSE "rejected"

\* importDoc and its relatives: <valid>false</valid> is an Error with Status 200, and so
\* is an answer without <valid>, for Valid is then false as well.
importDoc(b) ==
    CASE b = "unreadable" -> "undecoded"
      [] b = "valid"      -> "ok"
      [] OTHER            -> "rejected"

\* PostXML and PutXML with an out; a write that must return the stored entity fails on
\* an empty list, "the id it assigned is unknown".
DecodeXML(reads, b) ==
    CASE b = "unreadable"                     -> "undecoded"
      [] reads = "first" /\ b = "emptyList"   -> "unidentified"
      [] OTHER                                -> "ok"

\* Post: a blank body is a success like any other, and leaves out as it was.
Post(b) == IF b = "unreadable" THEN "undecoded" ELSE "ok"

\* PostV2, PostXML, PutXML and Post without an out, and a bare Do, stop at the status.
Verdict(m, b) ==
    IF m.reads = "nothing" THEN "ok"
    ELSE CASE m.speaks = "v2"       -> DecodeV2(b)
           [] m.speaks = "document" -> importDoc(b)
           [] m.speaks = "xml"      -> DecodeXML(m.reads, b)
           [] m.speaks = "cloud"    -> Post(b)

-----------------------------------------------------------------------------
(* A method.                                                                *)

\* The arguments do not pass, or cannot be encoded: nothing is sent.
Refuse(c) ==
    /\ stage[c] = "ready"
    /\ method[c].checks /\ ~fit[c]
    /\ stage' = [stage EXCEPT ![c] = "back"]
    /\ told' = [told EXCEPT ![c] = "refused"]
    /\ UNCHANGED <<session, method, fit, try, body, decision>>

\* Do gets the mutex, or Post its slots.
Send(c) ==
    /\ stage[c] = "ready"
    /\ fit[c]
    /\ Client!Admit(Attempt(c))
    /\ stage' = [stage EXCEPT ![c] = "calling"]
    /\ UNCHANGED <<method, fit, try, told, body, decision>>

\* The client returns 2xx and the method judges the body.
Judge(c) ==
    /\ stage[c] = "calling"
    /\ Client!Settle(Attempt(c), "ok")
    /\ \E b \in Bodies(method[c].speaks, decision[Attempt(c)]) :
           /\ body' = [body EXCEPT ![Attempt(c)] = b]
           /\ told' = [told EXCEPT ![c] = Verdict(method[c], b)]
    /\ stage' = [stage EXCEPT ![c] = "back"]
    /\ UNCHANGED <<method, fit, try, decision>>

\* What the clients return in place of an answer.  Every body a service sends is in
\* memory, so "noBody" does not occur.
ErrorsOf(speaks) ==
    {"error", "unauthorized", "lost"}
        \cup IF speaks = "cloud" THEN {"limited", "authError"} ELSE {}

\* Mutation: the request body is a stream that may fail, and the client says so.
FailStreaming(c) ==
    /\ stage[c] = "calling"
    /\ \E o \in ErrorsOf(method[c].speaks) \cup {"noBody"} :
           /\ Client!Settle(Attempt(c), o)
           /\ told' = [told EXCEPT ![c] = o]
    /\ stage' = [stage EXCEPT ![c] = "back"]
    /\ UNCHANGED <<method, fit, try, body, decision>>

\* The client fails and its error is passed on.
Fail(c) ==
    /\ stage[c] = "calling"
    /\ \E o \in ErrorsOf(method[c].speaks) :
           /\ Client!Settle(Attempt(c), o)
           /\ told' = [told EXCEPT ![c] = o]
    /\ stage' = [stage EXCEPT ![c] = "back"]
    /\ UNCHANGED <<method, fit, try, body, decision>>

\* What a caller takes to rule out that anything was done: an error before the request, a
\* rejection by the server, a second 401, a 429, a token that was not to be had.
NothingDone == {"refused", "rejected", "unauthorized", "limited", "authError"}

\* The caller tries again, with arguments it has looked at.
Repeat(c) ==
    /\ stage[c] = "back"
    /\ told[c] \in NothingDone
    /\ try[c] < Tries
    /\ try' = [try EXCEPT ![c] = @ + 1]
    /\ fit' = [fit EXCEPT ![c] = TRUE]
    /\ stage' = [stage EXCEPT ![c] = "ready"]
    /\ told' = [told EXCEPT ![c] = "nothing"]
    /\ UNCHANGED <<session, method, body, decision>>

Finished ==
    /\ \A c \in Callers : stage[c] = "back" /\ ~(told[c] \in NothingDone /\ try[c] < Tries)
    /\ UNCHANGED vars

Next ==
    \/ \E c \in Callers : Refuse(c) \/ Send(c) \/ Judge(c) \/ Fail(c) \/ Repeat(c)
    \/ \E a \in Attempts : Handle(a)
    \/ Finished

Spec == Init /\ [][Next]_vars

-----------------------------------------------------------------------------
(* Properties.                                                              *)

Told   == {"nothing", "refused", "ok", "rejected", "undecoded", "unidentified",
           "error", "unauthorized", "lost", "limited", "authError"}
Shapes == {"none", "response", "noResponse", "bare", "resultError", "valid", "invalid",
           "noVerdict", "entity", "emptyList", "empty", "unreadable"}

\* Every variable has its type.
TypeOK ==
    /\ open \in SUBSET Attempts
    /\ effect \in SUBSET Attempts
    /\ outcome \in [Attempts -> Client!Outcomes \cup {"none"}]
    /\ method \in [Callers -> Method]
    /\ fit \in [Callers -> BOOLEAN]
    /\ try \in [Callers -> 1 .. Tries]
    /\ stage \in [Callers -> {"ready", "calling", "back"}]
    /\ told \in [Callers -> Told]
    /\ body \in [Attempts -> Shapes]
    /\ decision \in [Attempts -> {"none", "applied", "rejected"}]

\* HTTP 200 is not success: a method that looks at the answer and returns no error has
\* had its operation carried out, whichever of the protocols the endpoint speaks.
OkMeansApplied ==
    \A c \in Callers :
        told[c] = "ok" /\ method[c].reads # "nothing" => decision[Attempt(c)] = "applied"

\* An attempt that was not carried out, as far as its answer tells: that of a document
\* method may have been, when the answer has no <valid>.
NotApplied(a) == decision[a] = "applied" => body[a] = "noVerdict"

\* A caller that is told nothing was done has it in writing: none of its attempts was
\* carried out, and none that is still on its way can be; but for documents whose answers
\* left the verdict out.
NotAppliedIsFinal ==
    \A c \in Callers :
        told[c] \in NothingDone =>
            \A n \in 1 .. try[c] : NotApplied(<<c, n>>) /\ outcome[<<c, n>>] # "lost"

\* So repeating a write after such an answer, and after no other, applies it twice in one
\* case only: a document, when an earlier attempt was answered without <valid>.  Never a
\* second shift, pay-out, order or chart.
RepeatIsSafe ==
    \A c \in Callers : \A m, n \in 1 .. Tries :
        m < n /\ decision[<<c, m>>] = "applied" /\ decision[<<c, n>>] = "applied" =>
            method[c].speaks = "document" /\ body[<<c, m>>] = "noVerdict"

-----------------------------------------------------------------------------
(* The inductive invariant behind the properties above.                     *)

\* The server has decided about the attempts that took effect, and no others.
Decided == \A a \in Attempts : decision[a] # "none" <=> a \in effect

\* Where a caller is determines what has become of the attempt it is at.
CurrentAttempt ==
    \A c \in Callers :
        /\ Attempt(c) \in open <=> stage[c] = "calling"
        /\ stage[c] # "back" => /\ outcome[Attempt(c)] = "none"
                               /\ told[c] = "nothing"
        /\ stage[c] = "ready" => decision[Attempt(c)] = "none"
        /\ told[c] \in NothingDone => NotApplied(Attempt(c)) /\ outcome[Attempt(c)] # "lost"

\* An attempt before the one a caller is at is over, and one after it untouched.
OtherAttempts ==
    \A c \in Callers : \A n \in 1 .. Tries :
        n # try[c] => /\ <<c, n>> \notin open
                      /\ outcome[<<c, n>>] # "lost"
                      /\ NotApplied(<<c, n>>)
                      /\ n > try[c] => /\ outcome[<<c, n>>] = "none"
                                       /\ decision[<<c, n>>] = "none"

\* Only documents are answered without a verdict that is looked for.
VerdictsOfDocuments ==
    \A c \in Callers : \A n \in 1 .. Tries :
        body[<<c, n>>] = "noVerdict" => method[c].speaks = "document"

\* The whole: every reachable state is typed, the server's decisions and the callers'
\* knowledge agree, and what is reported as done was done.
IInv == TypeOK /\ Decided /\ CurrentAttempt /\ OtherAttempts /\ VerdictsOfDocuments /\ OkMeansApplied

-----------------------------------------------------------------------------
(* What the packages say of themselves and the code does not do.            *)

\* "Routing all JSON through DecodeV2 makes that mistake unavailable": no write on a
\* v2 endpoint that the server rejected is reported as done.
RejectionSurfaces ==
    \A c \in Callers :
        method[c].speaks = "v2" /\ decision[Attempt(c)] = "rejected" => told[c] # "ok"
=============================================================================
