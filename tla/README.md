# Verification of iiko-go in TLA+

This directory is the formal model of the two clients in this repository,
`iikoserver` (iikoServer back office, one session, one licence seat) and `iikocloud`
(iikoCloud, a shared access token and rate limits), of the services built on them, of
what a program does with the services over time (following changes, editing entities),
and of the two generators that write the clients' types. The modules are checked with
TLC on small instances. Proved with TLAPS, for every value of the constants, are the safety of
both sessions and of the limiter, the verdicts of the services, the exactness of what a
poller collects, that writing back what was read changes what was edited, what both
generators publish, and the refinements between the modules: every safety property that a
passing run checks. Only liveness rests on TLC alone.

Contents: [1 the system](#1-the-system), [2 modules](#2-modules-and-how-they-map-to-the-code),
[3 runs](#3-runs-and-bounds), [4 fairness](#4-fairness), [5 findings](#5-findings),
[6 proofs](#6-proofs), [7 abstractions](#7-abstractions-and-their-limits),
[8 not modelled](#8-what-is-not-modelled), [9 plan](#9-plan),
[10 running the checks](#10-running-the-checks).

## 1. The system

Two independent Go packages. Each has one `rest` package with all the state, and
services that are stateless wrappers: a service method validates its arguments,
makes one call of its `rest.Client` (a few make two) and decodes the answer.

| Component | State it keeps | Operations | What is hard about it | What makes it correct |
|---|---|---|---|---|
| `iikoserver/rest` `Client` | `token`, the cookie jar, `mu` | `Do`, `Close`, and inside them `authLocked`, `attempt` | goroutines queue on `mu` across two or three exchanges; sessions die while idle, mid-call and at a restart; an answer is lost after the server acted; a session is a paid seat | one exchange at a time; an operation is executed at most once; a result says no more than is known; one retry, with a new token; no seat is dropped or taken twice |
| `iikoserver/rest` decoding | none | `DecodeV2`, `GetV2`, `PostV2`, `GetXML`, `PostXML`, `PutXML` | three body shapes; a business failure arrives with HTTP 200 | a rejection is never reported as success |
| `iikoserver/*` services | none; the server's entities | list, read, create, update, replace, delete | checks before the call; `valid=false` with 200; a GET that creates; money moved by a call whose answer may be lost | a verdict is told as the server gave it; a caller knows when it may repeat |
| methods with a revision (`events`, `pricing`, `nomenclature`, …) | none; the caller keeps a cursor and a copy | `ListEventsSince`, `NextRevision`, `Dedup`, the lists with `revisionFrom` | the cursor moves while changes are made; polls fail; redelivery; a revision may be left out; deletions are not mentioned by default | every change is seen, once; the copy is a state the server was in |
| generated types of `iikoserver` and their codec | none; a caller's copy of an entity | `UnmarshalJSON`, `MarshalJSON`, `StripReadOnly`, `writeBody`, and the methods that write a type they also read | two spellings of one field; read-only fields at any depth; `omitempty`; two callers editing one entity | what is read is what the server holds; a write changes what was edited |
| `iikocloud/rest` `limiter` | `next` per path, a channel per path, a global channel | `reserve`, `acquire`, release | the clock is read before the lock; a caller may be cancelled at three points, holding zero or one slot; two channels are taken one after the other | slots are neither leaked nor forged; reservations are apart; nobody is let through early; everybody gets through |
| `iikocloud/rest` `Client` | `token`, `expires`, `mu` | `Post`, `accessToken`, `send`, `authError`, `tokenExpiry` | `mu` is held while a token is fetched, not while it is used; a token expires, is replaced or revoked between the read and the arrival | one fetch at a time; an operation is executed at most once; a token is never refused for its age; a retry has a newer token |
| `iikocloud/*` services | none | about 300 wrappers of `rest.Post` | an accepted command is not an executed one | as for the services of `iikoserver` |
| `tools/gen/server` | `research/dtos.yaml`, one `types.go` per package | assign DTOs to packages, render, write, compare | chains of uses listed in any order; shared leaves; hand-written types; a run killed between two files | every DTO in use is declared once; no reference is lost |
| `tools/gen/cloud` | the pinned digest, guarded overlays, two generated files | fetch, check the pin, apply overlays, name, render, write | upstream drifts at any moment; guards and pins are edited; renames and collisions of names; a run killed between two files | both files come from the pinned specification; every schema has a type of its own; no repair over something unseen |

How they interact: `iikoserver.New` and `iikocloud.New` build one `rest.Client` and
hand it to every service, so all services of a client share its session, its mutex
and, in iikoCloud, its limiter. There are no callbacks and no background goroutines, and
the clients persist nothing: all concurrency is that of the callers' goroutines against each
other, and against the server, which goes on working when a caller has given up.

`PROJECT.json` lists every component with its files and every hazard at its line.

## 2. Modules and how they map to the code

```
RevisionSync ── RevisionSyncProofs                 the caller's cursor and copy
WireTypes ── RoundTrips ── RoundTripsProofs        read, edit, write
ServerGen ── ServerGenProofs                       the types of iikoserver
CloudGen ── CloudGenProofs                         the types of iikocloud

ServiceCalls ── ServiceMethods     the services     ServiceCallsProofs
    | uses
    v
RemoteCalls                        what they are built on
    ^ refines          ^ refines
SerialCalls            CloudToken ── CloudTokenProofs
    ^ refines              ^ refines
ServerSession          CloudClient ── CloudClientProofs
    |                      v refines, extends
ServerSessionProofs    CloudLimiter
```

(`ServerSessionProofs` holds both refinements of its column, `CloudClientProofs` the theorems
about the limiter too. An `MC` module instantiates a module for TLC.)

**RemoteCalls** is what both clients promise: an operation takes effect at most once,
while its call is served or after the client lost sight of it, and each outcome bounds
what the effect can be (`ok`: it happened; `unauthorized`, `limited`, `authError`, `noBody`:
it did not and will not; `error`: unknown, but settled; `lost`: unknown, and it may still
happen). How many calls are served at once is open.

**SerialCalls** is the same with one call at a time, which is what
`iikoserver/rest.Client` does.

**ServerSession** is `src/iikoserver/rest/client.go` with the iikoServer behind it.
A call is one goroutine in one `Do` or `Close`.

| variable | in the code |
|---|---|
| `mu`, `token`, `cookie` | `Client.mu` (who holds it), `Client.token`, the `key` cookie in `http.Client.Jar` |
| `op`, `pc`, `result` | which method, which line, what it returned |
| `wire`, `reply` | the request not yet answered (it may outlive its call), the answer not yet read |
| `issued`, `live` | the server: tokens handed out, sessions (seats) alive |
| `runs`, `tried`, `stranded` | history: executions of an operation, tokens presented, tokens lost with a failed exchange |

`Lock` is `mu.Lock()`; `DoBegin`, `Authenticated`, `AuthRefused`, `Reauthenticate`,
`DoReturn` are the stretches of `Do` between its exchanges, each up to and including
the next request or the return; `CloseIdle`, `CloseBegin`, `CloseReturn` those of
`Close`; `Abandon` is every way in which `http.Client.Do` or `io.ReadAll` fails. The
server's actions (`Grant`, `Refuse`, `Execute`, `Reject`, `Deny`, `Logout`,
`LogoutFails`, `IdleTimeout`, `Restart`) do what the client's comments and tests say
of iikoServer, and nothing is assumed about when, or whether, they happen.

**ServiceCalls** is the layer above: every method of the services of `iikoserver` and
`iikocloud`, and the decoding between it and the client (`GetV2`, `PostV2`, `PostXML`,
`PutXML`, `DecodeV2`, `importDoc`, `Post`). The client is not `ServerSession` or
`CloudToken` but what both are proved to implement, an instance of `RemoteCalls`.
**ServiceMethods** reduces a method to what decides its verdict: which protocol the endpoint
speaks, how much of the answer it reads, and whether it may refuse before it sends. There
is one definition per method, and where several methods share their code (`moveTree`,
`deleteByID`, `unprocess`, …) or, in `iikocloud`, differ in nothing but path and types, one
for all of them.

| variable | in the code |
|---|---|
| `open`, `effect`, `outcome` | the client, as `RemoteCalls` sees it; its calls are the *attempts*, pairs of a caller and a number |
| `method`, `fit` | what a caller invokes, and whether its arguments pass the checks |
| `stage`, `try`, `told` | where the caller is, at which attempt, and what kind of result it was given |
| `body`, `decision` | the shape of the 2xx answer to each attempt, and what the server did about it |

`Refuse` is an early return on the arguments, `Send` the call of the client, `Judge` its
success followed by the decoding, `Fail` its error passed on. `Repeat` is a careful
caller: told that nothing was done it tries again, told anything else it does not.
`Bodies` says which answers the server may give; every success has also an unreadable form,
and that of a document one without `<valid>` (`noVerdict`), which `importDoc`, like the code,
takes for a rejection.

**RevisionSync** is a program that follows the server through any one of the methods that
take a revision: `feed` is the method, `hidden` whether it leaves out what was deleted,
`history` the server's changes in order, `cursor` what the caller passes next. The journal
(`ListEventsSince`) is kept in `received`, and in `handled` after `Dedup`; the lists of
entities in `mirror`. `Ask`, `Answer` and `Take` are the three moments of a poll, with
changes possible between any two; `Fail` is every way a poll ends in an error. The caller is
written as the comments of the methods tell it to be.

**WireTypes** is what each type of `iikoserver/*/types.go`, and each hand-written type in
place of one, says about its fields: which kinds there are (id, required, optional,
read-only), which have a second spelling, what is nested. **RoundTrips** gives these
types the codec that `tools/gen/server/render.go` renders (`Unmarshal`, `Written`,
`MarshalJSON`, `StripReadOnly`, and `writeBody` of the quick menu) and lets two callers
read an entity, change a field and send it back by any of the fifteen methods that write what
they read, the imports of an exported invoice among them. A *cell* is a kind of field of the
type itself or of one type nested in it; `copy` is what a caller has in hand, `taken` what the
server held when it read, `sent` its message. Whether the server clears or keeps what a message
leaves out (`keeps`) depends on the method; for an update the documents do not say, so both are
tried. JSON types drop their read-only fields by themselves. Of the XML types `UpdateOrder` alone
calls `StripReadOnly`, of the order and not of its items; everywhere else it is the caller's
to call, or to forget (`Strip`, `stripped`), and the server may refuse what it finds (`Leaks`).
`writeBody` sends a label's day as null unless the menu depends on the day of the week.

**ServerGen** is `tools/gen/server`: `assign` decides the package of every DTO, `emit` and
`render` what a file declares and which references keep their type (of the fields that nest a DTO,
`of`, and of the maps, `maps`; only the former bring a shared leaf along), `Start` is everything
up to the first write, `WriteFile` a write, `Killed` the end of the process at any point.
Authors edit the catalog, write types by hand and edit generated files in between;
`TestGeneratedFilesMatchTheCatalog` is the test of that name. `made` is what the last run
read, `disk` what each package holds.

**CloudGen** is `tools/gen/cloud`: `Fetch`, `checkPin` (with and without `-repin`),
`applyOverlays` one action at a time, `Render`, `WriteFile`, each of which may be the last
step of a run. `Drift` is upstream publishing something else, `Review` the author of an
overlay editing its guard. `schemaNames` is the naming algorithm with its lengthening and
numbering, over names as sequences of words.

**CloudLimiter** is `src/iikocloud/rest/limits.go` and the lines of `Post` and `sleep`
that use it. `next`, `slots` and `global` are `limiter.next` and the fill of the
channels; `stage` is where a call is, `timer` its clock reading and then the end of
its sleep, `at` the instant reserved for it. Reading the clock and reserving are two
actions, and so are taking the global slot and the path's, because other goroutines
run in between. `Cancel` and `CancelHolding` are the caller's context ending at the
three places where a call waits.

**CloudToken** is what a `Post` does between `acquire` and release
(`src/iikocloud/rest/client.go`, `auth.go`), and the iikoCloud servers. `phase` says
where a call is: `access` and `force` are the two ways to call `accessToken`,
`fetch`/`refetch` a token request (with `mu`), `call1`/`call2` the operation (without).
`deadline` is the end of `http.Client.Timeout` for the exchange of a call; `exp` and
`revoked` are the servers' view of the tokens. An `exp` claim is either right or
unreadable; in the second case the client assumes an hour from the moment of the
answer, as `tokenExpiry` does.

**CloudClient** extends `CloudLimiter` and instantiates `CloudToken`: a call goes through the
limiter (`Admit`), talks (`Talk`) while it is inside, and leaves (`Leave`) when it has its
result; the clock is shared. It is the whole of `Client.Post`. What is the client's and not the
limiter's is called so: `ClientInit`, `ClientNext`, `ClientSpec`, `ClientInv`.

**…Proofs** hold the theorems; **MC…** the instances for TLC.

## 3. Runs and bounds

| run | what it checks | bounds, and why they are enough |
|---|---|---|
| `server_session` | type, the six safety invariants of the session, `TokenNeverGoesBack`, every call returns, refinement of `SerialCalls` | 3 calls in any mix of `Do` and `Close`, 2 seats. Three calls let one be abandoned with its request still out, a second one close or fail and a third one meet what is left; the client needs one seat, the second shows whether it would take another. No symmetry, because liveness is checked |
| `service_calls` | type; success means applied; repeating is safe but for a document answered without a verdict | 2 callers, symmetry, any two methods, 2 tries each. Two callers, because one's lost write may land while the other is served; two tries are the shortest way to apply something twice |
| `cloud_limiter` | slot accounting, spacing, nobody early, every call is served | 3 calls over a path with spacing 2 and ceiling 1 and a path without limits; 2 global slots, so that each channel is fought for alone and while the other is held. `Horizon` 1: time passes 1 only for sleepers, so clock readings differ by less than, and by as much as, a spacing |
| `cloud_token` | type, newer token on retry, no refusal for age, bounded waste, token order, refinement of `RemoteCalls` | 2 calls, symmetry; timeout 1, window 2, hour 4, lifetime 3, time to 4: the tightest values `HeadroomAssumption` allows (2·timeout = window, 2·timeout + 1 = lifetime), and time enough to fetch, keep, and reach the window of a token |
| `cloud_client` | limits hold for what is on the network, nothing is left behind, refinement of both parts, every `Post` ends | 2 calls, a path with spacing and ceiling 1 and a path with spacing only, 2 global slots, so that both can be inside at once and want `mu` |
| `server_sync` | the journal exact, events handled once, the copy exact, the caller catches up | 2 items and events without id, 4 changes, each method in turn. Four changes are a creation, a change or redelivery, a deletion and one more while an answer is on its way |
| `cloud_gen` | what is published is pinned, every schema its type, nothing fixed is patched | 7 specifications of up to 5 schemas, three of which collide however far their names are lengthened; 4 overlay actions, one of each kind; any guard may be edited to what is found |
| `round_trips` | spellings agree, nothing read-only is sent that the types or a `StripReadOnly` hold back, a write is the edit | every type and every method, 2 callers (symmetry), one type of the nested ones at a time, values 0, 1, 2: absent or zero, what was there, what was edited. `CHECK_DEADLOCK FALSE`: callers stop after one write |
| `server_gen` | every DTO in use declared once, no reference lost | 6 catalogs of up to 6 DTOs over 3 domains, one without a package: chains of uses in both orders, owners in two domains, a cycle that leads nowhere, a shared leaf, one that a map alone refers to, a domain that loses its only DTO; 2 types that may be hand-written |
| `doc_…` (three) | one documented claim each, which the code does not keep | see Findings |

Bounds in the specifications themselves, all named: `CloudToken`'s `Horizon` stops
time; `CloudLimiter`'s `Horizon` stops it unless a call sleeps; `CloudClient`'s
`LastTick` is `CloudToken`'s bound. The number of calls bounds tokens, since a call
fetches at most two. `ServerSession` needs no other bound. `ServiceCalls` has `Tries`,
`RevisionSync` `LastRevision`; `RoundTrips` and the generators are finite by their data.

Deadlock is checked in every run but `round_trips`: `Finished` is a step only when all
calls are over.

Every property of every passing run has a mutant: a plausible bug of the code (no
mutex, retry on any failure, a slot not given back on cancellation, no headroom, …)
that breaks it. The mutated forms stand beside the actions they replace, marked
"Mutation".

## 4. Fairness

* *A goroutine that can run runs* (weak fairness of its steps).
* *An exchange ends*: `rest.New` sets `http.Client.Timeout` (120 s in `iikoserver`, 2
  minutes in `iikocloud`), so `Abandon` is among the fair steps; nothing is assumed of
  the servers. A caller of `iikocloud` that passes `WithHTTPClient` a client without a
  timeout gives this up: the mutants `AbandonNoTimeout` show that liveness goes with it.
* *Locks do not starve*: `sync.Mutex` in starvation mode hands the lock to a waiter that
  was passed over for 1 ms, hence strong fairness of `Lock`. A Go channel queues blocked
  senders in order, hence strong fairness of `TakeGlobal` and `TakeSlot`.
* *Time passes* and timers fire (`WF(Tick)`, weak fairness of `Wake`).
* Cancellation is never assumed: a call that nobody cancels still ends.
* *A poller goes on polling*, and however many polls fail, not all of them do: weak fairness
  of `Ask`, strong fairness of `Answer` and `Take` in `RevisionSync`, since a `Fail` may come
  between. The code has no loop of its own; this is what its caller must provide.
* The generators have no liveness property: a run may be killed.

## 5. Findings

Documented claims that the code does not keep; each of these has a run whose
counterexample shows how.

1. **Close reports success whatever the logout did** (`CloseReleasesSeat`). `Close`
   reads the answer and ignores its status. A refused logout leaves the seat taken, the
   token forgotten, and `Close` returning nil. "Close releases the licence slot."
2. **A rejected chart deletion is reported as done** (`RejectionSurfaces`). iikoServer rejects
   with HTTP 200 and `result=ERROR`; `PostV2` without an `out` returns before `DecodeV2` has
   looked, and `DeleteChart` passes none. "Routing all JSON through DecodeV2 makes that mistake
   unavailable"; "a caller that wants no body still wants the error check above". The same
   happens in `UnbindProductScale`, which uses `Do` directly, if that endpoint rejects like the
   others. `OkMeansApplied` is therefore stated for the methods that read the answer.
3. **A package that loses its last DTO keeps its generated file** (`CommittedIsCurrent`).
   `generate` skips a domain without anything to emit, `main` writes only what was generated, and
   `TestGeneratedFilesMatchTheCatalog` compares only that. "The committed types.go files must be
   exactly what the generator produces from the current catalog … a catalog change nobody
   regenerated" fails: after such a change neither regenerating nor the test notices the old file.

Observations made while modelling that have no run of their own:

* **An answer without a verdict is reported as iiko's rejection.** The results of `importDoc`,
  `ImportIncomingInventory`, `unprocess` and `CheckInventory` name no root element, so any
  well-formed XML fits them, and one without `<valid>` leaves `Valid` false. "iiko accepted the
  request but rejected the document (`<valid>false</valid>`). The message above is iiko's own"
  (`documents/v1.go:31`) is then said of a document that may have been applied, and a caller that
  believes it may apply it twice. This is the one exception `RepeatIsSafe` makes.
* **A stripped invoice still carries read-only fields.** `StripReadOnly` does not descend, and the
  invoices' lines have a read-only field of their own (`isAdditionalExpense`). "Fields the docs call
  'strip before re-import' must never leave, however they were populated by an export" stands above
  a test (`documents/types_test.go:47-48`) that looks at the document's own fields.
  `NothingReadOnlySent` therefore speaks of what was zeroed, the document and its lines apart.
* The cookie survives `Close`: `Jar.SetCookies(u, nil)` does nothing, so the logout and the next
  `/auth` carry the closed session's cookie, although the comment at `client.go:237` says the
  line drops it. `ServerSession` keeps the cookie in `CloseBegin`; `CookieAgrees` shows it never
  contradicts the key.
* A 429 on the token request is not a `RateLimitError`: `authError` turns every failure of that
  request into an `AuthError`, and the caller loses `RetryAfter`. `CloudToken` does the same.
* The spacing is between reservations, not between requests: callers that have slept then wait
  for slots, for `mu` and for a token, and may be sent together; the retry after a 401 is not
  spaced at all. `ReservationsApart` and `NeverEarly` say what is kept.
* The lists with a revision but without `includeDeleted` never mention what was deleted, so
  `MirrorExact` is stated up to deletions for them; most methods that take a revision drop the
  one they are answered, and a caller can only fetch everything.
* An optional field cannot be set to zero by an update of a server that keeps what it is not
  sent (`omitempty`); `WriteIsTheEdit` excepts that edit (`Unsayable`).
* An XML type reads one spelling of a field even if the catalog has two (`vatPercent`, also
  `ndsPercent`, of an invoice's line): a field the server spells the other way is read as empty and
  written back so (`Unread`, excepted likewise; `SpellingsAgree` is about the JSON types).
* `ReplaceEmployee` tells its caller to read the employee and send it back modified, and the
  methods of `staff` send what they are given: with the read-only fields, unless the caller strips.
* A map does not bring a shared leaf into its package, only a field that nests it does: if `ErrorDto`
  were referred to by a map alone it would become `json.RawMessage` there. No DTO of the catalog does.

## 6. Proofs

All theorems are proved for every value of the constants that satisfies the named
assumptions. Most of these state no more than that sets are sets, `NoCall` is no call, and
numbers are natural. The others, and what in the code they come from:

* `HeadroomAssumption` (`CloudToken`; part of `ClientAssumption`): two timeouts fit into the
  refresh window, the hour and every lifetime (2·2 min ≤ 5 min).
* `LimiterAssumption`, and `IsFiniteSet(Calls)` in `WasteIsBounded`: the calls are finitely many,
  since they are counted; the server takes one at least.
* `NoCopyAssumption` (`RoundTrips`): the value for "holds no copy" is neither a cell nor an entity.
* `NameAssumption`, `SpecAssumption`, `OverlayAssumption` (`CloudGen`): a key has a segment; a
  specification refers only to schemas it has (a dangling reference would get an empty name);
  the overlay files repair no fragment twice, remove one parameter, and rename nothing that is
  pinned as absent.
* `CatalogAssumption` (`ServerGen`): names differ, and a DTO of `domain.go`'s `duplicated` refers
  to no other such DTO. Both are so in `research/dtos.yaml`; the second would be needed of a new
  shared leaf, for the generator copies such leaves one level deep.

TLC evaluates every assumption on the instances of section 3.

**ServerSessionProofs.** The safety properties are not inductive: that a retry does not
repeat an executed operation rests on what a 401 says about the effect, which rests on
which request the answer belongs to, which rests on the mutex. `IInv` is the conjunction of
`TypeOK`, `CallInv` (mutual exclusion, what a call has on the wire and behind it at each
point, which replies can exist, what is known of the effect) and `TokenInv` (which token a
call holds, the order of tokens, who accounts for each live session). It is proved in
layers: types by themselves, `CallInv` from the types, `TokenInv` from both, and
`CookieInv` on top. One lemma per layer has one step per action. From `IInv` follow
`TypeCorrect`, `MutualExclusion`, `ExecutedAtMostOnce`, `HonestResult`, `NoSeatLost`,
`OneSeat`, `RetryIsNewer`, `KeyAndCookieAgree`, the action property `TokenOrder`, and
`Refinement`: with `mu` as the call being served, and effect and outcome read off `runs`
and `result`, every step of the client is a step of `SerialCalls` or a stutter. The lemma
`SerialIsRemote` shows that one call at a time implements any number of them, with the call
being served as the only open one; together they give `ClientIsRemote`: `ServerSession`
implements `RemoteCalls`.

**ServiceCallsProofs.** `IInv` adds to the types that the server has decided about exactly the
attempts that took effect (`Decided`), what is known of the attempt a caller is at
(`CurrentAttempt`: in particular, a caller told that nothing was done holds one that was
not lost, and not applied either unless its answer had no verdict, `NotApplied`), that attempts
before it are over and those after it untouched (`OtherAttempts`), and that only documents are
answered so (`VerdictsOfDocuments`). `VerdictSound` is the lemma about the decoding: over every
protocol and every body, "ok" of a method that reads the answer means applied, and "rejected"
means rejected or that there was no verdict. `SettleInv` is the step `Judge` and `Fail` have in common. The theorems are
`CallsInvariant`, `TypeCorrect`, `SuccessMeansApplied`, `NothingDoneIsFinal` and
`RepeatsApplyOnce`, for any number of callers and tries.

**CloudTokenProofs.** The same plan: `CallInv` (`OneFetch` and the shapes), then `TokenInv`
with the order of tokens and `TimeKept`, the arithmetic of deadlines and expiries. A token
is cached with an expiry at most one timeout later than the true one (its hour is counted
from the answer); it is presented at most one timeout after it was read; so two timeouts of
window suffice, and `AgeNeverFails` follows. Also `SingleFetch`, `ExecutedAtMostOnce`,
`HonestResult`, `RetryIsNewer`, `TokenOrder`, and `Refinement`: with the calls that have begun and
not returned as the open ones, every step is a step of `RemoteCalls` or a stutter.

`WasteIsBounded` compares two cardinalities, neither of which an induction over steps can
follow. `WasteInv` says instead where a wasted token comes from: the client never underrates
a token (`NeverUnderrated`), so an ordinary fetch replaces one only in its window
(`FetchedInWindow`), and any other token that was replaced is followed directly by the second
token of some call (`ReplacedOnRefusal`). That the token so followed is unique to the call makes the map
from wasted tokens to retried calls an injection.

**CloudClientProofs.** *The limiter.* `ChannelInv` (each channel holds exactly the calls in the
stages that own a slot of it, and no more than its capacity) and `PacingInv` are independent and
proved apart. Every action moves one call from one stage to another, so each channel gains or
loses that call or neither: lemma `JoinLeave` is the arithmetic, and there is one lemma per group
of actions. `ReservationsApart` is not inductive, because a later reservation is compared with
`next` and not with the earlier ones: `ReservationsKept` adds that `next` lies a spacing past
every reservation of its path, and what a sleeper and a reading of the clock are bounded by. Theorems:
`SlotsNeitherLeakNorForge`, `CeilingsHold`, `SpacingKept`, `NobodyIsEarly`, `TypeCorrect`.

*The client.* `LimiterRefinement` and `SessionRefinement`: a whole `Post` implements both parts, so
their theorems hold of it. Those of the session come in by an instance of `CloudTokenProofs`, whose
assumptions `SessionAssumptions` derives from the client's (this is why `CloudToken` names its
assumptions in definitions); `SameSession` and `SameInvariant` say that the instance speaks of the
session in the client. `ClientInvariant` adds `TalksInside`, which ties the parts: a call that talks
holds its slots, and one that has not been admitted, or was cancelled, has not begun.
`TalkIsWithinLimits` and `ClientIsAsNew` follow, and need both parts. `PostIsRemote`: the client
with its limiter implements `RemoteCalls`, so `ServiceCalls` is about services over a whole `Post`.

**RoundTripsProofs.** *Types.* The set of all types is too large to be taken apart in a step about
callers, so what is needed of it comes first: `SameForm` (a JSON type nests JSON types, an XML type
XML types), and for the fifteen write methods `WriterShape` and `NestedShape`: what they take has a
field that is not read-only, at every depth (`MarshalJSON` is generated only then), and a method
whose body must identify the entity has the id in it. *Codec.* `DecodedIsEntity` is the way in; `BodyCarries` the way out, over the four kinds of body; `BodyArrives` and `BodyAccepted` what the
server makes of it. *Callers.* None of the properties is inductive: that a write is the edit rests on what
the caller holds (`CopyKept`: what it read, but for the cell it edited, what it had zeroed and what
its type does not read; `StripKeeps` is the step that zeroes), what was read-only and has been zeroed
stays zero up to the message, and that the server finds the entity and its elements on ids that no write changes (`IdsKept`). Theorems, for any number
of callers: `Invariance`, `EverySpellingIsRead`, `ReadOnlyNeverSent`, and `WritesAreEdits` for the
action property.

**RevisionSyncProofs.** The journal and the copy are proved apart, since in one behaviour only one of
them is polled. `JournalKept`: the cursor lies within the history or one past it, and the
answer on its way continues what was received up to the revision it names. `MirrorKept`: there is a
revision, at the cursor or after it, of which the copy is a copy, and the answer on its way was
given at one that is no earlier; a poll asked before and answered late is the hard case. `Dedup`
is a recursive function over the events, and that its result has every event once
(`DedupResult`) is shown without induction, by looking at the least prefix for which it fails. Theorems:
`TypeCorrect`, `JournalIsExact`, `EventsHandledOnce`, `MirrorIsExact`.

**CloudGenProofs.** Three parts. *Names*: `schemaNames` gives different keys different names, and
every key one. Its recursions are unfolded with `Recursion` (a recursive function exists, whatever
its step) and `RecursionStays` (what each step preserves holds throughout); that a free number
always remains is a count of the names in use. *Overlays*: `Respelt` relates the document to what was fetched by
an injection of keys, and every action, a rename with its rewriting of references included,
preserves it. *Run*: `IInv` adds what is known at each phase (`PinChecked`, `GuardsRead`,
`HalfWritten`). Theorems: `PinIsPublished`, `SchemasHaveTypes`, and `FixesAreSeen` for the action property.

**ServerGenProofs.** Two parts. *Rounds*: `assign` is only right if its rounds reach a fixed
point, and the code allows one round per DTO. `RoundSound` shows that no round leaves the least closed set
(`InUse`), `StuckIsClosed` that a round without progress is closed, and `AssignCloses` that every
other round assigns one more name, so that the rounds suffice. *Files*: `RunInv` says which
files hold what was rendered at each moment of a run (`RunsComplete`). With the lemmas about what a package
declares (`DeclaredAtHome`) and what becomes of references (`ReferencesKept`, `MapReferencesKept`) it gives
`DtosDeclaredOnce` and `ReferencesKeepTypes`.

Model-checked only:

* All liveness (`EveryCallReturns`, `EveryCallServed`, `EveryPostEnds`, `CatchesUp`): out of the
  prover's reach. The refinement theorems are about safety and assume no fairness.
* The three documented claims that do not hold (section 5), which are counterexamples.
* Each inductive invariant was also checked by TLC on the instances before it was proved.

## 7. Abstractions and their limits

* Between two exchanges a goroutine's local work is one action: from reading the token
  to sending the request in particular. A goroutine paused by the scheduler there for
  minutes is outside `NeverTooOld`; delays on the way to the server, up to the timeout,
  are inside.
* A request may outlive its call, and the limiter's slots are freed when the *call* ends:
  the ceilings are about calls, and the server may for a moment work on more requests
  than the ceiling. The same holds of `OneExchange` in the session.
* A session whose token was lost with its answer cannot be logged out by anybody. It is
  *stranded*, and the seat properties except it explicitly; the model shows these are the
  only ones.
* In `ServiceCalls` a write is applied or rejected as a whole. A rejection of a v1 endpoint
  without `<valid>` is an answer outside 2xx and thus an error of `Do`; a dry run
  (`CheckInventory`) counts as applied when it was computed. Argument checks are one
  predicate per method. `result=ERROR` comes in the documented shape: an envelope with
  fields of other types than declared would be taken for a bare object. A command to
  iikoCloud is carried out when it has been accepted; what becomes of it later is not looked at.
* The callers of `ServiceCalls`, `RevisionSync` and `RoundTrips` are external: no code of the
  repository repeats a write, keeps a cursor or edits an entity. What is shown is what the
  answers make safe, and what the comments' instructions achieve.
* In `RoundTrips` an import of an invoice counts as an edit of the one that was exported: iiko finds
  it by its number, which no edit changes. The checks of the imports and of `writeBody` on their
  arguments refuse before anything is sent and are left out, as is the range of the day.
* In `RoundTrips` one field stands for all of a type that carry the same marks, and one nested
  type is looked at at a time. A nested value is never absent, only its fields are: that
  `omitempty` does not omit a zero struct is outside.
* In `ServerGen` and `CloudGen` the content of a DTO or schema is what it nests or refers to; the
  spelling of names is kept where names can collide (`CloudGen`), and left out where they cannot.
* A `Do` after `Close` opens a new session; the code permits it and so does the model.
* A refused call fetches a new token even if another call has already replaced the refused
  one (`accessToken(force)` does not look). `WasteBounded` says what that costs.
* `net/http`'s own replay of idempotent requests on a reused connection that broke before
  any answer is not modelled; it concerns GETs, and `AtMostOnce` is about operations that
  write.
* Bodies, headers and texts are abstracted to what the control flow tells apart.
* The servers (external code) are modelled from what the clients, their tests and comments
  say of them.

## 8. What is not modelled

`PROJECT.json` gives the reason for each component. In short: `iikocloud/gen/types.go`, half of
the repository's lines, and the endpoint constants are plain data whose making is `CloudGen`'s;
the conditions of argument checks, filters and the queries of reports are one predicate or
none; date layouts (`rest/dates.go`) are format strings; the hints attached to errors are
wording; the facades only wire services to a client; the fallback of the corporation service
from one spelling of a path to another counts as one call; CI and scripts are not part of the
program.

## 9. Plan

Done: both sessions, the limiter, the whole `Post`, all methods of both clients' services, the
following of revisions, the round trips of the generated types, both generators, and proofs of
the safety of all of them. Next, in this order:

1. **EdiOrders**: an order over `CreateOrder`, `UpdateOrder`, register, send, unregister, answer
   and acknowledge, by the two sides, as a state machine.
2. **Windows**: which end of a period each endpoint counts in (`rest/dates.go`), so that
   consecutive windows neither overlap nor leave a day out.

## 10. Running the checks

```
tlc -workers 2 -config ServerSession.cfg MCServerSession.tla
tlapm ServerSessionProofs.tla
```

`PROJECT.json` lists every run with its module and configuration, every mutant with the
definition it replaces, and the main theorems. The longest run (`cloud_client`) takes some
minutes on two cores, the proofs together about five.
