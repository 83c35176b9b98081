------------------------------ MODULE CloudGen ------------------------------
(***************************************************************************)
(* tools/gen/cloud: the command that regenerates iikocloud/gen from the    *)
(* live OpenAPI specification.  Upstream may republish the specification   *)
(* at any moment; a developer edits guards and pins; a run fetches once,   *)
(* compares the digest with the pin, applies the guarded overlays in the   *)
(* order of their files, gives every component schema a Go name and writes *)
(* two files, and may be refused, fail or be killed at every step.         *)
(*                                                                         *)
(* A specification is a record                                             *)
(*   frags    the fragments the overlays set or merge: Absent, NoPath when *)
(*            the container itself is gone, a scalar, or an object         *)
(*   schemas  key -> [body, refs, parents, poly]: what the schema says of  *)
(*            itself (no two say the same), the keys its properties refer  *)
(*            to, those it inherits from, whether it is a discriminated    *)
(*            base                                                         *)
(*   ops      operation -> [live, request, carries]: deprecated or not,    *)
(*            the key of its body, whether it still lists the parameter    *)
(*            the overlay removes.                                         *)
(* A digest is the content it is the digest of: SHA-256 does not collide.  *)
(* Keys are numbered in the order sort.Strings gives them.                 *)
(***************************************************************************)
EXTENDS Integers, Sequences, FiniteSets, Functions, TLC

CONSTANTS
  Specs,        \* what upstream may publish
  Overlays,     \* the actions of all overlay files, in order: [op, target, value]
  Guards,       \* the guards the overlay files hold at first, one per action
  Words,        \* key -> its namespace segments, each the words of its Go spelling
  Numeral,      \* a number -> the word it is written as
  Scalars,      \* fragments that are not objects
  Absent,       \* the fragment of a key that is not there, and the guard "absent"
  NoPath,       \* the fragment of a pointer that leads nowhere
  None          \* no file, no pin, no body

Files == {"types", "operations"}
Ops == {"set", "merge", "removeParameter", "renameSchema"}

(* A key has a segment at least; there is a numeral for every key, and no  *)
(* two numbers are written alike.                                          *)
NameAssumption ==
  /\ Words \in Seq(Seq(Seq(STRING)) \ {<<>>}) /\ None \notin DOMAIN Words
  /\ Numeral \in [1..Len(Words) -> STRING] /\ IsInjective(Numeral)
ASSUME NameAssumption

(* A specification refers to no schema that it does not have.              *)
SpecAssumption ==
  \A s \in Specs :
    LET keys   == DOMAIN s.schemas
        bodies == {s.schemas[k].body : k \in keys}
    IN  /\ keys \subseteq DOMAIN Words
        /\ s \in [frags   : [DOMAIN s.frags -> Range(s.frags)],
                  schemas : [keys -> [body : bodies, refs : SUBSET keys,
                                      parents : SUBSET keys, poly : BOOLEAN]],
                  ops     : [DOMAIN s.ops -> [live : BOOLEAN, request : keys \cup {None},
                                              carries : BOOLEAN]]]
        /\ \A k, j \in keys : s.schemas[k].body = s.schemas[j].body => k = j
ASSUME SpecAssumption

(* The overlay files of iikocloud/overlays: no fragment is repaired twice, *)
(* one action removes the parameter, nothing absent is renamed.            *)
Fragment(a) == a.op \in {"set", "merge"}
Remove(a) == a.op = "removeParameter"
Rename(a) == a.op = "renameSchema"
OverlayAssumption ==
  /\ Len(Overlays) \in Nat /\ DOMAIN Overlays = 1..Len(Overlays) /\ DOMAIN Guards = DOMAIN Overlays
  /\ \A i \in DOMAIN Overlays :
       /\ Overlays[i].op \in Ops
       /\ Fragment(Overlays[i]) => \A s \in Specs : Overlays[i].target \in DOMAIN s.frags
       /\ Rename(Overlays[i]) => /\ {Overlays[i].target, Overlays[i].value} \subseteq DOMAIN Words
                                 /\ Guards[i] # Absent
  /\ \A i, j \in DOMAIN Overlays : i # j =>
       /\ ~(Remove(Overlays[i]) /\ Remove(Overlays[j]))
       /\ Fragment(Overlays[i]) /\ Fragment(Overlays[j]) => Overlays[i].target # Overlays[j].target
ASSUME OverlayAssumption

VARIABLES
  upstream,     \* the specification upstream publishes now
  pin,          \* spec.sha256
  expect,       \* the guard of each overlay action
  phase,        \* where the run is: idle, pin, repair, write
  repin,        \* the run was started with -repin
  raw,          \* the specification this run fetched
  doc,          \* the same after the overlays applied so far
  at,           \* the overlay action to apply next
  todo,         \* the files still to be written
  files,        \* what iikocloud/gen holds: [from, text, whole], not whole if torn
  result        \* how the last run ended: none, ok, failed

vars == <<upstream, pin, expect, phase, repin, raw, doc, at, todo, files, result>>

-----------------------------------------------------------------------------
(* The overlays.                                                           *)

(* f with one more key.                                                    *)
Extended(f, key, value) == [k \in DOMAIN f \cup {key} |-> IF k = key THEN value ELSE f[k]]

Carriers(d) == {o \in DOMAIN d.ops : d.ops[o].carries}

(* What the action a finds at its target: the content its guard pins.      *)
Found(d, a) ==
  CASE a.op \in {"set", "merge"} -> d.frags[a.target]
    [] a.op = "renameSchema" ->
         IF a.target \in DOMAIN d.schemas THEN d.schemas[a.target] ELSE Absent
    [] a.op = "removeParameter" -> Cardinality(Carriers(d))

\* Mutation: the guard only tells whether the key is there.
CheckPresence(found, guard) == (found = Absent) = (guard = Absent)
check(found, guard) == found = guard

(* Each action as the document it leaves, and the condition on which it    *)
(* does not fail.                                                          *)
setOK(d, a, guard) == d.frags[a.target] # NoPath /\ check(Found(d, a), guard)
set(d, a) == [d EXCEPT !.frags[a.target] = a.value]

IsObject(f) == f \notin Scalars \cup {Absent, NoPath}
mergeOK(d, a, guard) == setOK(d, a, guard) /\ IsObject(Found(d, a))
merge(d, a) == [d EXCEPT !.frags[a.target] = a.value @@ @]

removeParameterOK(d, a, guard) == Cardinality(Carriers(d)) = guard
removeParameter(d) == [d EXCEPT !.ops = [o \in DOMAIN @ |-> [@[o] EXCEPT !.carries = FALSE]]]

(* A rename is refused when its new key is already taken.                  *)
Clash(d, a) == a.value \in DOMAIN d.schemas
renameSchemaOK(d, a, guard) == check(Found(d, a), guard) /\ ~Clash(d, a)

(* Every $ref to `from`, in schemas and operations alike, becomes `to`.    *)
\* Mutation: the schema is renamed and the references to it are not.
RefsLeftAlone(d, from, to) == d
rewriteRefs(d, from, to) ==
  LET Ref(k) == IF k = from THEN to ELSE k
  IN  [frags   |-> d.frags,
       schemas |-> [k \in DOMAIN d.schemas |->
                      [body    |-> d.schemas[k].body,    refs |-> {Ref(j) : j \in d.schemas[k].refs},
                       parents |-> {Ref(j) : j \in d.schemas[k].parents}, poly |-> d.schemas[k].poly]],
       ops     |-> [o \in DOMAIN d.ops |-> [d.ops[o] EXCEPT !.request = Ref(@)]]]

renameSchema(d, a) ==
  LET kept  == Restrict(d.schemas, DOMAIN d.schemas \ {a.target})
      moved == Extended(kept, a.value, d.schemas[a.target])
  IN  rewriteRefs([d EXCEPT !.schemas = moved], a.target, a.value)

ApplyOK(d, a, guard) ==
  CASE a.op = "set"             -> setOK(d, a, guard)
    [] a.op = "merge"           -> mergeOK(d, a, guard)
    [] a.op = "removeParameter" -> removeParameterOK(d, a, guard)
    [] a.op = "renameSchema"    -> renameSchemaOK(d, a, guard)

Apply(d, a) ==
  CASE a.op = "set"             -> set(d, a)
    [] a.op = "merge"           -> merge(d, a)
    [] a.op = "removeParameter" -> removeParameter(d)
    [] a.op = "renameSchema"    -> renameSchema(d, a)

-----------------------------------------------------------------------------
(* The Go names: the last segment, lengthened with enclosing ones as far   *)
(* as collisions require, for eight rounds at most, then numbered.         *)

Rounds == 8

Concat(segs) ==
  LET C[i \in 0..Len(segs)] == IF i = 0 THEN <<>> ELSE C[i-1] \o segs[i] IN C[Len(segs)]

NameAt(k, depth) == Concat(SubSeq(Words[k], Len(Words[k]) - depth + 1, Len(Words[k])))

Longer(keys, depth) ==
  [k \in keys |->
     IF \E j \in keys \ {k} : NameAt(j, depth[j]) = NameAt(k, depth[k])
       THEN IF depth[k] < Len(Words[k]) THEN depth[k] + 1 ELSE depth[k]
       ELSE depth[k]]

Depths(keys) ==
  LET D[n \in 0..Rounds] ==
        IF n = 0 THEN [k \in keys |-> 1]
        ELSE LET depth == D[n-1]
                 next  == Longer(keys, depth)
             IN  IF next = depth THEN depth ELSE next
  IN  D[Rounds]

(* The name itself, or the first number from 2 up that makes it unused.    *)
Numbered(name, i) == IF i = 1 THEN name ELSE Append(name, Numeral[i])
Unused(name, used) ==
  Numbered(name, CHOOSE i \in 1..Len(Words) :
    Numbered(name, i) \notin used /\ \A j \in 1..(i-1) : Numbered(name, j) \in used)

schemaNames(d) ==
  LET keys  == DOMAIN d.schemas
      depth == Depths(keys)
      Out[n \in 0..Len(Words)] ==
        IF n = 0 THEN <<>>
        ELSE LET given == Out[n-1]
             IN  IF n \in keys
                   THEN Extended(given, n, Unused(NameAt(n, depth[n]), Range(given)))
                   ELSE given
  IN  Out[Len(Words)]

(* names[k] of a key that no schema has is the empty string.               *)
GoName(names, k) == IF k \in DOMAIN names THEN names[k] ELSE <<>>

(* Emit: one declaration per schema, which embeds its parents; a field of  *)
(* the type of a discriminated base becomes raw JSON and names no type.    *)
Emit(d) ==
  LET names == schemaNames(d)
      Typed(k) == {j \in d.schemas[k].refs : ~(j \in DOMAIN names /\ d.schemas[j].poly)}
  IN  {[name |-> names[k], body |-> d.schemas[k].body,
        refs |-> {GoName(names, j) : j \in Typed(k)},
        embeds |-> {GoName(names, j) : j \in d.schemas[k].parents}] : k \in DOMAIN names}

(* EmitOperations: the operations that are not deprecated.                 *)
EmitOperations(d) ==
  LET names == schemaNames(d)
  IN  {[op |-> o, request |-> GoName(names, d.ops[o].request)] :
         o \in {p \in DOMAIN d.ops : d.ops[p].live}}

Rendered(f) == IF f = "types" THEN Emit(doc) ELSE EmitOperations(doc)

-----------------------------------------------------------------------------
Init ==
  /\ upstream \in Specs
  /\ pin = None
  /\ expect = Guards
  /\ phase = "idle" /\ repin = FALSE /\ raw = None /\ doc = None /\ at = 1 /\ todo = {}
  /\ files = [f \in Files |-> [from |-> None, text |-> None, whole |-> FALSE]]
  /\ result = "none"

(* Upstream republishes.                                                   *)
Drift ==
  /\ upstream' \in Specs \ {upstream}
  /\ UNCHANGED <<pin, expect, phase, repin, raw, doc, at, todo, files, result>>

(* A developer copies a digest that -digests printed, or the count an      *)
(* error reported, into an overlay: taken from the fetched specification.  *)
(* A rename of what upstream has no more is dropped, not pinned as absent. *)
Review(i) ==
  /\ phase = "idle"
  /\ Found(upstream, Overlays[i]) # NoPath
  /\ Rename(Overlays[i]) => Found(upstream, Overlays[i]) # Absent
  /\ expect' = [expect EXCEPT ![i] = Found(upstream, Overlays[i])]
  /\ UNCHANGED <<upstream, pin, phase, repin, raw, doc, at, todo, files, result>>

(* What a run that stops with an error leaves behind.                      *)
Stop ==
  /\ phase' = "idle" /\ result' = "failed"
  /\ repin' = FALSE /\ raw' = None /\ doc' = None /\ at' = 1 /\ todo' = {}

Fetch ==
  /\ phase = "idle"
  /\ \/ /\ repin' \in BOOLEAN
        /\ raw' = upstream /\ phase' = "pin" /\ result' = "none"
        /\ UNCHANGED <<doc, at, todo>>
     \/ Stop
  /\ UNCHANGED <<upstream, pin, expect, files>>

(* With -repin the new digest is on disk before one overlay is verified.   *)
Passed == phase' = "repair" /\ doc' = raw /\ at' = 1 /\ UNCHANGED <<repin, raw, todo, result>>
\* Mutation: the pin is not compared with what was fetched.
checkPinUnread ==
  /\ phase = "pin" /\ Passed
  /\ IF repin THEN pin' = raw ELSE UNCHANGED pin
  /\ UNCHANGED <<upstream, expect, files>>
checkPin ==
  /\ phase = "pin"
  /\ \/ repin  /\ pin' = raw /\ Passed
     \/ ~repin /\ pin = raw /\ Passed /\ UNCHANGED pin
     \/ ~repin /\ pin # raw /\ Stop /\ UNCHANGED pin
  /\ UNCHANGED <<upstream, expect, files>>

applyOverlays ==
  /\ phase = "repair" /\ at <= Len(Overlays)
  /\ IF ApplyOK(doc, Overlays[at], expect[at])
       THEN /\ doc' = Apply(doc, Overlays[at]) /\ at' = at + 1
            /\ UNCHANGED <<phase, repin, raw, todo, result>>
       ELSE Stop
  /\ UNCHANGED <<upstream, pin, expect, files>>

(* Both texts are rendered before either file is touched.                  *)
Render ==
  /\ phase = "repair" /\ at > Len(Overlays)
  /\ phase' = "write" /\ todo' = Files
  /\ UNCHANGED <<upstream, pin, expect, repin, raw, doc, at, files, result>>

(* The two files in the order the range over the map happens to take.      *)
WriteFile(f) ==
  /\ phase = "write" /\ f \in todo
  /\ files' = [files EXCEPT ![f] = [from |-> raw, text |-> Rendered(f), whole |-> TRUE]]
  /\ todo' = todo \ {f}
  /\ IF todo = {f}
       THEN phase' = "idle" /\ result' = "ok" /\ doc' = None /\ raw' = None /\ at' = 1 /\ repin' = FALSE
       ELSE UNCHANGED <<phase, result, raw, doc, at, repin>>
  /\ UNCHANGED <<upstream, pin, expect>>

(* The run is killed, or the disk refuses a write: the file being written  *)
(* may be left torn, and so may nothing else.                              *)
Killed ==
  /\ phase # "idle"
  /\ \/ UNCHANGED files
     \/ \E f \in todo : files' = [files EXCEPT ![f].whole = FALSE]
  /\ Stop
  /\ UNCHANGED <<upstream, pin, expect>>

Next ==
  \/ Drift \/ Fetch \/ checkPin \/ applyOverlays \/ Render \/ Killed
  \/ \E i \in DOMAIN Overlays : Review(i)
  \/ \E f \in Files : WriteFile(f)

Spec == Init /\ [][Next]_vars

-----------------------------------------------------------------------------
(* A run that reports success leaves both files rendered from the one      *)
(* specification the pin names (main.go:1-3), whatever runs were killed    *)
(* between the two writes, were refused or repinned before it.             *)
PublishedIsPinned ==
  result = "ok" => \A f \in Files : files[f].from = pin /\ files[f].whole

(* "a silent upstream fix breaks the build instead of being patched over"  *)
(* (overlay.go:18-19): what is on disk after a successful run comes from a *)
(* specification where every fragment the overlays replaced still was what *)
(* the author of the overlay recorded, and where the parameter was listed  *)
(* as often; a repin does not get round it.  An action property, since the *)
(* guards may be edited after the run.                                     *)
Repaired(i) == ~Rename(Overlays[i])
FixedStaysFixed ==
  [][result' = "ok" /\ result # "ok" =>
       \A i \in DOMAIN Overlays : Repaired(i) => Found(raw, Overlays[i]) = expect[i]]_vars

(* After a successful run every schema of the pinned specification has one *)
(* Go type of its own, no two share a name, none was lost to a rename, and *)
(* every reference, from a schema or a live operation, is to the type of   *)
(* the schema upstream meant.                                              *)
OneTypeEach(spec, types, operations) ==
  LET keys    == DOMAIN spec.schemas
      declare == [k \in keys |-> CHOOSE d \in types : d.body = spec.schemas[k].body]
      type    == [k \in keys |-> declare[k].name]
      Meant(k) == IF k = None THEN <<>> ELSE type[k]
  IN  /\ types = Range(declare)
      /\ IsInjective(type)
      /\ \A k \in keys :
           /\ declare[k].embeds = {type[j] : j \in spec.schemas[k].parents}
           /\ declare[k].refs = {type[j] : j \in {i \in spec.schemas[k].refs : ~spec.schemas[i].poly}}
      /\ operations = {[op |-> o, request |-> Meant(spec.ops[o].request)] :
                         o \in {p \in DOMAIN spec.ops : spec.ops[p].live}}
EverySchemaItsType ==
  result = "ok" => OneTypeEach(pin, files["types"].text, files["operations"].text)

-----------------------------------------------------------------------------
(* The inductive invariant.                                                *)

RunType ==
  /\ upstream \in Specs
  /\ phase \in {"idle", "pin", "repair", "write"}
  /\ result \in {"none", "ok", "failed"}
  /\ phase # "idle" => raw \in Specs /\ result = "none"
  /\ at \in 1..(Len(Overlays) + 1)
  /\ DOMAIN expect = DOMAIN Overlays
  /\ \A i \in DOMAIN Overlays : Rename(Overlays[i]) => expect[i] # Absent
  /\ files = [f \in Files |-> [from |-> files[f].from, text |-> files[f].text, whole |-> files[f].whole]]

(* Past checkPin the pin names what was fetched.                           *)
Repairing == phase \in {"repair", "write"}
PinChecked == Repairing => pin = raw

(* Each guard was compared with what upstream said, for no action before   *)
(* it had touched that.                                                    *)
GuardsRead ==
  Repairing =>
    \A i \in DOMAIN Overlays : Repaired(i) =>
      Found(raw, Overlays[i]) = IF i < at THEN expect[i] ELSE Found(doc, Overlays[i])

(* d is the specification r with other keys, each schema and operation     *)
(* saying what it said before in the new spelling.                         *)
Respelt(r, d, key) ==
  LET Spelt(k) == IF k = None THEN None ELSE key[k]
  IN  /\ d = [frags |-> d.frags, schemas |-> d.schemas, ops |-> d.ops]
      /\ d.frags = [t \in DOMAIN r.frags |-> d.frags[t]]
      /\ DOMAIN d.schemas = Range(key)
      /\ \A k \in DOMAIN r.schemas :
           d.schemas[key[k]] = [body    |-> r.schemas[k].body,
                                refs    |-> {key[j] : j \in r.schemas[k].refs},
                                parents |-> {key[j] : j \in r.schemas[k].parents},
                                poly    |-> r.schemas[k].poly]
      /\ d.ops = [o \in DOMAIN r.ops |-> [live |-> r.ops[o].live, request |-> Spelt(r.ops[o].request),
                                          carries |-> d.ops[o].carries]]
OnlyRespelt ==
  Repairing => \E key \in Injection(DOMAIN raw.schemas, DOMAIN Words) : Respelt(raw, doc, key)

(* The files already written are those of this run.                        *)
HalfWritten ==
  phase = "write" =>
    /\ at > Len(Overlays) /\ todo \subseteq Files /\ todo # {}
    /\ \A f \in Files \ todo : files[f] = [from |-> raw, text |-> Rendered(f), whole |-> TRUE]

IInv ==
  /\ RunType /\ PinChecked /\ GuardsRead /\ OnlyRespelt /\ HalfWritten
  /\ PublishedIsPinned /\ EverySchemaItsType
=============================================================================
