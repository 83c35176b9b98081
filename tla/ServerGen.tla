----------------------------- MODULE ServerGen -----------------------------
(***************************************************************************)
(* tools/gen/server: the command that turns the catalog of DTOs into one   *)
(* types.go per package of iikoserver, and the test that guards the files. *)
(* A developer edits the catalog, writes types by hand, edits a generated  *)
(* file in spite of its marker; a run reads catalog and packages once,     *)
(* writes the files one by one and may be killed at every step; the test   *)
(* generates again and compares.                                           *)
(*                                                                         *)
(* The catalog is a sequence of records                                    *)
(*   name    of the DTO, no two alike                                      *)
(*   of      the DTOs its fields nest, or hold in a list                   *)
(*   maps    the DTOs that are the values of its maps (map_of)             *)
(*   paths   the domains (domainOf) of the endpoints it is used by         *)
(*   owners  the DTOs it is used by as a field, in the catalog's order     *)
(* A DTO of enumerations only is left out: it is a string wherever it is   *)
(* used.                                                                   *)
(***************************************************************************)
EXTENDS Naturals, Sequences, SequencesExt, FiniteSets

CONSTANTS
  Catalogs,     \* what research/dtos.yaml may say
  Packages,     \* the directories below iikoserver
  overrides,    \* name -> the domain it is settled for
  skipped,      \* the names that are not generated
  duplicated,   \* the leaves that go wherever they are referenced
  ByHand,       \* the types that may be written by hand: <<package, name>>
  None,         \* no domain, no file
  Torn,         \* a file that was truncated and not written to its end
  Edited        \* a file that was edited by hand

IsSequence(s) == Len(s) \in Nat /\ s = [i \in 1..Len(s) |-> s[i]]

(* What a catalog is: DTOs with a name each.  A leaf that goes wherever it *)
(* is referenced nests no other such leaf (ErrorDto nests none).           *)
ASSUME CatalogAssumption ==
  \A cat \in Catalogs :
    /\ IsSequence(cat)
    /\ \A i \in DOMAIN cat :
         /\ IsSequence(cat[i].owners)
         /\ \A j \in DOMAIN cat : cat[i].name = cat[j].name => i = j
         /\ cat[i].name \in duplicated => cat[i].of \cap duplicated = {}

VARIABLES
  catalog,
  hand,         \* the types that are written by hand
  disk,         \* types.go of each package
  made,         \* the catalog and the hand-written types the last run read
  todo,         \* the files it has still to write
  phase,        \* "idle" or "write"
  result,       \* how it ended: "none", "ok"
  test          \* what the test said since the last change: "none", "pass", "fail"

vars == <<catalog, hand, disk, made, todo, phase, result, test>>

Names(cat) == {cat[i].name : i \in DOMAIN cat}

-----------------------------------------------------------------------------
(* Which domain owns a DTO.                                                *)

(* The single domain owning every path; one that spans several is left to  *)
(* an override.                                                            *)
fromPaths(d) == IF Cardinality(d.paths) = 1 THEN CHOOSE dom \in d.paths : TRUE ELSE None

Settled(d) ==
  CASE d.name \in skipped          -> None
    [] d.name \in DOMAIN overrides -> overrides[d.name]
    [] OTHER                       -> fromPaths(d)

(* Otherwise it goes with the first of its owners that has a domain.       *)
Inherited(out, d) ==
  LET placed == {i \in DOMAIN d.owners : d.owners[i] \in DOMAIN out /\ out[d.owners[i]] # None}
  IN  IF placed = {} THEN None ELSE out[d.owners[Min(placed)]]

Visit(out, d) ==
  IF out[d.name] # None \/ d.name \in skipped THEN out
  ELSE [out EXCEPT ![d.name] = Inherited(out, d)]

(* The catalog once, in its order: what a DTO has inherited is there for   *)
(* those after it.                                                         *)
Round(cat, out) ==
  LET After[i \in 0..Len(cat)] == IF i = 0 THEN out ELSE Visit(After[i-1], cat[i])
  IN  After[Len(cat)]

First(cat) == [n \in Names(cat) |-> Settled(CHOOSE d \in ToSet(cat) : d.name = n)]

\* Mutation: the catalog is gone through once.
assignOnce(cat) == Round(cat, First(cat))
(* Repeated until nothing changes, or as often as there are DTOs.          *)
assign(cat) ==
  LET Out[n \in 0..Len(cat)] == IF n = 0 THEN First(cat) ELSE Round(cat, Out[n-1])
  IN  Out[Len(cat)]

-----------------------------------------------------------------------------
(* What is rendered into which package.                                    *)

Assigned == [cat \in Catalogs |-> assign(cat)]
Owned(cat, dom) == {d \in ToSet(cat) : Assigned[cat][d.name] = dom}

\* Mutation: a shared leaf is not copied, its references are.
NoLeaves(cat, dom) == {}
(* A map does not bring its leaf along: only a field's of is looked at.    *)
Leaves(cat, dom) ==
  {d \in ToSet(cat) : d.name \in duplicated /\ \E e \in Owned(cat, dom) : d.name \in e.of}

(* A type somebody wrote is never replaced.                                *)
emit(cat, written, dom) ==
  {d \in Owned(cat, dom) \cup Leaves(cat, dom) : <<dom, d.name>> \notin written}

(* A reference to a type the file does not declare is json.RawMessage, or  *)
(* a string in an XML type.                                                *)
goType(n, known) == IF n \in known THEN n ELSE "raw"

render(dtos) ==
  LET known == {d.name : d \in dtos}
  IN  {[name |-> d.name,
        of   |-> [n \in d.of   |-> goType(n, known)],
        maps |-> [n \in d.maps |-> goType(n, known)]] : d \in dtos}

generate ==
  [cat \in Catalogs |-> [written \in SUBSET ByHand |->
     [dom \in {p \in Packages : emit(cat, written, p) # {}} |-> render(emit(cat, written, dom))]]]

-----------------------------------------------------------------------------
Init ==
  /\ catalog \in Catalogs
  /\ hand = {}
  /\ disk = [dom \in Packages |-> None]
  /\ made = [catalog |-> catalog, hand |-> hand]
  /\ todo = {} /\ phase = "idle"
  /\ result = "none" /\ test = "none"

EditCatalog ==
  /\ catalog' \in Catalogs \ {catalog}
  /\ test' = "none"
  /\ UNCHANGED <<hand, disk, made, todo, phase, result>>

WriteByHand(type) ==
  /\ hand' = IF type \in hand THEN hand \ {type} ELSE hand \cup {type}
  /\ test' = "none"
  /\ UNCHANGED <<catalog, disk, made, todo, phase, result>>

EditGenerated(dom) ==
  /\ phase = "idle" /\ disk[dom] \notin {None, Edited}
  /\ disk' = [disk EXCEPT ![dom] = Edited]
  /\ result' = "none" /\ test' = "none"
  /\ UNCHANGED <<catalog, hand, made, todo, phase>>

(* Everything is rendered before the first file is written; when nothing   *)
(* is, the run is over.                                                    *)
Start ==
  /\ phase = "idle"
  /\ made' = [catalog |-> catalog, hand |-> hand]
  /\ todo' = DOMAIN generate[catalog][hand]
  /\ phase'  = IF todo' = {} THEN "idle" ELSE "write"
  /\ result' = IF todo' = {} THEN "ok" ELSE "none"
  /\ test' = "none"
  /\ UNCHANGED <<catalog, hand, disk>>

(* In the order the range over the map happens to take.  A package for     *)
(* which nothing was rendered is not visited.                              *)
WriteFile(dom) ==
  /\ dom \in todo
  /\ disk' = [disk EXCEPT ![dom] = generate[made.catalog][made.hand][dom]]
  /\ todo' = todo \ {dom}
  /\ IF todo = {dom} THEN phase' = "idle" /\ result' = "ok" ELSE UNCHANGED <<phase, result>>
  /\ UNCHANGED <<catalog, hand, made, test>>

Killed ==
  /\ phase = "write"
  /\ \/ UNCHANGED disk
     \/ \E dom \in todo : disk' = [disk EXCEPT ![dom] = Torn]
  /\ todo' = {} /\ phase' = "idle"
  /\ UNCHANGED <<catalog, hand, made, result, test>>

(* Every file the catalog generates is compared with the one on disk, and  *)
(* nothing at all is a failure.                                            *)
TestGeneratedFilesMatchTheCatalog ==
  /\ phase = "idle" /\ test = "none"
  /\ LET want == generate[catalog][hand]
     IN  test' = IF DOMAIN want # {} /\ \A dom \in DOMAIN want : disk[dom] = want[dom]
                 THEN "pass" ELSE "fail"
  /\ UNCHANGED <<catalog, hand, disk, made, todo, phase, result>>

Next ==
  \/ EditCatalog \/ Start \/ Killed \/ TestGeneratedFilesMatchTheCatalog
  \/ \E type \in ByHand : WriteByHand(type)
  \/ \E dom \in Packages : EditGenerated(dom) \/ WriteFile(dom)

Spec == Init /\ [][Next]_vars

-----------------------------------------------------------------------------
(* The inductive invariant behind the properties below: a run writes, of   *)
(* what it read at its start, the files it has rendered, nobody touches    *)
(* them meanwhile, and once it has said so they are all there.             *)
Written(doms) == \A dom \in doms : disk[dom] = generate[made.catalog][made.hand][dom]

RunInv ==
  LET visited == DOMAIN generate[made.catalog][made.hand]
  IN  /\ catalog \in Catalogs /\ hand \subseteq ByHand
      /\ made.catalog \in Catalogs /\ made.hand \subseteq ByHand
      /\ DOMAIN disk = Packages
      /\ phase \in {"idle", "write"} /\ todo \subseteq visited
      /\ phase = "idle"  => todo = {}
      /\ phase = "write" => result = "none" /\ Written(visited \ todo)
      /\ result = "ok"   => Written(visited)

-----------------------------------------------------------------------------
(* The DTOs that have a domain, directly or because some chain of uses     *)
(* leads to one that has: the smallest such set.                           *)
InUse ==
  [cat \in Catalogs |->
     LET base   == {d.name : d \in {e \in ToSet(cat) : Settled(e) # None}}
         closed == {S \in SUBSET Names(cat) :
                      /\ base \subseteq S
                      /\ \A d \in ToSet(cat) :
                           d.name \notin skipped /\ ToSet(d.owners) \cap S # {} => d.name \in S}
     IN  {n \in Names(cat) : \A S \in closed : n \in S}]

(* After a run that came to its end, in whatever order the catalog lists   *)
(* the DTOs, every one in use is declared once: in a single package, by    *)
(* hand or by the generator and not by both, and one that inherits its     *)
(* package shares it with one of its owners.                               *)
Home(n) == Assigned[made.catalog][n]
Declares(dom, n) == \E t \in disk[dom] : t.name = n
EveryDtoOnce ==
  result = "ok" =>
    LET cat     == made.catalog
        visited == DOMAIN generate[cat][made.hand]
    IN  \A d \in ToSet(cat) \ {e \in ToSet(cat) : e.name \in duplicated \cup skipped} :
          /\ d.name \in InUse[cat] <=> Home(d.name) # None
          /\ Settled(d) = None /\ Home(d.name) # None =>
               \E u \in ToSet(d.owners) \cap Names(cat) : Home(u) = Home(d.name)
          /\ \A dom \in visited :
               Declares(dom, d.name) <=> Home(d.name) = dom /\ <<dom, d.name>> \notin made.hand

(* After such a run a reference has lost its type only to a DTO that       *)
(* lives in another package or in none, or is written by hand.  A shared   *)
(* leaf lives wherever a field nests it ("losing them to json.RawMessage   *)
(* would hide the error code from callers", domain.go:74-76), though not   *)
(* where a map alone refers to it.                                         *)
Lives(dom, n) == n \in Names(made.catalog) /\ Home(n) = dom
NoReferenceLost ==
  result = "ok" =>
    \A dom \in DOMAIN generate[made.catalog][made.hand] : \A t \in disk[dom] :
      /\ \A n \in DOMAIN t.of :
           \/ t.of[n] = n
           \/ <<dom, n>> \in made.hand
           \/ n \notin duplicated /\ ~Lives(dom, n)
           \/ n \notin Names(made.catalog)
      /\ \A n \in DOMAIN t.maps :
           \/ t.maps[n] = n
           \/ <<dom, n>> \in made.hand
           \/ ~Lives(dom, n)

(* "The committed types.go files must be exactly what the generator        *)
(* produces from the current catalog.  A hand edit fails here, and so does *)
(* a catalog change nobody regenerated" (generate_test.go:9-11).             *)
CommittedIsCurrent ==
  test = "pass" =>
    LET want == generate[catalog][hand]
    IN  \A dom \in Packages : disk[dom] = IF dom \in DOMAIN want THEN want[dom] ELSE None
=============================================================================
