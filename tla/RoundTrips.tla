----------------------------- MODULE RoundTrips -----------------------------
(***************************************************************************)
(* Read, edit, write: what becomes of an entity of iikoServer that callers *)
(* read into a generated type, change in one field and send back, given    *)
(* how tools/gen/server renders the types (render.go) and which method     *)
(* sends them.  The types may hide a spelling on the way in, drop what is  *)
(* read-only on the way out, by themselves or when asked to, and leave out *)
(* what is zero; the server clears or keeps what is left out, and may      *)
(* refuse what it generates itself.                                        *)
(*                                                                         *)
(* A cell is a kind of field of the type itself ("own") or of one type     *)
(* nested in it at any depth ("nested"); its value is 0, the zero value,   *)
(* or one of two others.  An entity gives every cell a value; a message    *)
(* gives a value to the cells it carries, under one spelling or both.      *)
(***************************************************************************)
EXTENDS WireTypes, Integers, FiniteSets

CONSTANTS Callers, NoCopy

(* A write method: the type it takes, whether the request replaces the     *)
(* entity, updates it or is a form of the given fields, and whether the    *)
(* body must carry the id for the server to find the entity.  An invoice   *)
(* that is imported again is edited: iiko finds it by its number, which is *)
(* not among the fields that change here.                                  *)
Method(type, verb, byBody) == [type |-> type, verb |-> verb, byBody |-> byBody]

UpdateProduct           == Method(ProductDto, "update", TRUE)
UpdateGroup             == Method(ProductGroupDto, "update", TRUE)
UpdateProductScale      == Method(ProductScaleDto, "update", TRUE)
UpdateQuickMenu         == Method(QuickMenuDto, "update", TRUE)
SaveMenuChange          == Method(MenuChangeDocumentDto, "update", TRUE)
SaveChart               == Method(AssemblyChartDto, "replace", TRUE)
UpdateOrder             == Method(OrderDto, "update", FALSE)
writeSchedule           == Method(ScheduleDto, "update", TRUE)
writeAttendance         == Method(AttendanceDto, "update", TRUE)
ReplaceEmployee         == Method(EmployeeDto, "replace", FALSE)
UpdateEmployee          == Method(EmployeeDto, "form", FALSE)
ReplaceWaiterTeamByCode == Method(WaiterTeamDto, "replace", FALSE)
ReplaceAssignments      == Method(WaiterTeamAssignmentsDto, "replace", FALSE)
ImportIncomingInvoice   == Method(IncomingInvoiceDto, "update", FALSE)
ImportOutgoingInvoice   == Method(OutgoingInvoiceDto, "update", FALSE)
ReadOnly(type)          == Method(type, "read", FALSE)

Methods ==
  {UpdateProduct, UpdateGroup, UpdateProductScale, UpdateQuickMenu, SaveMenuChange, SaveChart,
   UpdateOrder, writeSchedule, writeAttendance, ReplaceEmployee, UpdateEmployee,
   ReplaceWaiterTeamByCode, ReplaceAssignments, ImportIncomingInvoice, ImportOutgoingInvoice}
  \cup {ReadOnly(type) : type \in Types}

Below(type) ==
  LET one == type.of
      two == UNION {t.of : t \in one}
  IN  one \cup two \cup UNION {t.of : t \in two}

NoType == Dto("none", {})

Generated == {"serverKey", "readOnly"}
Values == 0..2

(* What is looked at: a nested type if there is one; and what a server may *)
(* do with a field that it is not sent.                                    *)
Looked(type) == IF Below(type) = {} THEN {NoType} ELSE Below(type)
Keeping(verb) == CASE verb = "replace" -> {FALSE}
                   [] verb = "update"  -> BOOLEAN
                   [] OTHER            -> {TRUE}

CellsOf(type, within) == ({"own"} \X type.marks) \cup ({"nested"} \X within.marks)

(* NoCopy is neither a cell nor a value of all cells.                      *)
ASSUME NoCopyAssumption ==
  \A type, within \in Types \cup {NoType} :
    NoCopy \notin CellsOf(type, within) \cup [CellsOf(type, within) -> Values]

VARIABLES
  method, nested,   \* the method in use, and the nested type looked at
  keeps,            \* an update leaves what it is not given as it is, or clears it
  entity,           \* what the server holds
  copy,             \* what each caller has read and maybe edited, or NoCopy
  taken,            \* what the server held when that caller read
  edit,             \* the cell the caller changed, or NoCopy
  stripped,         \* where each caller has had the read-only fields zeroed
  sent              \* the message of each caller to the server, or NoCopy

vars == <<method, nested, keeps, entity, copy, taken, edit, stripped, sent>>

TypeAt(cell) == IF cell[1] = "own" THEN method.type ELSE nested
Cells == CellsOf(method.type, nested)
Own(mark) == <<"own", mark>>
Nested(mark) == <<"nested", mark>>
ReadOnlyCell(cell) == cell[2] \in Generated

(* writeMarshal and writeStrip are rendered when some but not all of the   *)
(* fields are read-only; a type of only such fields is a response.         *)
Partly(type) == type.marks \cap Generated # {} /\ ~(type.marks \subseteq Generated)

-----------------------------------------------------------------------------
(* The way in.                                                             *)

(* The second spelling is read when the first gave the zero value, and by  *)
(* the JSON types only: writeUnmarshal is not rendered for XML.            *)
\* Mutation: writeUnmarshal is not rendered, only the first spelling is known.
FirstSpelling(cell, primary, alias) == primary
Unmarshal(cell, primary, alias) ==
  IF TypeAt(cell).form = "json" /\ primary = 0 THEN alias ELSE primary

(* The spellings the server uses today, for the fields that have two.      *)
Spellings == {{"primary"}, {"alias"}, {"primary", "alias"}}
Decoded(spelling) ==
  [cell \in Cells |->
     IF cell[2] \in TypeAt(cell).aliased
       THEN Unmarshal(cell, IF "primary" \in spelling THEN entity[cell] ELSE 0,
                            IF "alias" \in spelling THEN entity[cell] ELSE 0)
       ELSE entity[cell]]

-----------------------------------------------------------------------------
(* The way out: the cells of the message and their values.                 *)

\* Mutation: every field is tagged omitempty, the required ones too.
OmitsZero(cell, value) == value # 0
Written(cell, value) == cell[2] = "required" \/ value # 0

(* MarshalJSON, of the type itself and of every type nested in it.         *)
Omits(type, cell) == Partly(type) /\ ReadOnlyCell(cell)
MarshalJSON(v) ==
  LET out == {cell \in Cells : Written(cell, v[cell]) /\ ~Omits(TypeAt(cell), cell)}
  IN  [cell \in out |-> v[cell]]

(* StripReadOnly of a type zeroes its own fields and does not descend; a   *)
(* nested type has one of its own.                                         *)
\* Mutation: an exported document is sent back as it was read.
Unstripped(v, depth) == v
StripReadOnly(v, depth) ==
  [cell \in Cells |-> IF cell[1] = depth /\ Omits(TypeAt(cell), cell) THEN 0 ELSE v[cell]]
MarshalXML(v) ==
  LET out == {cell \in Cells : Written(cell, v[cell])} IN [cell \in out |-> v[cell]]

(* quickMenuWrite, filled field by field: the menu's id although the       *)
(* generated type would drop it, every field of a label, and a label's day *)
(* as null unless the menu depends on the day of the week.                 *)
writeBody(v) ==
  LET out == {cell \in Cells : \/ cell \in {Own("serverKey"), Own("byDay")}
                               \/ cell[1] = "own" /\ Written(cell, v[cell]) /\ ~ReadOnlyCell(cell)
                               \/ cell[1] = "nested" /\ ~ReadOnlyCell(cell)}
  IN  [cell \in out |-> IF cell = Nested("day") /\ v[Own("byDay")] = 0 THEN 0 ELSE v[cell]]

Fields(c) == [cell \in {edit[c]} |-> copy[c][cell]]

(* An order is stripped by its method; what the other methods send as XML  *)
(* is the caller's copy as it is.                                          *)
Body(c) ==
  CASE method.verb = "form"     -> Fields(c)
    [] method = UpdateQuickMenu -> writeBody(copy[c])
    [] method = UpdateOrder     -> MarshalXML(StripReadOnly(copy[c], "own"))
    [] method.verb # "form" /\ method # UpdateOrder /\ method.type.form = "xml" -> MarshalXML(copy[c])
    [] OTHER                    -> MarshalJSON(copy[c])

-----------------------------------------------------------------------------
(* The server.  A body without the id it needs addresses nothing.  What it *)
(* generates itself it does not take from anybody, and it may refuse the   *)
(* whole message for it; a nested element whose id the caller may send and *)
(* does not is a new element.                                              *)

Carries(msg, cell) == cell \in DOMAIN msg /\ msg[cell] # 0

Addressed(msg) ==
  \/ ~method.byBody
  \/ \E key \in {Own("key"), Own("serverKey")} \cap Cells : Carries(msg, key)

IsNew(msg, cell) ==
  cell[1] = "nested" /\ Nested("key") \in Cells /\ entity[Nested("key")] # 0 /\ ~Carries(msg, Nested("key"))

LeftOut(msg, cell) == IF IsNew(msg, cell) THEN 0 ELSE IF keeps THEN entity[cell] ELSE 0
Accepted(msg, cell) ==
  IF ReadOnlyCell(cell) THEN (IF IsNew(msg, cell) THEN 0 ELSE entity[cell])
  ELSE IF cell \in DOMAIN msg THEN msg[cell]
  ELSE LeftOut(msg, cell)

(* The quick menu's id is sent on purpose (menus.go:57-63).                *)
MenuId(cell) == method = UpdateQuickMenu /\ cell = Own("serverKey")
Leaks(msg) == {cell \in DOMAIN msg : ReadOnlyCell(cell) /\ msg[cell] # 0 /\ ~MenuId(cell)}

-----------------------------------------------------------------------------
(* What the server can hold: an id always, the rest set or not, and no day *)
(* of a label that the menu says is shown on all of them.                  *)
Id(cell) == cell[2] \in {"key", "serverKey"}
Dayless(e) == Own("byDay") \in Cells /\ e[Own("byDay")] = 0
Entities ==
  {e \in [Cells -> {0, 1}] :
     \A cell \in Cells : /\ Id(cell) => e[cell] = 1
                         /\ cell = Nested("day") /\ Dayless(e) => e[cell] = 0}

Init ==
  /\ method \in Methods
  /\ nested \in Looked(method.type)
  /\ keeps \in Keeping(method.verb)
  /\ entity \in Entities
  /\ copy  = [c \in Callers |-> NoCopy]
  /\ taken = [c \in Callers |-> NoCopy]
  /\ edit  = [c \in Callers |-> NoCopy]
  /\ stripped = [c \in Callers |-> {}]
  /\ sent  = [c \in Callers |-> NoCopy]

Read(c) ==
  /\ taken[c] = NoCopy
  /\ \E spelling \in Spellings : copy' = [copy EXCEPT ![c] = Decoded(spelling)]
  /\ taken' = [taken EXCEPT ![c] = entity]
  /\ UNCHANGED <<method, nested, keeps, entity, edit, stripped, sent>>

(* One writable field that is not the id; of a form, one of its own.       *)
Editable(cell) ==
  /\ cell[2] \in {"required", "optional", "day", "byDay"}
  /\ method.verb = "form" => cell[1] = "own"
Edit(c) ==
  /\ method.verb # "read"
  /\ copy[c] # NoCopy /\ edit[c] = NoCopy
  /\ \E cell \in Cells, v \in Values :
       /\ Editable(cell) /\ v # copy[c][cell]
       /\ copy' = [copy EXCEPT ![c][cell] = v]
       /\ edit' = [edit EXCEPT ![c] = cell]
  /\ UNCHANGED <<method, nested, keeps, entity, taken, stripped, sent>>

(* The caller calls StripReadOnly, of its copy or of the elements in it,   *)
(* where the type has one; or it never does.                               *)
Strip(c) ==
  /\ method.verb \notin {"read", "form"} /\ copy[c] # NoCopy
  /\ \E depth \in {"own", "nested"} \ stripped[c] :
       /\ LET type == IF depth = "own" THEN method.type ELSE nested
          IN  type.form = "xml" /\ Partly(type)
       /\ copy' = [copy EXCEPT ![c] = StripReadOnly(copy[c], depth)]
       /\ stripped' = [stripped EXCEPT ![c] = @ \cup {depth}]
  /\ UNCHANGED <<method, nested, keeps, entity, taken, edit, sent>>

Write(c) ==
  /\ edit[c] # NoCopy /\ copy[c] # NoCopy
  /\ sent' = [sent EXCEPT ![c] = Body(c)]
  /\ \/ /\ Addressed(Body(c))
        /\ entity' = [cell \in Cells |-> Accepted(Body(c), cell)]
     \/ /\ ~Addressed(Body(c)) \/ Leaks(Body(c)) # {}
        /\ entity' = entity
  /\ copy' = [copy EXCEPT ![c] = NoCopy]
  /\ UNCHANGED <<method, nested, keeps, taken, edit, stripped>>

Next == \E c \in Callers : Read(c) \/ Edit(c) \/ Strip(c) \/ Write(c)

Spec == Init /\ [][Next]_vars

-----------------------------------------------------------------------------
(* Whatever documented spelling the server uses, a JSON type reads what    *)
(* the server holds ("accepts every documented spelling", render.go:263).  *)
SpellingsAgree ==
  method.type.form = "json" =>
    \A c \in Callers : copy[c] # NoCopy /\ edit[c] = NoCopy => copy[c] = taken[c]

(* Read the entity, change it and send it back (staff/service.go:310-312): *)
(* when nobody wrote in between and the server does not refuse a read-only *)
(* field, the write changes the one field that was edited and no other, at *)
(* any depth; a partial change of the fields given does so whatever others *)
(* wrote since.  Three fields may differ: an optional one set to zero      *)
(* where the server keeps what it is not given; one that was not read, for *)
(* an XML type knows one spelling; and the day of a label that the menu    *)
(* shows on all days.                                                      *)
Unsayable(cell, v) == v = 0 /\ keeps /\ cell[2] = "optional" /\ method.verb # "form"
Unread(cell, v) == v = 0 /\ TypeAt(cell).form # "json" /\ cell[2] \in TypeAt(cell).aliased
WriteIsTheEdit ==
  [][\A c \in Callers :
       LET v == copy[c]
       IN  copy[c] # NoCopy /\ copy'[c] = NoCopy =>
             \/ \A cell \in Cells :
                  \/ entity'[cell] = IF cell = edit[c] THEN v[cell] ELSE entity[cell]
                  \/ cell = edit[c] /\ Unsayable(cell, v[cell])
                  \/ Unread(cell, v[cell])
                  \/ cell = Nested("day") /\ Dayless(v)
             \/ taken[c] # entity /\ method.verb # "form"
             \/ Leaks(sent'[c]) # {} /\ entity' = entity]_vars

(* A value in a field that is marked read-only leaves in no message of a   *)
(* JSON type, and in one of an XML type only where neither the caller nor  *)
(* the method had it zeroed ("encoding/xml cannot skip them per field").   *)
ZeroedAt(c, cell) == cell[1] \in stripped[c] \/ (method = UpdateOrder /\ cell[1] = "own")
NothingReadOnlySent ==
  \A c \in Callers :
    sent[c] # NoCopy =>
      \A cell \in Leaks(sent[c]) : method.type.form = "xml" /\ ~ZeroedAt(c, cell)

-----------------------------------------------------------------------------
(* The inductive invariant.                                                *)

Messages == UNION {[out -> Values] : out \in SUBSET Cells}

TypeOK ==
  /\ method \in Methods /\ nested \in Looked(method.type) /\ keeps \in Keeping(method.verb)
  /\ entity \in [Cells -> Values]
  /\ copy \in [Callers -> [Cells -> Values] \cup {NoCopy}]
  /\ taken \in [Callers -> [Cells -> Values] \cup {NoCopy}]
  /\ edit \in [Callers -> Cells \cup {NoCopy}]
  /\ stripped \in [Callers -> SUBSET {"own", "nested"}]
  /\ sent \in [Callers -> Messages \cup {NoCopy}]

(* Nobody gives an entity another id, or takes the one it has.             *)
HasIds(e) == \A cell \in Cells : Id(cell) => e[cell] = 1
IdsKept == HasIds(entity) /\ \A c \in Callers : taken[c] # NoCopy => HasIds(taken[c])

(* A caller that may write holds what it read, but for the cell it edited, *)
(* what it had zeroed and what its type does not read; and has sent        *)
(* nothing yet.                                                            *)
CopyKept ==
  \A c \in Callers :
    /\ taken[c] = NoCopy =>
         copy[c] = NoCopy /\ edit[c] = NoCopy /\ sent[c] = NoCopy /\ stripped[c] = {}
    /\ edit[c] # NoCopy => method.verb # "read" /\ Editable(edit[c])
    /\ stripped[c] # {} => method.type.form = "xml"
    /\ copy[c] # NoCopy =>
         /\ sent[c] = NoCopy
         /\ \A cell \in Cells \ {edit[c]} :
              \/ copy[c][cell] = taken[c][cell]
              \/ Unread(cell, copy[c][cell])
              \/ ReadOnlyCell(cell) /\ method.type.form = "xml"
         /\ \A cell \in Cells : ReadOnlyCell(cell) /\ cell[1] \in stripped[c] => copy[c][cell] = 0

IInv == TypeOK /\ IdsKept /\ CopyKept /\ NothingReadOnlySent
=============================================================================
