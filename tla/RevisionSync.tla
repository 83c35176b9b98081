----------------------------- MODULE RevisionSync -----------------------------
(***************************************************************************)
(* A program that keeps up with what changes in iiko by polling.            *)
(*                                                                         *)
(* iikoServer numbers its changes.  A poll names a revision and brings what  *)
(* changed since; what that means differs.  The event journal answers from   *)
(* the revision on, says up to which one it answered, and the caller goes on *)
(* one past it (ListEventsSince, NextRevision, Dedup).  The lists of         *)
(* entities answer what changed after the revision, and the v2 envelope may   *)
(* carry the revision to pass next time.  Some methods accept a revision and *)
(* throw away the one they are answered.                                    *)
(*                                                                         *)
(* The caller keeps one copy and one cursor, as the comments of the methods  *)
(* tell it to: it takes over an answer and moves the cursor together, and a  *)
(* poll that fails moves nothing.                                           *)
(***************************************************************************)
EXTENDS Integers, Sequences, SequencesExt

CONSTANTS Items,        \* ids of events or entities
          NoID,         \* the id of an event that carries none
          LastRevision  \* bound: how many changes the server makes

ASSUME SyncAssumption ==
    /\ NoID \notin Items
    /\ LastRevision \in Nat

-----------------------------------------------------------------------------
(* The methods that take a revision.  revision says what becomes of the one  *)
(* in the answer: it is always there, it is a pointer that may be nil, or it  *)
(* does not reach the caller.                                               *)

Entities(revision) == [journal |-> FALSE, revision |-> revision]

ListEventsSince        == [journal |-> TRUE, revision |-> "always"]
\* pricing
ListPrices             == Entities("optional")
ListMenuChanges        == Entities("optional")
ListPriceCategories    == Entities("optional")
ListPeriodSchedules    == Entities("optional")
\* nomenclature
QueryProducts          == Entities("dropped")
ProductsXML            == Entities("dropped")
TreeFilter             == Entities("dropped")
QueryQuickMenus        == Entities("dropped")
\* corporation, documents, staff, edi, reports
ListReferenceEntities  == Entities("dropped")
EntityIDs              == Entities("dropped")
ExportIncomingInvoices == Entities("dropped")
ShiftFilter            == Entities("dropped")
Roles                  == Entities("dropped")
ListOrders             == Entities("dropped")
EgaisMarks             == Entities("dropped")
\* recipes: KnownRevision is decoded, and no method sends it to getAllUpdate
ChartsGetAll           == Entities("dropped")

Feeds ==
    {ListEventsSince, ListPrices, ListMenuChanges, ListPriceCategories, ListPeriodSchedules,
     QueryProducts, ProductsXML, TreeFilter, QueryQuickMenus, ListReferenceEntities, EntityIDs,
     ExportIncomingInvoices, ShiftFilter, Roles, ListOrders, EgaisMarks,
     ChartsGetAll}

-----------------------------------------------------------------------------
VARIABLES
    feed,      \* what the caller follows
    hidden,    \* includeDeleted=false, or a filter entities can move out of
    history,   \* the server's changes, in the order of their revisions
    cursor,    \* the revision the caller passes next
    poll,      \* its poll: "idle", "asked", "answered"
    from,      \* the revision that was passed
    reply,     \* the answer on its way
    received,  \* the journal as it came in
    handled,   \* the events the caller acted on
    mirror     \* its copy of the entities, by the revision of each, 0 for none

server == <<feed, hidden, history>>
copy   == <<received, handled, mirror>>
vars   == <<feed, hidden, history, cursor, poll, from, reply, received, handled, mirror>>

Everything == -1    \* "Use -1 for a full export"
NoRevision == -2    \* a nil *int64
NoReply    == [events |-> <<>>, entities |-> <<>>, revision |-> NoRevision]

Change     == [item : Items \cup {NoID}, gone : BOOLEAN]
Revisions  == 0 .. LastRevision

-----------------------------------------------------------------------------
(* What revisions mean.                                                     *)

\* The entities as of revision r: the revision each was last changed in, 0 if it is not.
StateAt(r) ==
    [i \in Items |->
        LET changes == {k \in 1 .. r : history[k].item = i}
            last    == CHOOSE k \in changes : \A l \in changes : l <= k
        IN  IF changes = {} \/ history[last].gone THEN 0 ELSE last]

\* The entities changed after revision r.
ChangedSince(r) == {i \in Items : \E k \in 1 .. Len(history) : k > r /\ history[k].item = i}

\* Mutation: the cursor is the answer's revision, as it is for every other list.
NextRevisionSame(revision) == revision

\* events.NextRevision: one past what was returned.
NextRevision(revision) == revision + 1

\* Mutation: one past the answer's revision, as it is for the journal.
PassBackPlusOne(revision) == IF revision = NoRevision THEN cursor ELSE revision + 1

\* "pass it back as revisionFrom"; without one, the caller keeps what it has.
PassBack(revision) == IF revision = NoRevision THEN cursor ELSE revision

NextCursor(revision) ==
    CASE feed.journal              -> NextRevision(revision)
      [] feed.revision = "dropped" -> Everything
      [] OTHER                     -> PassBack(revision)

\* Mutation: only a repetition next to its original is dropped.
DedupNeighbours(in) ==
    FoldLeft(LAMBDA out, id :
                 IF out # <<>> /\ id # NoID /\ out[Len(out)] = id THEN out ELSE Append(out, id),
             <<>>, in)

\* events.Dedup: the first event of each id stays; an event without id is never dropped.
Dedup(in) ==
    LET out[k \in 0 .. Len(in)] ==
            IF k = 0 THEN <<>>
            ELSE IF in[k] # NoID /\ Contains(out[k - 1], in[k]) THEN out[k - 1]
            ELSE Append(out[k - 1], in[k])
    IN  out[Len(in)]

-----------------------------------------------------------------------------
Init ==
    /\ feed \in Feeds
    /\ hidden \in BOOLEAN
    /\ feed.journal => ~hidden
    /\ history = <<>>
    /\ cursor = IF feed.journal THEN NextRevision(0) ELSE Everything
    /\ poll = "idle"
    /\ from = Everything
    /\ reply = NoReply
    /\ received = <<>>
    /\ handled = <<>>
    /\ mirror = [i \in Items |-> 0]

-----------------------------------------------------------------------------
(* The server.                                                              *)

Record(change) ==
    /\ Len(history) < LastRevision
    /\ history' = Append(history, change)
    /\ UNCHANGED <<feed, hidden, cursor, poll, from, reply, received, handled, mirror>>

\* An event happens, or one is delivered again under a new revision, which "is not
\* documented as impossible"; an entity is created or changed.
Put(i) ==
    /\ i = NoID => feed.journal
    /\ Record([item |-> i, gone |-> FALSE])

Delete(i) ==
    /\ ~feed.journal
    /\ StateAt(Len(history))[i] # 0
    /\ Record([item |-> i, gone |-> TRUE])

\* The journal from the revision on; the entities changed after it, the deleted ones
\* among them only if they were asked for.  A full export is of what there is.
EventsFrom(r) ==
    LET first == IF r > 0 THEN r ELSE 1
    IN  [k \in 1 .. Len(history) - first + 1 |-> history[k + first - 1].item]

EntitiesAfter(r) ==
    LET now      == StateAt(Len(history))
        reported == {i \in IF r = Everything THEN Items ELSE ChangedSince(r) :
                        now[i] # 0 \/ (~hidden /\ r # Everything)}
    IN  [i \in reported |-> now[i]]

\* The answer is as of the moment it is given.  "The 7.8-era endpoints" supply a
\* revision, "older ones make you track it".
Answer ==
    /\ poll = "asked"
    /\ poll' = "answered"
    /\ \E revision \in {Len(history)} \cup (IF feed.revision = "always" THEN {} ELSE {NoRevision}) :
           reply' = [events   |-> IF feed.journal THEN EventsFrom(from) ELSE <<>>,
                     entities |-> IF feed.journal THEN <<>> ELSE EntitiesAfter(from),
                     revision |-> revision]
    /\ UNCHANGED <<server, cursor, from, copy>>

-----------------------------------------------------------------------------
(* The caller.                                                              *)

\* The request names the cursor and, for the journal, no time.
Ask ==
    /\ poll = "idle"
    /\ poll' = "asked"
    /\ from' = cursor
    /\ UNCHANGED <<server, cursor, reply, copy>>

\* The poll returns an error: it was refused, lost, or its answer cannot be read.
Fail ==
    /\ poll # "idle"
    /\ poll' = "idle"
    /\ reply' = NoReply
    /\ UNCHANGED <<server, cursor, from, copy>>

\* What an answer adds to the copy: it replaces all of it, or what it names.
Merged ==
    [i \in Items |-> IF i \in DOMAIN reply.entities THEN reply.entities[i]
                     ELSE IF from = Everything THEN 0 ELSE mirror[i]]

Take ==
    /\ poll = "answered"
    /\ poll' = "idle"
    /\ IF feed.journal
       THEN /\ received' = received \o reply.events
            /\ handled' = Dedup(handled \o reply.events)
            /\ UNCHANGED mirror
       ELSE /\ mirror' = Merged
            /\ UNCHANGED <<received, handled>>
    /\ cursor' = NextCursor(reply.revision)
    /\ reply' = NoReply
    /\ UNCHANGED <<server, from>>

Next ==
    \/ \E i \in Items \cup {NoID} : Put(i)
    \/ \E i \in Items : Delete(i)
    \/ Ask \/ Answer \/ Fail \/ Take

Spec == Init /\ [][Next]_vars

\* The caller goes on polling, and however many polls fail, not all of them do.
Fairness == WF_vars(Ask) /\ SF_vars(Answer) /\ SF_vars(Take)

FairSpec == Spec /\ Fairness

-----------------------------------------------------------------------------
(* Properties.                                                              *)

Reply == [events   : Seq(Items \cup {NoID}),
          entities : UNION {[S -> Revisions] : S \in SUBSET Items},
          revision : Revisions \cup {NoRevision}]

\* Every variable has its type.
TypeOK ==
    /\ feed \in Feeds
    /\ hidden \in BOOLEAN
    /\ history \in Seq(Change) /\ Len(history) <= LastRevision
    /\ cursor \in {Everything} \cup 0 .. LastRevision + 1
    /\ poll \in {"idle", "asked", "answered"}
    /\ from \in {Everything} \cup 0 .. LastRevision + 1
    /\ reply \in Reply
    /\ received \in Seq(Items \cup {NoID})
    /\ handled \in Seq(Items \cup {NoID})
    /\ mirror \in [Items -> Revisions]

\* Whatever polls fail or come late, the journal comes in without gap and without
\* overlap: what was received is the server's journal up to the cursor.
JournalExact ==
    feed.journal =>
        received = [k \in 1 .. cursor - 1 |-> history[k].item]

\* An event that is delivered under a second revision, in the same answer or a later
\* one, is acted on once, and none is left out.
HandledOnce ==
    /\ Range(handled) = Range(received)
    /\ \A j, k \in DOMAIN handled : handled[j] = handled[k] /\ handled[j] # NoID => j = k

\* The copy is a state the server was in, at the cursor or after it: no change is
\* skipped, whichever answers were lost or carried no revision.  Deletions, though,
\* only reach a caller that asks for them.
MirrorExact ==
    ~feed.journal =>
        \E r \in 0 .. Len(history) :
            /\ r >= cursor
            /\ \A i \in Items :
                   ~hidden \/ StateAt(r)[i] # 0 => mirror[i] = StateAt(r)[i]

UpToDate ==
    IF feed.journal THEN Range(received) = {history[k].item : k \in DOMAIN history}
    ELSE \A i \in Items : ~hidden \/ StateAt(Len(history))[i] # 0 =>
                              mirror[i] = StateAt(Len(history))[i]

\* The server changes LastRevision times at most; when it has stopped, the caller
\* catches up and stays up to date.
CatchesUp == <>[]UpToDate

-----------------------------------------------------------------------------
(* The inductive invariant behind the safety properties.                    *)

\* A poll under way was asked at the cursor, and nothing is on its way to one that is
\* not answered.
PollKept ==
    /\ poll # "idle" => from = cursor
    /\ poll # "answered" => reply = NoReply

\* The cursor of the journal lies within it or one past its end, and the answer on its
\* way continues what was received up to the revision it names.
JournalKept ==
    feed.journal =>
        /\ cursor \in 1 .. Len(history) + 1
        /\ JournalExact
        /\ poll = "answered" =>
               /\ reply.revision \in cursor - 1 .. Len(history)
               /\ reply.events = [k \in 1 .. reply.revision - cursor + 1 |->
                                      history[k + cursor - 1].item]

\* mirror is a copy of the entities as of revision r.
CopyOf(r) == \A i \in Items : ~hidden \/ StateAt(r)[i] # 0 => mirror[i] = StateAt(r)[i]

\* The answer on its way was given as of revision r.
AnsweredAt(r) ==
    /\ reply.revision \in {r, NoRevision}
    /\ \A i \in DOMAIN reply.entities : i \in Items /\ reply.entities[i] = StateAt(r)[i]
    /\ \A i \in Items \ DOMAIN reply.entities :
           \/ StateAt(r)[i] = 0 /\ (hidden \/ from = Everything)
           \/ from # Everything /\ \A k \in 1 .. r : k > from => history[k].item # i

\* The copy was taken at some revision, from the cursor on; the answer on its way was
\* given at a later one, or the same.
MirrorKept ==
    ~feed.journal =>
        \E r \in 0 .. Len(history) :
            /\ r >= cursor
            /\ CopyOf(r)
            /\ poll = "answered" => \E now \in r .. Len(history) : AnsweredAt(now)

IInv == TypeOK /\ PollKept /\ JournalKept /\ MirrorKept
=============================================================================
