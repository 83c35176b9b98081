----------------------------- MODULE MCCloudGen -----------------------------
(* A specification of five schemas at most, three of which compete for the *)
(* same Go name however far they are lengthened, and what upstream may do  *)
(* to it: fix a defect, list the parameter on another operation, publish   *)
(* the key the rename makes, change the schema that is renamed.            *)
EXTENDS CloudGen

CONSTANTS o1, o2, bool, boolean, host

(* 1 CreateOrder.Address, 2 Create.OrderAddress, 3 Order.Address,          *)
(* 4 Wrap`1[[X]], 5 WrapX, 6 Address2                                      *)
MCWords ==
  << << <<"Create", "Order">>, <<"Address">> >>,
     << <<"Create">>, <<"Order", "Address">> >>,
     << <<"Order">>, <<"Address">> >>,
     << <<"Wrap", "1", "X">> >>,
     << <<"Wrap", "X">> >>,
     << <<"Create", "Order", "Address", "2">> >> >>

MCNumeral == [i \in 1..6 |-> ToString(i)]

Schema(k, refs, parents, poly) ==
  [body |-> k, refs |-> refs, parents |-> parents, poly |-> poly]

Pseudo == [type |-> bool, description |-> "kept"]
Fixed  == [type |-> boolean, description |-> "kept"]

Base ==
  [frags   |-> [servers |-> Absent, isDeleted |-> Pseudo],
   schemas |-> (1 :> Schema(1, {2, 4}, {}, FALSE)) @@ (2 :> Schema(2, {}, {4}, FALSE))
            @@ (3 :> Schema(3, {1}, {}, TRUE)) @@ (4 :> Schema(4, {3, 4}, {}, FALSE))
            @@ (6 :> Schema(6, {}, {3}, FALSE)),
   ops     |-> (o1 :> [live |-> TRUE, request |-> 4, carries |-> TRUE])
            @@ (o2 :> [live |-> FALSE, request |-> None, carries |-> TRUE])]

MCSpecs ==
  {Base,
   [Base EXCEPT !.frags.servers = host],
   [Base EXCEPT !.frags.isDeleted = Fixed],
   [Base EXCEPT !.frags.isDeleted = NoPath],
   [Base EXCEPT !.ops[o2].carries = FALSE, !.ops[o2].live = TRUE],
   [Base EXCEPT !.schemas = @ @@ (5 :> Schema(5, {2}, {}, FALSE))],
   [Base EXCEPT !.schemas[4].refs = {3, 4, 1}]}

MCOverlays ==
  << [op |-> "set",             target |-> "servers",   value |-> host],
     [op |-> "removeParameter", target |-> None,        value |-> None],
     [op |-> "merge",           target |-> "isDeleted", value |-> [type |-> boolean]],
     [op |-> "renameSchema",    target |-> 4,           value |-> 5] >>

MCGuards == <<Absent, 2, Pseudo, Base.schemas[4]>>
=============================================================================
