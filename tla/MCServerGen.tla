---------------------------- MODULE MCServerGen ----------------------------
(* Up to six DTOs over three domains, one of which has no package yet: a   *)
(* chain of uses listed against its direction, owners in two domains, a    *)
(* cycle of uses that leads nowhere, a leaf that two domains refer to, one *)
(* that a map alone refers to, and a domain that loses its only DTO.       *)
EXTENDS ServerGen, TLC

DTO(name, of, paths, owners) ==
  [name |-> name, of |-> of, maps |-> {}, paths |-> paths, owners |-> owners]

order    == DTO("order", {"item", "error"}, {"edi"}, <<>>)
item     == DTO("item", {"quantity"}, {}, <<"order", "price">>)
quantity == DTO("quantity", {}, {}, <<"item">>)
price    == DTO("price", {"item", "error"}, {"suppliers"}, <<>>)
error    == DTO("error", {}, {"edi", "suppliers"}, <<>>)
lost     == DTO("lost", {"lost"}, {}, <<"lost", "gone">>)
shared   == DTO("shared", {"quantity"}, {"edi", "suppliers"}, <<>>)

MCCatalogs ==
  {<<quantity, item, order, price, error>>,
   <<order, item, quantity, error>>,
   <<item, price, quantity, order, lost>>,
   <<shared, [order EXCEPT !.of = {"item"}, !.maps = {"error", "quantity"}],
     [item EXCEPT !.owners = <<"price", "order">>], price, quantity, error>>,
   <<quantity, item, [order EXCEPT !.paths = {"replication"}], price>>,
   <<lost, price, error>>}

MCOverrides == "shared" :> "suppliers"
MCByHand == {<<"edi", "item">>, <<"suppliers", "price">>}
=============================================================================
