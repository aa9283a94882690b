------------------------------- MODULE MCEvents -------------------------------
EXTENDS Events

MCImported == {"port"}
MCIdAt == [p \in Paths |-> IF p = "bill.arch" THEN "bill" ELSE IF p = "port.src" THEN "port" ELSE "ship"]
Issued == <<"inv", "issued">>
Sent == <<"box">>
MCKinds == {Issued, Sent}
MCNamespaces == {<<"inv">>, <<"inv", "issued">>}

XY == <<"inv", "{x}", "{y}">>
YX == <<"box", "{y}", "{x}">>
MCSlotPool ==
  {[kind |-> Issued, pattern |-> XY, exclusive |-> TRUE, schema |-> {}],
   [kind |-> Issued, pattern |-> YX, exclusive |-> FALSE,
    schema |-> {<<<<"properties">>, <<"bill", "line">>>>, <<<<"items">>, <<"ship", "line">>>>}],
   [kind |-> Sent, pattern |-> YX, exclusive |-> FALSE, schema |-> {}]}
MCOpPool ==
  {[role |-> None, action |-> "send", kinds |-> <<Issued>>, address |-> <<>>],
   [role |-> "command", action |-> "receive", kinds |-> <<Issued, Sent>>, address |-> YX],
   [role |-> "watch", action |-> "receive", kinds |-> <<Sent>>, address |-> <<"t", "{y}">>]}
MCSchemaPool == {{<<<<>>, <<"ship", "line">>>>}, {<<<<"oneOf">>, <<"bill", "line">>>>}}
==============================================================================
