------------------------ MODULE MCCustomerRouting ------------------------
(* A small instance of CustomerRouting: two overlapping callbacks that      *)
(* list, and so redeliver, the messages m1 and m2 of one customer.          *)
EXTENDS CustomerRouting, TLC

CONSTANTS m1, m2, c1, v1, v2, h1, h2

Handlers == {h1, h2}
Customers == {c1}
Messages == {m1, m2}
Senders == m1 :> c1 @@ m2 :> c1
Conversations == {v1, v2}
Overlapping == {<<m1, m2>>, <<m2>>}
=============================================================================
