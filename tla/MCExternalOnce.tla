--------------------------- MODULE MCExternalOnce ---------------------------
(***************************************************************************)
(* Two endpoints: with distinct names, and, as ListEndpoints may return,  *)
(* with one name and different ports.                                     *)
(***************************************************************************)
EXTENDS ExternalOnce

MCEndpoints == {"e1", "e2"}
DistinctNames == [e \in MCEndpoints |-> IF e = "e1" THEN "t1" ELSE "t2"]
SharedName == [e \in MCEndpoints |-> "t1"]
====
