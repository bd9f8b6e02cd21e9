--------------------------- MODULE MCAlertHandler ---------------------------
(***************************************************************************)
(* The default condition {1, 1}, a sliding condition {2, 3}, and the      *)
(* condition.total = 0 fallback {2, 0}; repeat intervals 0, 2 and the    *)
(* default 3600 (never reached within the clock bound).                   *)
(***************************************************************************)
EXTENDS AlertHandler

MCConditions == {[failures |-> 1, total |-> 1],
                 [failures |-> 2, total |-> 3],
                 [failures |-> 2, total |-> 0]}
====
