--------------------------- MODULE MCHTTPPrepare ---------------------------
(***************************************************************************)
(* Two concurrent attempts of two calls each, a token source with two     *)
(* tokens that refreshes twice, every combination of OAuth and buffered   *)
(* body.                                                                   *)
(***************************************************************************)
EXTENDS HTTPPrepare

MCCallers == {"c1", "c2"}
MCTokens == {"k1", "k2"}
====
