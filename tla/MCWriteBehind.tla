---- MODULE MCWriteBehind ----
(* By hand: tlc -config MCWriteBehind.cfg MCWriteBehind *)
EXTENDS WriteBehind
====
