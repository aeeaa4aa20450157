-------------------------- MODULE MCConnectionPool --------------------------
(***************************************************************************)
(* Small instances of ConnectionPool: model values only.                   *)
(***************************************************************************)
EXTENDS ConnectionPool

CONSTANTS c1, c2, c3, i1, i2, v1, v2
=============================================================================
