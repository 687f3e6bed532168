------------------------------- MODULE MCCache -------------------------------
(* Small instances of the caches. *)
EXTENDS CacheProperties

(* An L1 of three sets, of which two are used, and an L2 of two, each set  *)
(* of two blocks of 4 bytes: each cache can hold a block the other has     *)
(* lost.                                                                   *)
Sizes == <<24, 16>>
TwoWays == <<2, 2>>

(* Four blocks of one set, one of them named by two addresses, and one of  *)
(* the other set.                                                          *)
Mixed == {4, 8, 10, 16, 24, 32}
=============================================================================
