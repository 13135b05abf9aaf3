---------------------------- MODULE MCReadService ----------------------------
(***************************************************************************)
(* Two concurrent requests and time enough for a cache entry to be made,   *)
(* to expire and to be made again, across restarts of the process.         *)
(***************************************************************************)
EXTENDS ReadService

CONSTANTS r1, r2, t1, t2

MCRequests == {r1, r2}
MCTokens == {t1, t2}
=============================================================================
