--------------------------- MODULE MCModelCache ---------------------------
(***************************************************************************)
(* The instance of ModelCache that TLC checks: r1, r2 and r3 ask for the   *)
(* models base and mini, of which mini is the default, over two workers.   *)
(***************************************************************************)
EXTENDS ModelCache
===========================================================================
