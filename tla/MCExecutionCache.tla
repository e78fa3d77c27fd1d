-------------------------- MODULE MCExecutionCache --------------------------
(* Instances of the response cache for TLC.                                *)
EXTENDS ExecutionCache, TLC

CONSTANTS k1, k2, k3, s1, s2, s3

\* Three keys in three slots.
HashDistinct == (k1 :> s1) @@ (k2 :> s2) @@ (k3 :> s3)
=============================================================================
