-------------------------- MODULE MCObservedCache ---------------------------
(* An instance of the observed cache for TLC.                              *)
EXTENDS ObservedCache, TLC

CONSTANTS k1, k2, k3, k4, s1, s2, s3

\* Four keys, two of which collide.
HashColliding == (k1 :> s1) @@ (k2 :> s2) @@ (k3 :> s3) @@ (k4 :> s3)
=============================================================================
