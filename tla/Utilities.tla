----------------------------- MODULE Utilities ------------------------------
(***************************************************************************)
(* What is used by one thread at a time: copies between Lua states, hash   *)
(* objects, and the functions without state.  They share nothing, so a     *)
(* behaviour follows one of them.                                          *)
(***************************************************************************)
EXTENDS DeepCopy, Digests, Library

Init == CopyInit /\ DigestInit /\ LibInit

Next ==
    \/ alg = "none" /\ fn = "none" /\ CopyNext /\ UNCHANGED <<digestVars, libVars>>
    \/ Live = {} /\ fn = "none" /\ DigestNext /\ UNCHANGED <<copyVars, libVars>>
    \/ Live = {} /\ alg = "none" /\ LibNext /\ UNCHANGED <<copyVars, digestVars>>

Spec == Init /\ [][Next]_<<copyVars, digestVars, libVars>>

\* The types; in particular the copies refer to tables of their own state only,
\* and the unused part of a hash's buffer is zero (see DigestTypeOK).
TypeOK == CopyTypeOK /\ DigestTypeOK
=============================================================================
