------------------------------ MODULE Program -------------------------------
(***************************************************************************)
(* What the threads of a program do with the C library: read from a        *)
(* connection, and share values in buffers.  What is modelled of the two   *)
(* has no state in common, so a behaviour follows one of them.             *)
(***************************************************************************)
EXTENDS Connections, ThreadBuffer

\* What the behaviour follows.
VARIABLE part

connectionVars == <<clientVars, wsVars, requestVars>>

\* The contents of the buffers matter where they are followed only.
PartsInit ==
    /\ Init /\ BufferInit
    /\ part \in {"connection", "buffers"}
    /\ part = "connection" => slots = [b \in Buffers |-> <<CHOOSE v \in Contents : TRUE>>]

PartsNext ==
    \/ part = "connection" /\ Next /\ UNCHANGED <<bufferVars, part>>
    \/ part = "buffers" /\ BufferNext /\ UNCHANGED <<connectionVars, part>>

PartsSpec ==
    PartsInit /\ [][PartsNext]_<<connectionVars, bufferVars, part>> /\ ClientFairness
=============================================================================
