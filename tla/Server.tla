------------------------------- MODULE Server -------------------------------
(***************************************************************************)
(* The server's handlers, and the integer table in which a handler keeps   *)
(* the parameters of its request.  What is modelled of them shares no      *)
(* state, so a behaviour follows one of the two.                           *)
(***************************************************************************)
EXTENDS NetServer, LArrayTable

NoTable == at = "idle" /\ table.len = 0
NoHandler == /\ \A s \in Servers : loop[s] = "accept"
             /\ \A c \in Conns : pc[c] = "new"

ServerTableInit == ServerInit /\ Init

ServerTableNext ==
    \/ NoTable /\ ServerNext /\ UNCHANGED setVars
    \/ NoHandler /\ Next /\ UNCHANGED serverVars

ServerTableSpec ==
    ServerTableInit /\ [][ServerTableNext]_<<serverVars, setVars>>
=============================================================================
