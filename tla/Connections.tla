---------------------------- MODULE Connections -----------------------------
(***************************************************************************)
(* The three ways a program reads from a socket: net.request, net.wss and  *)
(* the requests a server receives.  They share no state, so a behaviour    *)
(* follows one connection of one kind.                                     *)
(***************************************************************************)
EXTENDS HttpClient, WebSocket, RequestReader

Init == ClientInit /\ WsInit /\ RequestInit

Next ==
    \/ wpc = "unused" /\ rpc = "unused" /\ ClientNext /\ UNCHANGED <<wsVars, requestVars>>
    \/ cpc = "unused" /\ rpc = "unused" /\ WsNext /\ UNCHANGED <<clientVars, requestVars>>
    \/ cpc = "unused" /\ wpc = "unused" /\ RequestNext /\ UNCHANGED <<clientVars, wsVars>>

Spec == Init /\ [][Next]_<<clientVars, wsVars, requestVars>> /\ ClientFairness

\* The types of all three; in particular a decoder that reads a chunk holds less
\* than the chunk, a frame no more than its length, a file no more than the
\* content, and the parser of a form has a file when it reads into one.
TypeOK == ClientTypeOK /\ WsTypeOK /\ RequestTypeOK

\* The end of a response's and of a request's header is found in every split
\* (net.c 579-588, util.c 19-25).
HeadersFound == HeaderFound /\ RequestHeaderFound

\* A stream's and a websocket's memory is freed once and not used afterwards,
\* but for what WildOnlyAfterClose excepts (lua.c 110-123, net.c 288-310).
FreedOnce == WildOnlyAfterClose /\ WsFreedOnce
=============================================================================
