----------------------------- MODULE NetServer ------------------------------
(***************************************************************************)
(* The HTTP server of net.c: the accept loop of start_serv, and one        *)
(* detached thread per connection that runs handle_client and, in it, the  *)
(* route functions of the program with their res and req objects.          *)
(*                                                                         *)
(* A descriptor is a number that the kernel gives to the next connection   *)
(* once it has been closed.  handle_client keeps it in three places: its   *)
(* own client_fd and req.client_fd (here `fd', never updated while a route *)
(* function runs), and res.client_fd (here `res', set to -1 by res:send    *)
(* and res:close).  What is sent is abstracted to which thread reaches     *)
(* which connection.                                                       *)
(***************************************************************************)
EXTENDS Integers, FiniteSets

CONSTANTS
    Servers,    \* the threads in start_serv, one for each net.listen
    Conns,      \* connections, named after the thread that handles them
    Fds,        \* descriptor numbers
    MaxCon,     \* the macro max_con
    MaxRoutes,  \* bound: route functions that match a request
    Closed,     \* a client_fd of -1
    None        \* no connection, no descriptor

ASSUME NetAssumption ==
    /\ IsFiniteSet(Conns) /\ IsFiniteSet(Servers) /\ Servers # {}
    /\ MaxCon \in Nat /\ MaxRoutes \in Nat
    /\ None \notin Conns \cup Fds /\ Closed \notin Fds \cup {None}

VARIABLES
    loop,       \* where each accept loop is
    conn,       \* the connection it has accepted
    threads,    \* the global counter of handlers
    owner,      \* the connection behind each open descriptor
    pc,         \* where each connection's handler is
    fd,         \* client_fd of handle_client and of req
    res,        \* client_fd of res
    left,       \* route functions still to run, the current one included
    stop,       \* res._stop
    reached,    \* <<h, c>>: handler h has sent to or read from connection c
    process     \* it runs, or p_fatal has ended it

serverVars == <<loop, conn, threads, owner, pc, fd, res, left, stop, reached, process>>

\* A handler: connection not made; accepted; refused; thread not created;
\* reading the header; in a route function; past net_end; closed; ended.
Stages == {"new", "accepted", "refused", "lost",
           "header", "function", "end", "closed", "done"}

\* The stages in which `threads' counts a connection.
Counts == {"lost", "header", "function", "end", "closed"}

Counted == {c \in Conns : pc[c] \in Counts}

\* One type invariant.
ServerTypeOK ==
    /\ loop \in [Servers -> {"accept", "check", "spawn"}]
    /\ conn \in [Servers -> Conns \cup {None}]
    /\ threads \in Nat
    /\ owner \in [Fds -> Conns \cup {None}]
    /\ pc \in [Conns -> Stages]
    /\ fd \in [Conns -> Fds \cup {Closed, None}]
    /\ res \in [Conns -> Fds \cup {Closed, None}]
    /\ left \in [Conns -> 0 .. MaxRoutes]
    /\ stop \in [Conns -> BOOLEAN]
    /\ reached \in SUBSET (Conns \X Conns)
    /\ process \in {"runs", "exited"}

ServerInit ==
    /\ loop = [s \in Servers |-> "accept"]
    /\ conn = [s \in Servers |-> None]
    /\ threads = 0
    /\ owner = [f \in Fds |-> None]
    /\ pc = [c \in Conns |-> "new"]
    /\ fd = [c \in Conns |-> None]
    /\ res = [c \in Conns |-> None]
    /\ left = [c \in Conns |-> 0]
    /\ stop = [c \in Conns |-> FALSE]
    /\ reached = {}
    /\ process = "runs"

-----------------------------------------------------------------------------
\* send or recv by handler h on descriptor f: whichever connection has the
\* number now is reached; on a number that is not open the call just fails.
Reach(h, f) ==
    reached' = reached \cup {<<h, c>> : c \in {owner[g] : g \in {f} \cap Fds} \ {None}}

CloseFd(f) == owner' = [owner EXCEPT ![f] = None]

-----------------------------------------------------------------------------
(* start_serv.                                                             *)
At(s, line) == process = "runs" /\ loop[s] = line

Accept(s, c, f) ==
    /\ At(s, "accept")
    /\ pc[c] = "new"
    /\ owner[f] = None
    /\ owner' = [owner EXCEPT ![f] = c]
    /\ fd' = [fd EXCEPT ![c] = f]
    /\ pc' = [pc EXCEPT ![c] = "accepted"]
    /\ conn' = [conn EXCEPT ![s] = c]
    /\ loop' = [loop EXCEPT ![s] = "check"]
    /\ UNCHANGED <<threads, res, left, stop, reached, process>>

\* accept fails, for want of a descriptor or because the client has gone.
AcceptFails(s) ==
    /\ At(s, "accept")
    /\ process' = "exited"
    /\ UNCHANGED <<loop, conn, threads, owner, pc, fd, res, left, stop, reached>>

\* The test of `threads' against the limit.
AtLimit == threads >= MaxCon

\* Mutant: the limit is tested one connection too late.
AdmitLate(s) ==
    /\ At(s, "check")
    /\ threads =< MaxCon
    /\ loop' = [loop EXCEPT ![s] = "spawn"]
    /\ UNCHANGED <<conn, threads, owner, pc, fd, res, left, stop, reached, process>>

Admit(s) ==
    /\ At(s, "check")
    /\ ~AtLimit
    /\ loop' = [loop EXCEPT ![s] = "spawn"]
    /\ UNCHANGED <<conn, threads, owner, pc, fd, res, left, stop, reached, process>>

\* Mutant: a refused connection gives back a place it never had.
RefuseCounts(s) ==
    /\ At(s, "check")
    /\ AtLimit
    /\ Reach(conn[s], fd[conn[s]])
    /\ CloseFd(fd[conn[s]])
    /\ pc' = [pc EXCEPT ![conn[s]] = "refused"]
    /\ loop' = [loop EXCEPT ![s] = "accept"]
    /\ conn' = [conn EXCEPT ![s] = None]
    /\ threads' = threads - 1
    /\ UNCHANGED <<fd, res, left, stop, process>>

\* 503.
Refuse(s) ==
    /\ At(s, "check")
    /\ AtLimit
    /\ Reach(conn[s], fd[conn[s]])
    /\ CloseFd(fd[conn[s]])
    /\ pc' = [pc EXCEPT ![conn[s]] = "refused"]
    /\ loop' = [loop EXCEPT ![s] = "accept"]
    /\ conn' = [conn EXCEPT ![s] = None]
    /\ UNCHANGED <<threads, fd, res, left, stop, process>>

\* Mutant: the loop closes the descriptor it has handed over.
SpawnCloses(s, stage) ==
    /\ At(s, "spawn")
    /\ threads' = threads + 1
    /\ CloseFd(fd[conn[s]])
    /\ pc' = [pc EXCEPT ![conn[s]] = stage]
    /\ loop' = [loop EXCEPT ![s] = "accept"]
    /\ conn' = [conn EXCEPT ![s] = None]
    /\ UNCHANGED <<fd, res, left, stop, reached, process>>

\* threads++ and pthread_create, whose result is not looked at: the handler
\* runs, or (stage "lost") was never created.
Spawn(s, stage) ==
    /\ At(s, "spawn")
    /\ threads' = threads + 1
    /\ pc' = [pc EXCEPT ![conn[s]] = stage]
    /\ loop' = [loop EXCEPT ![s] = "accept"]
    /\ conn' = [conn EXCEPT ![s] = None]
    /\ UNCHANGED <<owner, fd, res, left, stop, reached, process>>

-----------------------------------------------------------------------------
(* handle_client.                                                          *)
In(c, stage) == process = "runs" /\ pc[c] = stage

\* recv_header fails, or parse_header does: nothing is sent.
BadHeader(c) ==
    /\ In(c, "header")
    /\ pc' = [pc EXCEPT ![c] = "end"]
    /\ UNCHANGED <<loop, conn, threads, owner, fd, res, left, stop, reached, process>>

\* The uri is too long (414), it cannot be decoded or there are no routes (400).
BadRequest(c) ==
    /\ In(c, "header")
    /\ Reach(c, fd[c])
    /\ pc' = [pc EXCEPT ![c] = "end"]
    /\ UNCHANGED <<loop, conn, threads, owner, fd, res, left, stop, process>>

\* n route functions match; res and req are made.
Request(c, n) ==
    /\ In(c, "header")
    /\ res' = [res EXCEPT ![c] = fd[c]]
    /\ left' = [left EXCEPT ![c] = n]
    /\ pc' = [pc EXCEPT ![c] = IF n = 0 THEN "end" ELSE "function"]
    /\ UNCHANGED <<loop, conn, threads, owner, fd, stop, reached, process>>

\* res:write.
Write(c) ==
    /\ In(c, "function")
    /\ res[c] # Closed
    /\ Reach(c, res[c])
    /\ UNCHANGED <<loop, conn, threads, owner, pc, fd, res, left, stop, process>>

\* Mutant: res.client_fd is not invalidated.
SendKeepsFd(c) ==
    /\ In(c, "function")
    /\ res[c] # Closed
    /\ Reach(c, res[c])
    /\ CloseFd(res[c])
    /\ UNCHANGED <<loop, conn, threads, pc, fd, res, left, stop, process>>

\* res:send.
Send(c) ==
    /\ In(c, "function")
    /\ res[c] # Closed
    /\ Reach(c, res[c])
    /\ res' = [res EXCEPT ![c] = Closed]
    /\ CloseFd(res[c])
    /\ UNCHANGED <<loop, conn, threads, pc, fd, left, stop, process>>

\* res:close.
Close(c) ==
    /\ In(c, "function")
    /\ res[c] # Closed
    /\ res' = [res EXCEPT ![c] = Closed]
    /\ CloseFd(res[c])
    /\ UNCHANGED <<loop, conn, threads, pc, fd, left, stop, reached, process>>

\* res:sendfile: the header, then the file in pieces until a send fails.
Sendfile(c) ==
    /\ In(c, "function")
    /\ res[c] # Closed
    /\ Reach(c, res[c])
    /\ UNCHANGED <<loop, conn, threads, owner, pc, fd, res, left, stop, process>>

\* The file is missing or cannot be read: the whole process exits.
SendfileFails(c) ==
    /\ In(c, "function")
    /\ res[c] # Closed
    /\ process' = "exited"
    /\ UNCHANGED <<loop, conn, threads, owner, pc, fd, res, left, stop, reached>>

\* client_fd_errors: write, send, close or sendfile after the connection was
\* closed through res.
Fatal(c) ==
    /\ In(c, "function")
    /\ res[c] = Closed
    /\ process' = "exited"
    /\ UNCHANGED <<loop, conn, threads, owner, pc, fd, res, left, stop, reached>>

\* res:stop.
Stop(c) ==
    /\ In(c, "function")
    /\ stop' = [stop EXCEPT ![c] = TRUE]
    /\ UNCHANGED <<loop, conn, threads, owner, pc, fd, res, left, reached, process>>

\* req:roll, which has its own copy of the descriptor.
Roll(c) ==
    /\ In(c, "function")
    /\ Reach(c, fd[c])
    /\ UNCHANGED <<loop, conn, threads, owner, pc, fd, res, left, stop, process>>

\* net_end: client_fd is taken from res.
NetEnd(c) ==
    /\ fd' = [fd EXCEPT ![c] = res[c]]
    /\ pc' = [pc EXCEPT ![c] = "end"]

\* A route function returns and there is another one.
ReturnNext(c) ==
    /\ In(c, "function")
    /\ ~stop[c] /\ left[c] > 1
    /\ left' = [left EXCEPT ![c] = @ - 1]
    /\ UNCHANGED <<loop, conn, threads, owner, pc, fd, res, stop, reached, process>>

\* A route function returns and it was the last, or res:stop was called.
ReturnLast(c) ==
    /\ In(c, "function")
    /\ stop[c] \/ left[c] = 1
    /\ NetEnd(c)
    /\ UNCHANGED <<loop, conn, threads, owner, res, left, stop, reached, process>>

\* A route function raises an error: 500 is sent to client_fd.
RouteError(c) ==
    /\ In(c, "function")
    /\ Reach(c, fd[c])
    /\ NetEnd(c)
    /\ UNCHANGED <<loop, conn, threads, owner, res, left, stop, process>>

\* Mutant: only a connection that was never answered is closed.
HangUpUnused(c) ==
    /\ In(c, "end")
    /\ IF fd[c] = Closed \/ <<c, c>> \in reached THEN UNCHANGED owner ELSE CloseFd(fd[c])
    /\ pc' = [pc EXCEPT ![c] = "closed"]
    /\ UNCHANGED <<loop, conn, threads, fd, res, left, stop, reached, process>>

\* shutdown and close, unless res has closed the connection.
HangUp(c) ==
    /\ In(c, "end")
    /\ IF fd[c] = Closed THEN UNCHANGED owner ELSE CloseFd(fd[c])
    /\ pc' = [pc EXCEPT ![c] = "closed"]
    /\ UNCHANGED <<loop, conn, threads, fd, res, left, stop, reached, process>>

\* Mutant: the counter is left alone when res has closed the connection.
FinishUncounted(c) ==
    /\ In(c, "closed")
    /\ threads' = IF fd[c] = Closed THEN threads ELSE threads - 1
    /\ pc' = [pc EXCEPT ![c] = "done"]
    /\ UNCHANGED <<loop, conn, owner, fd, res, left, stop, reached, process>>

Finish(c) ==
    /\ In(c, "closed")
    /\ threads' = threads - 1
    /\ pc' = [pc EXCEPT ![c] = "done"]
    /\ UNCHANGED <<loop, conn, owner, fd, res, left, stop, reached, process>>

-----------------------------------------------------------------------------
Serve(s) ==
    \/ \E c \in Conns, f \in Fds : Accept(s, c, f)
    \/ AcceptFails(s) \/ Admit(s) \/ Refuse(s)
    \/ \E stage \in {"header", "lost"} : Spawn(s, stage)

\* What a route function does before it returns.
Function(c) ==
    \/ Write(c) \/ Send(c) \/ Close(c) \/ Sendfile(c) \/ SendfileFails(c)
    \/ Fatal(c) \/ Stop(c) \/ Roll(c)

\* The steps that bring a handler to its end.
Proceed(c) ==
    \/ BadHeader(c) \/ BadRequest(c)
    \/ \E n \in 0 .. MaxRoutes : Request(c, n)
    \/ ReturnNext(c) \/ ReturnLast(c) \/ RouteError(c)
    \/ HangUp(c) \/ Finish(c)

ServerNext ==
    \/ \E s \in Servers : Serve(s)
    \/ \E c \in Conns : Function(c) \/ Proceed(c)

ServerSpec == ServerInit /\ [][ServerNext]_serverVars

-----------------------------------------------------------------------------
(* `threads' counts the handlers from their creation to their last step:   *)
(* it never drifts, whatever way a handler ends, and never goes below 0.   *)
ThreadsCountHandlers == threads = Cardinality(Counted)

(* The limit: each accept loop tests and increments `threads' in separate  *)
(* steps, so each loop but the first may add one handler to max_con.       *)
ConnectionLimit == threads < MaxCon + Cardinality(Servers)

(* A handler closes its own connection only, and once: the descriptor it   *)
(* is going to close is still its connection's.                            *)
ClosesOwnConnection ==
    \A c \in Conns :
        /\ pc[c] \in {"accepted", "lost", "header"} => owner[fd[c]] = c
        /\ pc[c] = "function" /\ res[c] # Closed => owner[res[c]] = c
        /\ pc[c] = "end" /\ fd[c] # Closed => owner[fd[c]] = c

(* No descriptor is leaked: a connection whose handler is through, or that *)
(* was refused, is behind no descriptor.                                   *)
NoDescriptorLeak ==
    \A f \in Fds : owner[f] # None => pc[owner[f]] \notin {"new", "refused", "closed", "done"}

(* Only a handler that has closed its own connection through res can reach *)
(* another one, by req:roll or by the 500 for a failing route function.    *)
CrossTalkOnlyAfterClose ==
    \A r \in reached : r[1] = r[2] \/ res[r[1]] = Closed

(* The 500 is for the connection whose route function failed.  The comment *)
(* in handle_client says it is sent "if send has not been called", so that *)
(* it is never sent to a descriptor that has passed to another connection. *)
ErrorReachesOwnConnection ==
    [][\A c \in Conns : RouteError(c) => reached' \subseteq reached \cup {<<c, c>>}]_serverVars
=============================================================================
