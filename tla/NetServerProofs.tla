--------------------------- MODULE NetServerProofs --------------------------
(***************************************************************************)
(* Theorems about NetServer for any number of servers, connections,        *)
(* descriptors and route functions, and any limit.                         *)
(***************************************************************************)
EXTENDS NetServer, FiniteSetTheorems, TLAPS

-----------------------------------------------------------------------------
(* The inductive invariant.                                                *)

\* The stages in which a connection may be open.
Open == {"accepted", "lost", "header", "function", "end"}

\* The descriptor that c's handler is going to close.
Held(c) == IF pc[c] = "function" THEN res[c] ELSE fd[c]

(* An accept loop between accept and pthread_create has a connection of    *)
(* its own.                                                                *)
LoopInv ==
    /\ \A s \in Servers :
          loop[s] # "accept" => conn[s] \in Conns /\ pc[conn[s]] = "accepted"
    /\ \A s, t \in Servers :
          s # t /\ loop[s] # "accept" /\ loop[t] # "accept" => conn[s] # conn[t]

(* res has the handler's descriptor or none, and while the connection is   *)
(* not closed the descriptor is the connection's.                          *)
HolderInv ==
    \A c \in Conns :
        /\ pc[c] \in {"accepted", "lost", "header", "function"} => fd[c] \in Fds
        /\ pc[c] = "function" => res[c] \in {fd[c], Closed}
        /\ pc[c] = "end" => fd[c] \in Fds \cup {Closed}
        /\ pc[c] \in Open /\ Held(c) # Closed => owner[Held(c)] = c
        /\ pc[c] \in {"new", "accepted", "refused", "lost", "header"} => res[c] = None

(* And the other way round: an open descriptor is held by a handler.       *)
OwnerInv ==
    \A f \in Fds :
        owner[f] # None => pc[owner[f]] \in Open /\ Held(owner[f]) = f

\* The loops that have passed the limit's test and not yet counted.
Spawning == {s \in Servers : loop[s] = "spawn"}

(* Each loop but one may count on the same place.                          *)
LimitInv == threads + Cardinality(Spawning) < MaxCon + Cardinality(Servers)

Ownership == LoopInv /\ HolderInv /\ OwnerInv

Inv ==
    /\ ServerTypeOK /\ Ownership
    /\ ThreadsCountHandlers /\ LimitInv /\ CrossTalkOnlyAfterClose

-----------------------------------------------------------------------------
(* The counter and the limit.                                              *)

(* There are finitely many handlers to count.                             *)
LEMMA CountedFinite == IsFiniteSet(Counted) /\ Cardinality(Counted) \in Nat
<1>1. Counted \in SUBSET Conns
    BY DEF Counted
<1> QED
    BY <1>1, NetAssumption, FS_Subset, FS_CardinalityType

(* A connection enters the stages that are counted.                        *)
LEMMA CountIn ==
    ASSUME ServerTypeOK, ThreadsCountHandlers, NEW c \in Conns, pc[c] \notin Counts,
           NEW stage \in Counts, pc' = [pc EXCEPT ![c] = stage]
    PROVE  Cardinality(Counted') = threads + 1
<1>1. Counted' = Counted \cup {c} /\ c \notin Counted
    BY DEF Counted, ServerTypeOK
<1> QED
    BY <1>1, CountedFinite, FS_AddElement DEF ThreadsCountHandlers

(* A connection leaves them.                                               *)
LEMMA CountOut ==
    ASSUME ServerTypeOK, ThreadsCountHandlers, NEW c \in Conns, pc[c] \in Counts,
           NEW stage, stage \notin Counts, pc' = [pc EXCEPT ![c] = stage]
    PROVE  Cardinality(Counted') = threads - 1 /\ threads > 0
<1>1. Counted' = Counted \ {c} /\ c \in Counted
    BY DEF Counted, ServerTypeOK
<1>2. Cardinality(Counted \ {c}) = Cardinality(Counted) - 1
    BY <1>1, CountedFinite, FS_RemoveElement
<1>3. Cardinality(Counted) # 0
    BY <1>1, CountedFinite, FS_EmptySet
<1> QED
    BY <1>1, <1>2, <1>3, CountedFinite DEF ThreadsCountHandlers

(* A connection does neither.                                              *)
LEMMA CountKept ==
    ASSUME ServerTypeOK, ThreadsCountHandlers, NEW c \in Conns, NEW stage,
           pc[c] \in Counts <=> stage \in Counts, pc' = [pc EXCEPT ![c] = stage]
    PROVE  Cardinality(Counted') = threads
<1>1. Counted' = Counted
    BY DEF Counted, ServerTypeOK
<1> QED
    BY <1>1 DEF ThreadsCountHandlers

(* Every step changes the counter as it changes the handlers.              *)
LEMMA CountStep ==
    ASSUME ServerTypeOK, LoopInv, ThreadsCountHandlers, [ServerNext]_serverVars
    PROVE  ThreadsCountHandlers'
<1> USE DEF ThreadsCountHandlers
<1>1. ASSUME NEW s \in Servers, NEW c \in Conns, NEW f \in Fds,
            Accept(s, c, f)
     PROVE  ThreadsCountHandlers'
    BY <1>1, CountKept DEF Accept, At, LoopInv, Counts
<1>2. ASSUME NEW s \in Servers, AcceptFails(s) PROVE ThreadsCountHandlers'
    BY <1>2 DEF AcceptFails, At, Counted
<1>3. ASSUME NEW s \in Servers, Admit(s) PROVE ThreadsCountHandlers'
    BY <1>3 DEF Admit, At, Counted
<1>4. ASSUME NEW s \in Servers, Refuse(s) PROVE ThreadsCountHandlers'
    BY <1>4, CountKept DEF Refuse, At, CloseFd, LoopInv, Counts
<1>5. ASSUME NEW s \in Servers, NEW stage \in {"header", "lost"},
            Spawn(s, stage)
     PROVE  ThreadsCountHandlers'
    BY <1>5, CountIn DEF Spawn, At, LoopInv, Counts
<1>6. ASSUME NEW c \in Conns, BadHeader(c) PROVE ThreadsCountHandlers'
    BY <1>6, CountKept DEF BadHeader, In, LoopInv, Counts
<1>7. ASSUME NEW c \in Conns, BadRequest(c) PROVE ThreadsCountHandlers'
    BY <1>7, CountKept DEF BadRequest, In, LoopInv, Counts
<1>8. ASSUME NEW c \in Conns, NEW n \in 0 .. MaxRoutes,
            Request(c, n)
     PROVE  ThreadsCountHandlers'
    <2>1. PICK stage \in {"end", "function"} : pc' = [pc EXCEPT ![c] = stage]
        BY <1>8 DEF Request
    <2> QED
        BY <1>8, <2>1, CountKept DEF Request, In, Counts
<1>9. ASSUME NEW c \in Conns, Write(c) PROVE ThreadsCountHandlers'
    BY <1>9 DEF Write, In, Counted
<1>10. ASSUME NEW c \in Conns, Send(c) PROVE ThreadsCountHandlers'
    BY <1>10 DEF Send, In, CloseFd, Counted
<1>11. ASSUME NEW c \in Conns, Close(c) PROVE ThreadsCountHandlers'
    BY <1>11 DEF Close, In, CloseFd, Counted
<1>12. ASSUME NEW c \in Conns, Sendfile(c) PROVE ThreadsCountHandlers'
    BY <1>12 DEF Sendfile, In, Counted
<1>13. ASSUME NEW c \in Conns,
            SendfileFails(c) \/ Fatal(c)
     PROVE  ThreadsCountHandlers'
    BY <1>13 DEF SendfileFails, Fatal, In, Counted
<1>14. ASSUME NEW c \in Conns, Stop(c) PROVE ThreadsCountHandlers'
    BY <1>14 DEF Stop, In, Counted
<1>15. ASSUME NEW c \in Conns, Roll(c) PROVE ThreadsCountHandlers'
    BY <1>15 DEF Roll, In, Counted
<1>16. ASSUME NEW c \in Conns, ReturnNext(c) PROVE ThreadsCountHandlers'
    BY <1>16 DEF ReturnNext, In, Counted
<1>17. ASSUME NEW c \in Conns, ReturnLast(c) PROVE ThreadsCountHandlers'
    BY <1>17, CountKept DEF ReturnLast, In, NetEnd, LoopInv, Counts
<1>18. ASSUME NEW c \in Conns, RouteError(c) PROVE ThreadsCountHandlers'
    BY <1>18, CountKept DEF RouteError, In, NetEnd, LoopInv, Counts
<1>19. ASSUME NEW c \in Conns, HangUp(c) PROVE ThreadsCountHandlers'
    BY <1>19, CountKept DEF HangUp, In, CloseFd, LoopInv, Counts
<1>20. ASSUME NEW c \in Conns, Finish(c) PROVE ThreadsCountHandlers'
    BY <1>20, CountOut DEF Finish, In, LoopInv, Counts
<1>21. CASE UNCHANGED serverVars
    BY <1>21 DEF serverVars, Counted
<1> QED
    BY <1>1, <1>2, <1>3, <1>4, <1>5, <1>6, <1>7, <1>8, <1>9, <1>10, <1>11,
       <1>12, <1>13, <1>14, <1>15, <1>16, <1>17, <1>18, <1>19, <1>20, <1>21
       DEF ServerNext, Serve, Function, Proceed

(* What is reached are connections.                                        *)
LEMMA ReachType ==
    ASSUME ServerTypeOK, NEW c \in Conns, NEW f, Reach(c, f)
    PROVE  reached' \in SUBSET (Conns \X Conns)
    BY DEF Reach, ServerTypeOK

(* Every step keeps the types; the counter because it counts.              *)
LEMMA TypeStep ==
    ASSUME ServerTypeOK, LoopInv, ThreadsCountHandlers, [ServerNext]_serverVars
    PROVE  ServerTypeOK'
<1> USE NetAssumption DEF ServerTypeOK, Stages, LoopInv
<1>1. ASSUME NEW s \in Servers, NEW c \in Conns, NEW f \in Fds,
            Accept(s, c, f)
     PROVE  ServerTypeOK'
    BY <1>1 DEF Accept, At
<1>2. ASSUME NEW s \in Servers, AcceptFails(s) PROVE ServerTypeOK'
    BY <1>2 DEF AcceptFails, At
<1>3. ASSUME NEW s \in Servers, Admit(s) PROVE ServerTypeOK'
    BY <1>3 DEF Admit, At
<1>4. ASSUME NEW s \in Servers, Refuse(s) PROVE ServerTypeOK'
    BY <1>4, ReachType DEF Refuse, At, CloseFd
<1>5. ASSUME NEW s \in Servers, NEW stage \in {"header", "lost"},
            Spawn(s, stage)
     PROVE  ServerTypeOK'
    BY <1>5 DEF Spawn, At
<1>6. ASSUME NEW c \in Conns, BadHeader(c) PROVE ServerTypeOK'
    BY <1>6 DEF BadHeader, In
<1>7. ASSUME NEW c \in Conns, BadRequest(c) PROVE ServerTypeOK'
    BY <1>7, ReachType DEF BadRequest, In
<1>8. ASSUME NEW c \in Conns, NEW n \in 0 .. MaxRoutes,
            Request(c, n)
     PROVE  ServerTypeOK'
    BY <1>8 DEF Request, In
<1>9. ASSUME NEW c \in Conns, Write(c) PROVE ServerTypeOK'
    BY <1>9, ReachType DEF Write, In
<1>10. ASSUME NEW c \in Conns, Send(c) PROVE ServerTypeOK'
    BY <1>10, ReachType DEF Send, In, CloseFd
<1>11. ASSUME NEW c \in Conns, Close(c) PROVE ServerTypeOK'
    BY <1>11 DEF Close, In, CloseFd
<1>12. ASSUME NEW c \in Conns, Sendfile(c) PROVE ServerTypeOK'
    BY <1>12, ReachType DEF Sendfile, In
<1>13. ASSUME NEW c \in Conns, SendfileFails(c) \/ Fatal(c) PROVE ServerTypeOK'
    BY <1>13 DEF SendfileFails, Fatal, In
<1>14. ASSUME NEW c \in Conns, Stop(c) PROVE ServerTypeOK'
    BY <1>14 DEF Stop, In
<1>15. ASSUME NEW c \in Conns, Roll(c) PROVE ServerTypeOK'
    BY <1>15, ReachType DEF Roll, In
<1>16. ASSUME NEW c \in Conns, ReturnNext(c) PROVE ServerTypeOK'
    BY <1>16 DEF ReturnNext, In
<1>17. ASSUME NEW c \in Conns, ReturnLast(c) PROVE ServerTypeOK'
    BY <1>17 DEF ReturnLast, In, NetEnd
<1>18. ASSUME NEW c \in Conns, RouteError(c) PROVE ServerTypeOK'
    BY <1>18, ReachType DEF RouteError, In, NetEnd
<1>19. ASSUME NEW c \in Conns, HangUp(c) PROVE ServerTypeOK'
    BY <1>19 DEF HangUp, In, CloseFd
<1>20. ASSUME NEW c \in Conns, Finish(c) PROVE ServerTypeOK'
    <2>1. threads > 0
        BY <1>20, CountOut DEF Finish, In, Counts
    <2> QED
        BY <1>20, <2>1 DEF Finish, In
<1>21. CASE UNCHANGED serverVars
    BY <1>21 DEF serverVars
<1> QED
    BY <1>1, <1>2, <1>3, <1>4, <1>5, <1>6, <1>7, <1>8, <1>9, <1>10, <1>11,
       <1>12, <1>13, <1>14, <1>15, <1>16, <1>17, <1>18, <1>19, <1>20, <1>21
       DEF ServerNext, Serve, Function, Proceed

(* The loops that are about to count.                                      *)
LEMMA SpawningFinite ==
    /\ IsFiniteSet(Spawning) /\ Cardinality(Spawning) \in Nat
    /\ Cardinality(Spawning) =< Cardinality(Servers) /\ Cardinality(Servers) \in Nat
<1>1. Spawning \in SUBSET Servers
    BY DEF Spawning
<1> QED
    BY <1>1, NetAssumption, FS_Subset, FS_CardinalityType

(* The limit's test leaves room for the loops that have passed it.         *)
LEMMA LimitStep ==
    ASSUME ServerTypeOK, LimitInv, [ServerNext]_serverVars
    PROVE  LimitInv'
<1>1. ASSUME NEW s \in Servers, NEW c \in Conns, NEW f \in Fds,
            Accept(s, c, f)
     PROVE  LimitInv'
    <2>1. Spawning' = Spawning
        BY <1>1 DEF Accept, At, Spawning, ServerTypeOK
    <2> QED
        BY <1>1, <2>1 DEF Accept, LimitInv
<1>2. ASSUME NEW s \in Servers, AcceptFails(s) PROVE LimitInv'
    BY <1>2 DEF AcceptFails, Spawning, LimitInv
<1>3. ASSUME NEW s \in Servers, Admit(s) PROVE LimitInv'
    <2>1. Cardinality(Spawning') =< Cardinality(Servers) /\ Cardinality(Spawning') \in Nat
        <3>1. Spawning' \in SUBSET Servers
            BY DEF Spawning
        <3> QED
            BY <3>1, NetAssumption, FS_Subset, FS_CardinalityType
    <2>2. threads' = threads /\ threads < MaxCon
        BY <1>3, NetAssumption DEF Admit, AtLimit, ServerTypeOK
    <2> QED
        BY <2>1, <2>2, SpawningFinite, NetAssumption DEF ServerTypeOK, LimitInv
<1>4. ASSUME NEW s \in Servers, Refuse(s) PROVE LimitInv'
    <2>1. Spawning' = Spawning
        BY <1>4 DEF Refuse, At, CloseFd, Spawning, ServerTypeOK
    <2> QED
        BY <1>4, <2>1 DEF Refuse, LimitInv
<1>5. ASSUME NEW s \in Servers, NEW stage \in {"header", "lost"},
            Spawn(s, stage)
     PROVE  LimitInv'
    <2>1. Spawning' = Spawning \ {s} /\ s \in Spawning
        BY <1>5 DEF Spawn, At, Spawning, ServerTypeOK
    <2>2. Cardinality(Spawning') = Cardinality(Spawning) - 1
        BY <2>1, SpawningFinite, FS_RemoveElement
    <2> QED
        BY <1>5, <2>2, SpawningFinite, NetAssumption DEF Spawn, ServerTypeOK, LimitInv
<1>6. ASSUME NEW c \in Conns, BadHeader(c) PROVE LimitInv'
    BY <1>6 DEF BadHeader, Spawning, LimitInv
<1>7. ASSUME NEW c \in Conns, BadRequest(c) PROVE LimitInv'
    BY <1>7 DEF BadRequest, Spawning, LimitInv
<1>8. ASSUME NEW c \in Conns, NEW n \in 0 .. MaxRoutes,
            Request(c, n)
     PROVE  LimitInv'
    BY <1>8 DEF Request, Spawning, LimitInv
<1>9. ASSUME NEW c \in Conns, Write(c) PROVE LimitInv'
    BY <1>9 DEF Write, Spawning, LimitInv
<1>10. ASSUME NEW c \in Conns, Send(c) PROVE LimitInv'
    BY <1>10 DEF Send, Spawning, LimitInv
<1>11. ASSUME NEW c \in Conns, Close(c) PROVE LimitInv'
    BY <1>11 DEF Close, Spawning, LimitInv
<1>12. ASSUME NEW c \in Conns, Sendfile(c) PROVE LimitInv'
    BY <1>12 DEF Sendfile, Spawning, LimitInv
<1>13. ASSUME NEW c \in Conns, SendfileFails(c) \/ Fatal(c) PROVE LimitInv'
    BY <1>13 DEF SendfileFails, Fatal, Spawning, LimitInv
<1>14. ASSUME NEW c \in Conns, Stop(c) PROVE LimitInv'
    BY <1>14 DEF Stop, Spawning, LimitInv
<1>15. ASSUME NEW c \in Conns, Roll(c) PROVE LimitInv'
    BY <1>15 DEF Roll, Spawning, LimitInv
<1>16. ASSUME NEW c \in Conns, ReturnNext(c) PROVE LimitInv'
    BY <1>16 DEF ReturnNext, Spawning, LimitInv
<1>17. ASSUME NEW c \in Conns, ReturnLast(c) PROVE LimitInv'
    BY <1>17 DEF ReturnLast, Spawning, LimitInv
<1>18. ASSUME NEW c \in Conns, RouteError(c) PROVE LimitInv'
    BY <1>18 DEF RouteError, Spawning, LimitInv
<1>19. ASSUME NEW c \in Conns, HangUp(c) PROVE LimitInv'
    BY <1>19 DEF HangUp, Spawning, LimitInv
<1>20. ASSUME NEW c \in Conns, Finish(c) PROVE LimitInv'
    <2>1. Spawning' = Spawning
        BY <1>20 DEF Finish, Spawning
    <2> QED
        BY <1>20, <2>1, SpawningFinite, NetAssumption DEF Finish, ServerTypeOK, LimitInv
<1>21. CASE UNCHANGED serverVars
    BY <1>21 DEF serverVars, Spawning, LimitInv
<1> QED
    BY <1>1, <1>2, <1>3, <1>4, <1>5, <1>6, <1>7, <1>8, <1>9, <1>10, <1>11,
       <1>12, <1>13, <1>14, <1>15, <1>16, <1>17, <1>18, <1>19, <1>20, <1>21
       DEF ServerNext, Serve, Function, Proceed

-----------------------------------------------------------------------------
(* Who has which descriptor.                                               *)

(* Only a loop moves its connection out of "accepted".                     *)
LEMMA LoopStep ==
    ASSUME ServerTypeOK, LoopInv, HolderInv, OwnerInv, [ServerNext]_serverVars
    PROVE  LoopInv'
<1> USE NetAssumption DEF ServerTypeOK, LoopInv
<1>1. ASSUME NEW s \in Servers, NEW c \in Conns, NEW f \in Fds,
            Accept(s, c, f)
     PROVE  LoopInv'
    BY <1>1 DEF Accept, At
<1>2. ASSUME NEW s \in Servers, AcceptFails(s) PROVE LoopInv'
    BY <1>2 DEF AcceptFails, At
<1>3. ASSUME NEW s \in Servers, Admit(s) PROVE LoopInv'
    BY <1>3 DEF Admit, At
<1>4. ASSUME NEW s \in Servers, Refuse(s) PROVE LoopInv'
    BY <1>4 DEF Refuse, At, CloseFd
<1>5. ASSUME NEW s \in Servers, NEW stage \in {"header", "lost"},
            Spawn(s, stage)
     PROVE  LoopInv'
    BY <1>5 DEF Spawn, At
<1>6. ASSUME NEW c \in Conns, BadHeader(c) PROVE LoopInv'
    BY <1>6 DEF BadHeader, In
<1>7. ASSUME NEW c \in Conns, BadRequest(c) PROVE LoopInv'
    BY <1>7 DEF BadRequest, In
<1>8. ASSUME NEW c \in Conns, NEW n \in 0 .. MaxRoutes,
            Request(c, n)
     PROVE  LoopInv'
    BY <1>8 DEF Request, In
<1>9. ASSUME NEW c \in Conns, Write(c) PROVE LoopInv'
    BY <1>9 DEF Write, In
<1>10. ASSUME NEW c \in Conns, Send(c) PROVE LoopInv'
    BY <1>10 DEF Send, In, CloseFd
<1>11. ASSUME NEW c \in Conns, Close(c) PROVE LoopInv'
    BY <1>11 DEF Close, In, CloseFd
<1>12. ASSUME NEW c \in Conns, Sendfile(c) PROVE LoopInv'
    BY <1>12 DEF Sendfile, In
<1>13. ASSUME NEW c \in Conns, SendfileFails(c) \/ Fatal(c) PROVE LoopInv'
    BY <1>13 DEF SendfileFails, Fatal, In
<1>14. ASSUME NEW c \in Conns, Stop(c) PROVE LoopInv'
    BY <1>14 DEF Stop, In
<1>15. ASSUME NEW c \in Conns, Roll(c) PROVE LoopInv'
    BY <1>15 DEF Roll, In
<1>16. ASSUME NEW c \in Conns, ReturnNext(c) PROVE LoopInv'
    BY <1>16 DEF ReturnNext, In
<1>17. ASSUME NEW c \in Conns, ReturnLast(c) PROVE LoopInv'
    BY <1>17 DEF ReturnLast, In, NetEnd
<1>18. ASSUME NEW c \in Conns, RouteError(c) PROVE LoopInv'
    BY <1>18 DEF RouteError, In, NetEnd
<1>19. ASSUME NEW c \in Conns, HangUp(c) PROVE LoopInv'
    BY <1>19 DEF HangUp, In, CloseFd
<1>20. ASSUME NEW c \in Conns, Finish(c) PROVE LoopInv'
    BY <1>20 DEF Finish, In
<1>21. CASE UNCHANGED serverVars
    BY <1>21 DEF serverVars
<1> QED
    BY <1>1, <1>2, <1>3, <1>4, <1>5, <1>6, <1>7, <1>8, <1>9, <1>10, <1>11,
       <1>12, <1>13, <1>14, <1>15, <1>16, <1>17, <1>18, <1>19, <1>20, <1>21
       DEF ServerNext, Serve, Function, Proceed

(* Nobody but its handler closes a connection.                             *)
LEMMA HolderStep ==
    ASSUME ServerTypeOK, LoopInv, HolderInv, OwnerInv, [ServerNext]_serverVars
    PROVE  HolderInv'
<1> USE NetAssumption DEF ServerTypeOK, LoopInv, HolderInv, OwnerInv, Held, Open
<1>1. ASSUME NEW s \in Servers, NEW c \in Conns, NEW f \in Fds,
            Accept(s, c, f)
     PROVE  HolderInv'
    BY <1>1 DEF Accept, At
<1>2. ASSUME NEW s \in Servers, AcceptFails(s) PROVE HolderInv'
    BY <1>2 DEF AcceptFails, At
<1>3. ASSUME NEW s \in Servers, Admit(s) PROVE HolderInv'
    BY <1>3 DEF Admit, At
<1>4. ASSUME NEW s \in Servers, Refuse(s) PROVE HolderInv'
    BY <1>4 DEF Refuse, At, CloseFd
<1>5. ASSUME NEW s \in Servers, NEW stage \in {"header", "lost"},
            Spawn(s, stage)
     PROVE  HolderInv'
    BY <1>5 DEF Spawn, At
<1>6. ASSUME NEW c \in Conns, BadHeader(c) PROVE HolderInv'
    BY <1>6 DEF BadHeader, In
<1>7. ASSUME NEW c \in Conns, BadRequest(c) PROVE HolderInv'
    BY <1>7 DEF BadRequest, In
<1>8. ASSUME NEW c \in Conns, NEW n \in 0 .. MaxRoutes,
            Request(c, n)
     PROVE  HolderInv'
    BY <1>8 DEF Request, In
<1>9. ASSUME NEW c \in Conns, Write(c) PROVE HolderInv'
    BY <1>9 DEF Write, In
<1>10. ASSUME NEW c \in Conns, Send(c) PROVE HolderInv'
    BY <1>10 DEF Send, In, CloseFd
<1>11. ASSUME NEW c \in Conns, Close(c) PROVE HolderInv'
    BY <1>11 DEF Close, In, CloseFd
<1>12. ASSUME NEW c \in Conns, Sendfile(c) PROVE HolderInv'
    BY <1>12 DEF Sendfile, In
<1>13. ASSUME NEW c \in Conns, SendfileFails(c) \/ Fatal(c) PROVE HolderInv'
    BY <1>13 DEF SendfileFails, Fatal, In
<1>14. ASSUME NEW c \in Conns, Stop(c) PROVE HolderInv'
    BY <1>14 DEF Stop, In
<1>15. ASSUME NEW c \in Conns, Roll(c) PROVE HolderInv'
    BY <1>15 DEF Roll, In
<1>16. ASSUME NEW c \in Conns, ReturnNext(c) PROVE HolderInv'
    BY <1>16 DEF ReturnNext, In
<1>17. ASSUME NEW c \in Conns, ReturnLast(c) PROVE HolderInv'
    BY <1>17 DEF ReturnLast, In, NetEnd
<1>18. ASSUME NEW c \in Conns, RouteError(c) PROVE HolderInv'
    BY <1>18 DEF RouteError, In, NetEnd
<1>19. ASSUME NEW c \in Conns, HangUp(c) PROVE HolderInv'
    BY <1>19 DEF HangUp, In, CloseFd
<1>20. ASSUME NEW c \in Conns, Finish(c) PROVE HolderInv'
    BY <1>20 DEF Finish, In
<1>21. CASE UNCHANGED serverVars
    BY <1>21 DEF serverVars
<1> QED
    BY <1>1, <1>2, <1>3, <1>4, <1>5, <1>6, <1>7, <1>8, <1>9, <1>10, <1>11,
       <1>12, <1>13, <1>14, <1>15, <1>16, <1>17, <1>18, <1>19, <1>20, <1>21
       DEF ServerNext, Serve, Function, Proceed

(* A handler past its last stage has closed its connection.                *)
LEMMA OwnerStep ==
    ASSUME ServerTypeOK, LoopInv, HolderInv, OwnerInv, [ServerNext]_serverVars
    PROVE  OwnerInv'
<1> USE NetAssumption DEF ServerTypeOK, LoopInv, HolderInv, OwnerInv, Held, Open
<1>1. ASSUME NEW s \in Servers, NEW c \in Conns, NEW f \in Fds,
            Accept(s, c, f)
     PROVE  OwnerInv'
    BY <1>1 DEF Accept, At
<1>2. ASSUME NEW s \in Servers, AcceptFails(s) PROVE OwnerInv'
    BY <1>2 DEF AcceptFails, At
<1>3. ASSUME NEW s \in Servers, Admit(s) PROVE OwnerInv'
    BY <1>3 DEF Admit, At
<1>4. ASSUME NEW s \in Servers, Refuse(s) PROVE OwnerInv'
    BY <1>4 DEF Refuse, At, CloseFd
<1>5. ASSUME NEW s \in Servers, NEW stage \in {"header", "lost"},
            Spawn(s, stage)
     PROVE  OwnerInv'
    BY <1>5 DEF Spawn, At
<1>6. ASSUME NEW c \in Conns, BadHeader(c) PROVE OwnerInv'
    BY <1>6 DEF BadHeader, In
<1>7. ASSUME NEW c \in Conns, BadRequest(c) PROVE OwnerInv'
    BY <1>7 DEF BadRequest, In
<1>8. ASSUME NEW c \in Conns, NEW n \in 0 .. MaxRoutes,
            Request(c, n)
     PROVE  OwnerInv'
    BY <1>8 DEF Request, In
<1>9. ASSUME NEW c \in Conns, Write(c) PROVE OwnerInv'
    BY <1>9 DEF Write, In
<1>10. ASSUME NEW c \in Conns, Send(c) PROVE OwnerInv'
    BY <1>10 DEF Send, In, CloseFd
<1>11. ASSUME NEW c \in Conns, Close(c) PROVE OwnerInv'
    BY <1>11 DEF Close, In, CloseFd
<1>12. ASSUME NEW c \in Conns, Sendfile(c) PROVE OwnerInv'
    BY <1>12 DEF Sendfile, In
<1>13. ASSUME NEW c \in Conns, SendfileFails(c) \/ Fatal(c) PROVE OwnerInv'
    BY <1>13 DEF SendfileFails, Fatal, In
<1>14. ASSUME NEW c \in Conns, Stop(c) PROVE OwnerInv'
    BY <1>14 DEF Stop, In
<1>15. ASSUME NEW c \in Conns, Roll(c) PROVE OwnerInv'
    BY <1>15 DEF Roll, In
<1>16. ASSUME NEW c \in Conns, ReturnNext(c) PROVE OwnerInv'
    BY <1>16 DEF ReturnNext, In
<1>17. ASSUME NEW c \in Conns, ReturnLast(c) PROVE OwnerInv'
    BY <1>17 DEF ReturnLast, In, NetEnd
<1>18. ASSUME NEW c \in Conns, RouteError(c) PROVE OwnerInv'
    BY <1>18 DEF RouteError, In, NetEnd
<1>19. ASSUME NEW c \in Conns, HangUp(c) PROVE OwnerInv'
    BY <1>19 DEF HangUp, In, CloseFd
<1>20. ASSUME NEW c \in Conns, Finish(c) PROVE OwnerInv'
    BY <1>20 DEF Finish, In
<1>21. CASE UNCHANGED serverVars
    BY <1>21 DEF serverVars
<1> QED
    BY <1>1, <1>2, <1>3, <1>4, <1>5, <1>6, <1>7, <1>8, <1>9, <1>10, <1>11,
       <1>12, <1>13, <1>14, <1>15, <1>16, <1>17, <1>18, <1>19, <1>20, <1>21
       DEF ServerNext, Serve, Function, Proceed

(* A descriptor is used while it is the handler's own, or after res has    *)
(* closed it.                                                              *)
LEMMA CrossStep ==
    ASSUME ServerTypeOK, LoopInv, HolderInv, CrossTalkOnlyAfterClose, [ServerNext]_serverVars
    PROVE  CrossTalkOnlyAfterClose'
<1> USE NetAssumption DEF ServerTypeOK, LoopInv, HolderInv, Held, Open,
        CrossTalkOnlyAfterClose
<1>1. ASSUME NEW s \in Servers, NEW c \in Conns, NEW f \in Fds,
            Accept(s, c, f)
     PROVE  CrossTalkOnlyAfterClose'
    BY <1>1 DEF Accept, At
<1>2. ASSUME NEW s \in Servers, AcceptFails(s) PROVE CrossTalkOnlyAfterClose'
    BY <1>2 DEF AcceptFails, At
<1>3. ASSUME NEW s \in Servers, Admit(s) PROVE CrossTalkOnlyAfterClose'
    BY <1>3 DEF Admit, At
<1>4. ASSUME NEW s \in Servers, Refuse(s) PROVE CrossTalkOnlyAfterClose'
    <2>1. owner[fd[conn[s]]] = conn[s] /\ conn[s] \in Conns
        BY <1>4 DEF Refuse, At, CloseFd
    <2>2. reached' \subseteq reached \cup {<<conn[s], conn[s]>>}
        BY <1>4, <2>1 DEF Refuse, Reach
    <2> QED
        BY <1>4, <2>2 DEF Refuse, At, CloseFd
<1>5. ASSUME NEW s \in Servers, NEW stage \in {"header", "lost"},
            Spawn(s, stage)
     PROVE  CrossTalkOnlyAfterClose'
    BY <1>5 DEF Spawn, At
<1>6. ASSUME NEW c \in Conns, BadHeader(c) PROVE CrossTalkOnlyAfterClose'
    BY <1>6 DEF BadHeader, In
<1>7. ASSUME NEW c \in Conns, BadRequest(c) PROVE CrossTalkOnlyAfterClose'
    <2>1. owner[fd[c]] = c /\ c \in Conns
        BY <1>7 DEF BadRequest, In
    <2>2. reached' \subseteq reached \cup {<<c, c>>}
        BY <1>7, <2>1 DEF BadRequest, Reach
    <2> QED
        BY <1>7, <2>2 DEF BadRequest, In
<1>8. ASSUME NEW c \in Conns, NEW n \in 0 .. MaxRoutes,
            Request(c, n)
     PROVE  CrossTalkOnlyAfterClose'
    BY <1>8 DEF Request, In
<1>9. ASSUME NEW c \in Conns, Write(c) PROVE CrossTalkOnlyAfterClose'
    <2>1. owner[res[c]] = c /\ c \in Conns
        BY <1>9 DEF Write, In
    <2>2. reached' \subseteq reached \cup {<<c, c>>}
        BY <1>9, <2>1 DEF Write, Reach
    <2> QED
        BY <1>9, <2>2 DEF Write, In
<1>10. ASSUME NEW c \in Conns, Send(c) PROVE CrossTalkOnlyAfterClose'
    <2>1. owner[res[c]] = c /\ c \in Conns
        BY <1>10 DEF Send, In, CloseFd
    <2>2. reached' \subseteq reached \cup {<<c, c>>}
        BY <1>10, <2>1 DEF Send, Reach
    <2> QED
        BY <1>10, <2>2 DEF Send, In, CloseFd
<1>11. ASSUME NEW c \in Conns, Close(c) PROVE CrossTalkOnlyAfterClose'
    BY <1>11 DEF Close, In, CloseFd
<1>12. ASSUME NEW c \in Conns, Sendfile(c) PROVE CrossTalkOnlyAfterClose'
    <2>1. owner[res[c]] = c /\ c \in Conns
        BY <1>12 DEF Sendfile, In
    <2>2. reached' \subseteq reached \cup {<<c, c>>}
        BY <1>12, <2>1 DEF Sendfile, Reach
    <2> QED
        BY <1>12, <2>2 DEF Sendfile, In
<1>13. ASSUME NEW c \in Conns,
            SendfileFails(c) \/ Fatal(c)
     PROVE  CrossTalkOnlyAfterClose'
    BY <1>13 DEF SendfileFails, Fatal, In
<1>14. ASSUME NEW c \in Conns, Stop(c) PROVE CrossTalkOnlyAfterClose'
    BY <1>14 DEF Stop, In
<1>15. ASSUME NEW c \in Conns, Roll(c) PROVE CrossTalkOnlyAfterClose'
    <2>1. res[c] = Closed \/ owner[fd[c]] = c
        BY <1>15 DEF Roll, In
    <2>2. \A r \in reached' \ reached : r[1] = c /\ r[2] \in {owner[g] : g \in {fd[c]} \cap Fds}
        BY <1>15 DEF Roll, Reach
    <2> QED
        BY <1>15, <2>1, <2>2 DEF Roll, In
<1>16. ASSUME NEW c \in Conns, ReturnNext(c) PROVE CrossTalkOnlyAfterClose'
    BY <1>16 DEF ReturnNext, In
<1>17. ASSUME NEW c \in Conns, ReturnLast(c) PROVE CrossTalkOnlyAfterClose'
    BY <1>17 DEF ReturnLast, In, NetEnd
<1>18. ASSUME NEW c \in Conns, RouteError(c) PROVE CrossTalkOnlyAfterClose'
    <2>1. res[c] = Closed \/ owner[fd[c]] = c
        BY <1>18 DEF RouteError, In, NetEnd
    <2>2. \A r \in reached' \ reached : r[1] = c /\ r[2] \in {owner[g] : g \in {fd[c]} \cap Fds}
        BY <1>18 DEF RouteError, Reach
    <2> QED
        BY <1>18, <2>1, <2>2 DEF RouteError, In, NetEnd
<1>19. ASSUME NEW c \in Conns, HangUp(c) PROVE CrossTalkOnlyAfterClose'
    BY <1>19 DEF HangUp, In, CloseFd
<1>20. ASSUME NEW c \in Conns, Finish(c) PROVE CrossTalkOnlyAfterClose'
    BY <1>20 DEF Finish, In
<1>21. CASE UNCHANGED serverVars
    BY <1>21 DEF serverVars
<1> QED
    BY <1>1, <1>2, <1>3, <1>4, <1>5, <1>6, <1>7, <1>8, <1>9, <1>10, <1>11,
       <1>12, <1>13, <1>14, <1>15, <1>16, <1>17, <1>18, <1>19, <1>20, <1>21
       DEF ServerNext, Serve, Function, Proceed

-----------------------------------------------------------------------------
(* The server starts with no connection and no handler.                    *)
LEMMA InvInit == ServerInit => Inv
<1> SUFFICES ASSUME ServerInit PROVE Inv
    OBVIOUS
<1>1. ServerTypeOK /\ Ownership /\ CrossTalkOnlyAfterClose
    BY NetAssumption DEF ServerInit, ServerTypeOK, Stages, Ownership, LoopInv, HolderInv,
       OwnerInv, Open, CrossTalkOnlyAfterClose
<1>2. ThreadsCountHandlers
    <2>1. Counted = {}
        BY DEF ServerInit, Counted, Counts
    <2> QED
        BY <2>1, FS_EmptySet DEF ServerInit, ThreadsCountHandlers
<1>3. LimitInv
    <2>1. Spawning = {}
        BY DEF ServerInit, Spawning
    <2>2. Cardinality(Servers) \in Nat /\ Cardinality(Servers) # 0
        BY NetAssumption, FS_CardinalityType, FS_EmptySet
    <2> QED
        BY <2>1, <2>2, NetAssumption, FS_EmptySet DEF ServerInit, LimitInv
<1> QED
    BY <1>1, <1>2, <1>3 DEF Inv

(* The inductive invariant holds in every reachable state.                 *)
THEOREM Invariant == ServerSpec => []Inv
<1>1. Inv /\ [ServerNext]_serverVars => Inv'
    BY CountStep, TypeStep, LimitStep, LoopStep, HolderStep, OwnerStep, CrossStep
       DEF Inv, Ownership
<1> QED
    BY InvInit, <1>1, PTL DEF ServerSpec

(* The state of the server has its type; in particular the unsigned        *)
(* counter `threads' never goes below 0.                                   *)
THEOREM TypeCorrect == ServerSpec => []ServerTypeOK
<1>1. Inv => ServerTypeOK
    BY DEF Inv
<1> QED
    BY <1>1, Invariant, PTL

(* `threads' is the number of handlers that were counted and not ended.    *)
THEOREM CounterCorrect == ServerSpec => []ThreadsCountHandlers
<1>1. Inv => ThreadsCountHandlers
    BY DEF Inv
<1> QED
    BY <1>1, Invariant, PTL

(* With n accept loops there are at most max_con + n - 1 handlers.         *)
THEOREM LimitCorrect == ServerSpec => []ConnectionLimit
<1>1. Inv => ConnectionLimit
    BY SpawningFinite, NetAssumption DEF Inv, ServerTypeOK, LimitInv, ConnectionLimit
<1> QED
    BY <1>1, Invariant, PTL

(* No handler closes another connection, and none closes its own twice.    *)
THEOREM CloseCorrect == ServerSpec => []ClosesOwnConnection
<1>1. Inv => ClosesOwnConnection
    BY NetAssumption DEF Inv, Ownership, HolderInv, Held, Open, ClosesOwnConnection
<1> QED
    BY <1>1, Invariant, PTL

(* Every way through handle_client closes the connection.                  *)
THEOREM NoLeak == ServerSpec => []NoDescriptorLeak
<1>1. Inv => NoDescriptorLeak
    BY DEF Inv, Ownership, OwnerInv, Open, NoDescriptorLeak
<1> QED
    BY <1>1, Invariant, PTL

(* A handler that reaches another connection has closed its own first.     *)
THEOREM CrossTalkCause == ServerSpec => []CrossTalkOnlyAfterClose
<1>1. Inv => CrossTalkOnlyAfterClose
    BY DEF Inv
<1> QED
    BY <1>1, Invariant, PTL
=============================================================================
