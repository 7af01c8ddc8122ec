------------------------- MODULE ExitWatcherProofs --------------------------
(***************************************************************************)
(* Proofs about ExitWatcher: its types, that the replay misses no exit     *)
(* whose window was open when the past was queried, and that a replayed    *)
(* understated exit is challenged again.                                   *)
(*                                                                         *)
(* None of the three is inductive.  OpenExitsAreReplayed needs the exits   *)
(* that are still in the backlog, what the first block of the query was    *)
(* computed from, and that no exit is mined in the past; the challenge     *)
(* needs a connection that lives as long as the watch, because             *)
(* slashRevealed sends nothing without one; and all of them need that the  *)
(* handler runs once in a process, so that a second watch never starts     *)
(* over the replay of a first.                                             *)
(***************************************************************************)
EXTENDS ExitWatcher, TLAPS

(* connectedHandlers is emptied when the handler is taken, and the handler *)
(* is registered after onModuleInit: the watch starts at most once.        *)
HandlerRunsOnce ==
    /\ up \in {"boot", "init"} => handler = "unregistered"
    /\ handler # "taken" => watch = "off"

(* disconnect() takes the watch down with the connection.                  *)
WatchIsConnected == watch \in Watching => IsAvailable

(* The backlog is what a replay, connected or not, has left to do.         *)
BacklogIsReplayed == watch \notin {"replay", "orphaned", "failed"} => backlog = {}

(* The chain's past is fixed: no exit is mined at or below the block that  *)
(* a query answered at.                                                    *)
PastIsFixed ==
    /\ queriedAt <= block
    /\ \A e \in Exits : minedAt[e] <= block

(* getBlockNumber answered at or before the block of the query.            *)
LookbackIsKept == watch = "query" => lookFrom = 0 \/ lookFrom + Lookback <= block

OpenAtQuery(e) == Mined(e) /\ minedAt[e] <= queriedAt /\ queriedAt <= minedAt[e] + Window

(* Each open exit is handled, or is still in the backlog.                  *)
OpenExitsAreKnown ==
    watch \in {"replay", "subscribe", "live"} =>
        \A e \in Exits : OpenAtQuery(e) => e \in backlog \cup ingested

WatchInv ==
    /\ TypeOK
    /\ HandlerRunsOnce
    /\ WatchIsConnected
    /\ BacklogIsReplayed
    /\ PastIsFixed
    /\ LookbackIsKept
    /\ OpenExitsAreKnown

-----------------------------------------------------------------------------
(* The initial state satisfies the invariant.                              *)
LEMMA WatchInit == Init => WatchInv
BY WatcherAssumption
DEF Init, WatchInv, TypeOK, HandlerRunsOnce, WatchIsConnected, BacklogIsReplayed, PastIsFixed,
    LookbackIsKept, OpenExitsAreKnown, OpenAtQuery, Mined, Connecting, Watching, IsAvailable

(* Every step of the chain, the connection and the watch preserves it.     *)
LEMMA WatchStep == WatchInv /\ [Next]_vars => WatchInv'
<1> SUFFICES ASSUME WatchInv, [Next]_vars PROVE WatchInv'
  OBVIOUS
<1> USE WatcherAssumption DEF chainVars, connVars, watchVars, storeVars
<1>0. /\ TypeOK /\ HandlerRunsOnce /\ WatchIsConnected /\ BacklogIsReplayed
      /\ PastIsFixed /\ LookbackIsKept /\ OpenExitsAreKnown
  BY DEF WatchInv
<1>1. CASE Mine
  <2>1. TypeOK'
    BY <1>0, <1>1 DEF Mine, Mined, TypeOK, HandlerRunsOnce, Connecting, Watching
  <2>2. PastIsFixed'
    BY <1>0, <1>1 DEF Mine, Mined, PastIsFixed, TypeOK
  <2>3. LookbackIsKept'
    BY <1>0, <1>1 DEF Mine, Mined, LookbackIsKept, TypeOK
  <2>4. OpenExitsAreKnown'
    BY <1>0, <1>1 DEF Mine, Mined, OpenExitsAreKnown, OpenAtQuery, PastIsFixed,
      TypeOK
  <2>5. /\ HandlerRunsOnce' /\ WatchIsConnected' /\ BacklogIsReplayed'
    BY <1>0, <1>1 DEF Mine, HandlerRunsOnce, WatchIsConnected, IsAvailable,
      BacklogIsReplayed
  <2> QED
    BY <2>1, <2>2, <2>3, <2>4, <2>5 DEF WatchInv
<1>2. CASE ChainAnswers
  <2>1. TypeOK'
    BY <1>0, <1>2 DEF ChainAnswers, TypeOK, HandlerRunsOnce, Connecting, Watching
  <2>2. WatchIsConnected'
    BY <1>0, <1>2 DEF ChainAnswers, WatchIsConnected, Watching, IsAvailable,
      Connecting
  <2>3. /\ HandlerRunsOnce' /\ BacklogIsReplayed' /\ PastIsFixed'
       /\ LookbackIsKept' /\ OpenExitsAreKnown'
    BY <1>0, <1>2 DEF ChainAnswers, HandlerRunsOnce, BacklogIsReplayed,
      PastIsFixed, LookbackIsKept, OpenExitsAreKnown, OpenAtQuery, Mined
  <2> QED
    BY <2>1, <2>2, <2>3 DEF WatchInv
<1>3. CASE CMaxAnswers
  <2>1. TypeOK'
    BY <1>0, <1>3 DEF CMaxAnswers, TypeOK, HandlerRunsOnce, Connecting, Watching
  <2>2. WatchIsConnected'
    BY <1>0, <1>3 DEF CMaxAnswers, WatchIsConnected, Watching, IsAvailable,
      Connecting
  <2>3. /\ HandlerRunsOnce' /\ BacklogIsReplayed' /\ PastIsFixed'
       /\ LookbackIsKept' /\ OpenExitsAreKnown'
    BY <1>0, <1>3 DEF CMaxAnswers, HandlerRunsOnce, BacklogIsReplayed, PastIsFixed,
      LookbackIsKept, OpenExitsAreKnown, OpenAtQuery, Mined
  <2> QED
    BY <2>1, <2>2, <2>3 DEF WatchInv
<1>4. CASE KeysAnswer
  <2>1. TypeOK'
    BY <1>0, <1>4 DEF KeysAnswer, StartWatch, TypeOK, HandlerRunsOnce, Connecting,
      Watching
  <2>2. HandlerRunsOnce'
    BY <1>0, <1>4 DEF KeysAnswer, StartWatch, HandlerRunsOnce
  <2>3. WatchIsConnected'
    BY <1>0, <1>4 DEF KeysAnswer, StartWatch, WatchIsConnected, Watching,
      IsAvailable, Connecting
  <2>4. BacklogIsReplayed'
    BY <1>0, <1>4 DEF KeysAnswer, StartWatch, BacklogIsReplayed, HandlerRunsOnce
  <2>5. LookbackIsKept'
    BY <1>0, <1>4 DEF KeysAnswer, StartWatch, LookbackIsKept, TypeOK
  <2>6. OpenExitsAreKnown'
    BY <1>0, <1>4 DEF KeysAnswer, StartWatch, OpenExitsAreKnown, OpenAtQuery,
      Mined
  <2>7. PastIsFixed'
    BY <1>0, <1>4 DEF KeysAnswer, PastIsFixed
  <2> QED
    BY <2>1, <2>2, <2>3, <2>4, <2>5, <2>6, <2>7 DEF WatchInv
<1>5. CASE RetryFires
  <2>1. TypeOK'
    BY <1>0, <1>5 DEF RetryFires, TypeOK, HandlerRunsOnce, Connecting, Watching
  <2>2. WatchIsConnected'
    BY <1>0, <1>5 DEF RetryFires, WatchIsConnected, Watching, IsAvailable,
      Connecting
  <2>3. /\ HandlerRunsOnce' /\ BacklogIsReplayed' /\ PastIsFixed'
       /\ LookbackIsKept' /\ OpenExitsAreKnown'
    BY <1>0, <1>5 DEF RetryFires, HandlerRunsOnce, BacklogIsReplayed, PastIsFixed,
      LookbackIsKept, OpenExitsAreKnown, OpenAtQuery, Mined
  <2> QED
    BY <2>1, <2>2, <2>3 DEF WatchInv
<1>6. CASE ConnectFails
  <2>1. TypeOK'
    BY <1>0, <1>6 DEF ConnectFails, Disconnect, Connecting, TypeOK,
      HandlerRunsOnce, Watching
  <2>2. HandlerRunsOnce'
    BY <1>0, <1>6 DEF ConnectFails, Disconnect, Connecting, HandlerRunsOnce
  <2>3. WatchIsConnected'
    BY <1>0, <1>6 DEF ConnectFails, Disconnect, Connecting, WatchIsConnected,
      Watching, IsAvailable
  <2>4. BacklogIsReplayed'
    BY <1>0, <1>6 DEF ConnectFails, Disconnect, Connecting, BacklogIsReplayed,
      HandlerRunsOnce
  <2>5. LookbackIsKept'
    BY <1>0, <1>6 DEF ConnectFails, Disconnect, Connecting, LookbackIsKept, TypeOK
  <2>6. OpenExitsAreKnown'
    BY <1>0, <1>6 DEF ConnectFails, Disconnect, Connecting, OpenExitsAreKnown,
      OpenAtQuery, Mined
  <2>7. PastIsFixed'
    BY <1>0, <1>6 DEF ConnectFails, PastIsFixed
  <2> QED
    BY <2>1, <2>2, <2>3, <2>4, <2>5, <2>6, <2>7 DEF WatchInv
<1>7. CASE Misconfigured
  <2>1. TypeOK'
    BY <1>0, <1>7 DEF Misconfigured, Disconnect, TypeOK, HandlerRunsOnce,
      Connecting, Watching
  <2>2. HandlerRunsOnce'
    BY <1>0, <1>7 DEF Misconfigured, Disconnect, HandlerRunsOnce
  <2>3. WatchIsConnected'
    BY <1>0, <1>7 DEF Misconfigured, Disconnect, WatchIsConnected, Watching,
      IsAvailable, Connecting
  <2>4. BacklogIsReplayed'
    BY <1>0, <1>7 DEF Misconfigured, Disconnect, BacklogIsReplayed,
      HandlerRunsOnce
  <2>5. LookbackIsKept'
    BY <1>0, <1>7 DEF Misconfigured, Disconnect, LookbackIsKept, TypeOK
  <2>6. OpenExitsAreKnown'
    BY <1>0, <1>7 DEF Misconfigured, Disconnect, OpenExitsAreKnown, OpenAtQuery,
      Mined
  <2>7. PastIsFixed'
    BY <1>0, <1>7 DEF Misconfigured, PastIsFixed
  <2> QED
    BY <2>1, <2>2, <2>3, <2>4, <2>5, <2>6, <2>7 DEF WatchInv
<1>8. CASE Bootstrap
  <2>1. TypeOK'
    BY <1>0, <1>8 DEF Bootstrap, StartWatch, TypeOK, HandlerRunsOnce, Connecting,
      Watching
  <2>2. HandlerRunsOnce'
    BY <1>0, <1>8 DEF Bootstrap, StartWatch, HandlerRunsOnce
  <2>3. WatchIsConnected'
    BY <1>0, <1>8 DEF Bootstrap, StartWatch, WatchIsConnected, Watching,
      IsAvailable, Connecting
  <2>4. BacklogIsReplayed'
    BY <1>0, <1>8 DEF Bootstrap, StartWatch, BacklogIsReplayed, HandlerRunsOnce
  <2>5. LookbackIsKept'
    BY <1>0, <1>8 DEF Bootstrap, StartWatch, LookbackIsKept, TypeOK
  <2>6. OpenExitsAreKnown'
    BY <1>0, <1>8 DEF Bootstrap, StartWatch, OpenExitsAreKnown, OpenAtQuery, Mined
  <2>7. PastIsFixed'
    BY <1>0, <1>8 DEF Bootstrap, PastIsFixed
  <2> QED
    BY <2>1, <2>2, <2>3, <2>4, <2>5, <2>6, <2>7 DEF WatchInv
<1>9. CASE HeightAnswers
  <2>1. TypeOK'
    BY <1>0, <1>9 DEF HeightAnswers, LookFrom, Min0, TypeOK, HandlerRunsOnce,
      Connecting, Watching
  <2>2. HandlerRunsOnce'
    BY <1>0, <1>9 DEF HeightAnswers, LookFrom, Min0, HandlerRunsOnce
  <2>3. WatchIsConnected'
    BY <1>0, <1>9 DEF HeightAnswers, LookFrom, Min0, WatchIsConnected, Watching,
      IsAvailable, Connecting
  <2>4. BacklogIsReplayed'
    BY <1>0, <1>9 DEF HeightAnswers, LookFrom, Min0, BacklogIsReplayed,
      HandlerRunsOnce
  <2>5. LookbackIsKept'
    BY <1>0, <1>9 DEF HeightAnswers, LookFrom, Min0, LookbackIsKept, TypeOK
  <2>6. OpenExitsAreKnown'
    BY <1>0, <1>9 DEF HeightAnswers, LookFrom, Min0, OpenExitsAreKnown,
      OpenAtQuery, Mined
  <2>7. PastIsFixed'
    BY <1>0, <1>9 DEF HeightAnswers, PastIsFixed
  <2> QED
    BY <2>1, <2>2, <2>3, <2>4, <2>5, <2>6, <2>7 DEF WatchInv
<1>10. CASE QueryAnswers
  <2>1. TypeOK'
    BY <1>0, <1>10 DEF QueryAnswers, ExitsIn, TypeOK, HandlerRunsOnce, Connecting,
      Watching
  <2>2. HandlerRunsOnce'
    BY <1>0, <1>10 DEF QueryAnswers, ExitsIn, HandlerRunsOnce
  <2>3. WatchIsConnected'
    BY <1>0, <1>10 DEF QueryAnswers, ExitsIn, WatchIsConnected, Watching,
      IsAvailable, Connecting
  <2>4. BacklogIsReplayed'
    BY <1>0, <1>10 DEF QueryAnswers, ExitsIn, BacklogIsReplayed, HandlerRunsOnce
  <2>5. PastIsFixed'
    BY <1>0, <1>10 DEF QueryAnswers, ExitsIn, PastIsFixed, TypeOK
  <2>6. LookbackIsKept'
    BY <1>0, <1>10 DEF QueryAnswers, ExitsIn, LookbackIsKept, TypeOK
  <2>7. OpenExitsAreKnown'
    BY <1>0, <1>10 DEF QueryAnswers, ExitsIn, OpenExitsAreKnown, OpenAtQuery,
      Mined, TypeOK, LookbackIsKept
  <2> QED
    BY <2>1, <2>2, <2>3, <2>4, <2>5, <2>6, <2>7 DEF WatchInv
<1>11. CASE WatchFails
  <2>1. TypeOK'
    BY <1>0, <1>11 DEF WatchFails, TypeOK, HandlerRunsOnce, Connecting, Watching
  <2>2. HandlerRunsOnce'
    BY <1>0, <1>11 DEF WatchFails, HandlerRunsOnce
  <2>3. WatchIsConnected'
    BY <1>0, <1>11 DEF WatchFails, WatchIsConnected, Watching, IsAvailable,
      Connecting
  <2>4. BacklogIsReplayed'
    BY <1>0, <1>11 DEF WatchFails, BacklogIsReplayed, HandlerRunsOnce
  <2>5. LookbackIsKept'
    BY <1>0, <1>11 DEF WatchFails, LookbackIsKept, TypeOK
  <2>6. OpenExitsAreKnown'
    BY <1>0, <1>11 DEF WatchFails, OpenExitsAreKnown, OpenAtQuery, Mined
  <2>7. PastIsFixed'
    BY <1>0, <1>11 DEF WatchFails, PastIsFixed
  <2> QED
    BY <2>1, <2>2, <2>3, <2>4, <2>5, <2>6, <2>7 DEF WatchInv
<1>12. CASE ReplayNext
  <2>1. TypeOK'
    BY <1>0, <1>12 DEF ReplayNext, Ingest, TypeOK, HandlerRunsOnce, Connecting,
      Watching
  <2>2. BacklogIsReplayed'
    BY <1>0, <1>12 DEF ReplayNext, Ingest, BacklogIsReplayed, HandlerRunsOnce
  <2>3. OpenExitsAreKnown'
    BY <1>0, <1>12 DEF ReplayNext, Ingest, OpenExitsAreKnown, OpenAtQuery, Mined
  <2>4. /\ HandlerRunsOnce' /\ WatchIsConnected' /\ PastIsFixed' /\ LookbackIsKept'
    BY <1>0, <1>12 DEF ReplayNext, Ingest, HandlerRunsOnce, WatchIsConnected,
      IsAvailable, PastIsFixed, LookbackIsKept
  <2> QED
    BY <2>1, <2>2, <2>3, <2>4 DEF WatchInv
<1>13. ASSUME NEW e \in Exits, SlashSettles(e) PROVE WatchInv'
  <2>1. TypeOK'
    BY <1>0, <1>13 DEF SlashSettles, TypeOK, HandlerRunsOnce, Connecting, Watching
  <2>2. /\ HandlerRunsOnce' /\ WatchIsConnected' /\ BacklogIsReplayed' /\ PastIsFixed'
       /\ LookbackIsKept' /\ OpenExitsAreKnown'
    BY <1>0, <1>13 DEF SlashSettles, HandlerRunsOnce, WatchIsConnected,
      IsAvailable, BacklogIsReplayed, PastIsFixed, LookbackIsKept,
      OpenExitsAreKnown, OpenAtQuery, Mined
  <2> QED
    BY <2>1, <2>2 DEF WatchInv
<1>14. CASE ReplayEnds
  <2>1. TypeOK'
    BY <1>0, <1>14 DEF ReplayEnds, TypeOK, HandlerRunsOnce, Connecting, Watching
  <2>2. HandlerRunsOnce'
    BY <1>0, <1>14 DEF ReplayEnds, HandlerRunsOnce
  <2>3. WatchIsConnected'
    BY <1>0, <1>14 DEF ReplayEnds, WatchIsConnected, Watching, IsAvailable,
      Connecting
  <2>4. BacklogIsReplayed'
    BY <1>0, <1>14 DEF ReplayEnds, BacklogIsReplayed, HandlerRunsOnce
  <2>5. LookbackIsKept'
    BY <1>0, <1>14 DEF ReplayEnds, LookbackIsKept, TypeOK
  <2>6. OpenExitsAreKnown'
    BY <1>0, <1>14 DEF ReplayEnds, OpenExitsAreKnown, OpenAtQuery, Mined
  <2>7. PastIsFixed'
    BY <1>0, <1>14 DEF ReplayEnds, PastIsFixed
  <2> QED
    BY <2>1, <2>2, <2>3, <2>4, <2>5, <2>6, <2>7 DEF WatchInv
<1>15. CASE OrphanEnds
  <2>1. TypeOK'
    BY <1>0, <1>15 DEF OrphanEnds, TypeOK, HandlerRunsOnce, Connecting, Watching
  <2>2. HandlerRunsOnce'
    BY <1>0, <1>15 DEF OrphanEnds, HandlerRunsOnce
  <2>3. WatchIsConnected'
    BY <1>0, <1>15 DEF OrphanEnds, WatchIsConnected, Watching, IsAvailable,
      Connecting
  <2>4. BacklogIsReplayed'
    BY <1>0, <1>15 DEF OrphanEnds, BacklogIsReplayed, HandlerRunsOnce
  <2>5. LookbackIsKept'
    BY <1>0, <1>15 DEF OrphanEnds, LookbackIsKept, TypeOK
  <2>6. OpenExitsAreKnown'
    BY <1>0, <1>15 DEF OrphanEnds, OpenExitsAreKnown, OpenAtQuery, Mined
  <2>7. PastIsFixed'
    BY <1>0, <1>15 DEF OrphanEnds, PastIsFixed
  <2> QED
    BY <2>1, <2>2, <2>3, <2>4, <2>5, <2>6, <2>7 DEF WatchInv
<1>16. CASE Subscribe
  <2>1. TypeOK'
    BY <1>0, <1>16 DEF Subscribe, TypeOK, HandlerRunsOnce, Connecting, Watching
  <2>2. HandlerRunsOnce'
    BY <1>0, <1>16 DEF Subscribe, HandlerRunsOnce
  <2>3. WatchIsConnected'
    BY <1>0, <1>16 DEF Subscribe, WatchIsConnected, Watching, IsAvailable,
      Connecting
  <2>4. BacklogIsReplayed'
    BY <1>0, <1>16 DEF Subscribe, BacklogIsReplayed, HandlerRunsOnce
  <2>5. LookbackIsKept'
    BY <1>0, <1>16 DEF Subscribe, LookbackIsKept, TypeOK
  <2>6. OpenExitsAreKnown'
    BY <1>0, <1>16 DEF Subscribe, OpenExitsAreKnown, OpenAtQuery, Mined
  <2>7. PastIsFixed'
    BY <1>0, <1>16 DEF Subscribe, PastIsFixed
  <2> QED
    BY <2>1, <2>2, <2>3, <2>4, <2>5, <2>6, <2>7 DEF WatchInv
<1>17. CASE Poll
  <2>1. TypeOK'
    BY <1>0, <1>17 DEF Poll, Ingest, ExitsIn, TypeOK, HandlerRunsOnce, Connecting,
      Watching
  <2>2. OpenExitsAreKnown'
    BY <1>0, <1>17 DEF Poll, Ingest, ExitsIn, OpenExitsAreKnown, OpenAtQuery,
      Mined
  <2>3. /\ HandlerRunsOnce' /\ WatchIsConnected' /\ BacklogIsReplayed'
       /\ PastIsFixed' /\ LookbackIsKept'
    BY <1>0, <1>17 DEF Poll, Ingest, HandlerRunsOnce, WatchIsConnected,
      IsAvailable, BacklogIsReplayed, PastIsFixed, LookbackIsKept
  <2> QED
    BY <2>1, <2>2, <2>3 DEF WatchInv
<1>18. CASE Restart
  <2>1. TypeOK'
    BY <1>0, <1>18 DEF Restart, TypeOK, HandlerRunsOnce, Connecting, Watching
  <2>2. HandlerRunsOnce'
    BY <1>0, <1>18 DEF Restart, HandlerRunsOnce
  <2>3. WatchIsConnected'
    BY <1>0, <1>18 DEF Restart, WatchIsConnected, Watching, IsAvailable,
      Connecting
  <2>4. BacklogIsReplayed'
    BY <1>0, <1>18 DEF Restart, BacklogIsReplayed, HandlerRunsOnce
  <2>5. PastIsFixed'
    BY <1>0, <1>18 DEF Restart, PastIsFixed, TypeOK
  <2>6. LookbackIsKept'
    BY <1>0, <1>18 DEF Restart, LookbackIsKept, TypeOK
  <2>7. OpenExitsAreKnown'
    BY <1>0, <1>18 DEF Restart, OpenExitsAreKnown, OpenAtQuery, Mined
  <2> QED
    BY <2>1, <2>2, <2>3, <2>4, <2>5, <2>6, <2>7 DEF WatchInv
<1>19. CASE UNCHANGED vars
  BY <1>0, <1>19
  DEF vars, WatchInv, TypeOK, HandlerRunsOnce, WatchIsConnected, BacklogIsReplayed,
      PastIsFixed, LookbackIsKept, OpenExitsAreKnown, OpenAtQuery, Mined, IsAvailable
<1> QED
  BY <1>1, <1>2, <1>3, <1>4, <1>5, <1>6, <1>7, <1>8, <1>9, <1>10, <1>11, <1>12,
     <1>13, <1>14, <1>15, <1>16, <1>17, <1>18, <1>19
  DEF Next, Progress

(* The invariant holds in every reachable state.                           *)
LEMMA WatchInvariant == Spec => []WatchInv
BY WatchInit, WatchStep, PTL DEF Spec

-----------------------------------------------------------------------------
(* Every variable keeps its type, and a past exit is awaited only while a  *)
(* replay is under way.                                                    *)
THEOREM WatcherTypeTheorem == Spec => []TypeOK
<1>1. WatchInv => TypeOK
  BY DEF WatchInv
<1>2. QED
  BY <1>1, WatchInvariant, PTL

(* For every lookback that is at least the challenge window: whatever      *)
(* failed, retried or restarted before, a watch that reached its           *)
(* subscription has handled every exit that was open when it queried.      *)
THEOREM ReplayTheorem == Spec => []OpenExitsAreReplayed
<1>1. WatchInv => OpenExitsAreReplayed
  BY DEF WatchInv, OpenExitsAreReplayed, OpenExitsAreKnown, BacklogIsReplayed, OpenAtQuery
<1>2. QED
  BY <1>1, WatchInvariant, PTL

(* A replay takes an understated exit out of the backlog only with a slash *)
(* sent or mined: the connection it needs outlives the replay.             *)
THEOREM ChallengeTheorem == Spec => ReplayChallengesAgain
<1> DEFINE Challenged ==
        \A e \in Understated :
            e \in backlog /\ e \notin backlog' /\ watch' = "replay"
                => slash'[e] \in {"sent", "mined"}
<1>1. WatchInv /\ [Next]_vars => [Challenged]_vars
  <2> SUFFICES ASSUME WatchInv, Next, NEW e \in Understated,
                      e \in backlog, e \notin backlog', watch' = "replay"
               PROVE  slash'[e] \in {"sent", "mined"}
    OBVIOUS
  <2>1. ReplayNext
    BY DEF WatchInv, BacklogIsReplayed, Next, Progress, Mine, ChainAnswers, CMaxAnswers,
       KeysAnswer, RetryFires, Bootstrap, HeightAnswers, QueryAnswers, ReplayEnds, OrphanEnds,
       Subscribe, Poll, SlashSettles, ConnectFails, Misconfigured, WatchFails, Restart,
       chainVars, connVars, watchVars, storeVars, StartWatch
  <2>2. watch = "replay" /\ IsAvailable
    BY <2>1 DEF WatchInv, WatchIsConnected, Watching, ReplayNext
  <2>3. e \in Exits /\ slash' = [f \in Exits |->
            IF f \in {e} \cap Understated /\ slash[f] # "mined" THEN "sent" ELSE slash[f]]
    BY <2>1, <2>2, WatcherAssumption DEF ReplayNext, Ingest
  <2>4. QED
    BY <2>3
<1>2. QED
  BY <1>1, WatchInvariant, PTL DEF Spec, ReplayChallengesAgain
=============================================================================
