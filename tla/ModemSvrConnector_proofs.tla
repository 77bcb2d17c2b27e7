---------------------- MODULE ModemSvrConnector_proofs ----------------------
(* Theorems about ModemSvrConnector, for any number of links. *)
EXTENDS ModemSvrConnector, TLAPS

USE LinksAssumption

\* Between the look at the connection and the step that forgets it, other
\* threads may change both the reference and the connection; what was seen
\* stays true because a connection never returns to its loop once it left it,
\* and only the connector's thread refers to new connections.
SeenDead == kpc = "clear" => ~MRunning(conn)

LEMMA InitInv == Init => TypeOK /\ SeenDead
BY DEF Init, TypeOK, SeenDead

LEMMA KThreadInv ==
  ASSUME TypeOK, SeenDead, KThread
  PROVE  TypeOK' /\ SeenDead'
<1> USE DEF TypeOK, SeenDead, KStep, hVars, mVars, qVars
<1>1. CASE KLoop
  BY <1>1 DEF KLoop
<1>2. CASE KConnect
  BY <1>2 DEF KConnect, HStep
<1>3. CASE KTest
  BY <1>3 DEF KTest
<1>4. CASE KMake
  BY <1>4 DEF KMake, MStep
<1>5. CASE KAssign
  BY <1>5 DEF KAssign
<1>6. CASE KCheck
  BY <1>6 DEF KCheck, MRunning, Runs
<1>7. CASE KClear
  BY <1>7 DEF KClear
<1>8. CASE KStop
  BY <1>8 DEF KStop
<1>9. CASE KJoined
  BY <1>9 DEF KJoined
<1> QED
  BY <1>1, <1>2, <1>3, <1>4, <1>5, <1>6, <1>7, <1>8, <1>9 DEF KThread

LEMMA HandlerInv ==
  ASSUME TypeOK, SeenDead, NEW l \in Links, HLost(l) \/ HThread(l)
  PROVE  TypeOK' /\ SeenDead'
<1> USE DEF TypeOK, SeenDead, MRunning, Runs, HStep, kVars, mVars, qVars
<1>1. CASE HLost(l)
  BY <1>1 DEF HLost
<1>2. CASE HJoined(l)
  BY <1>2 DEF HJoined
<1>3. CASE HCallback(l)
  BY <1>3 DEF HCallback
<1>4. CASE HStopConn(l)
  BY <1>4 DEF HStopConn, StopAsks
<1>5. CASE HJoinedConn(l)
  BY <1>5 DEF HJoinedConn
<1>6. CASE HClearConn(l)
  BY <1>6 DEF HClearConn
<1>7. CASE HClearSock(l)
  BY <1>7 DEF HClearSock
<1> QED
  BY <1>1, <1>2, <1>3, <1>4, <1>5, <1>6, <1>7 DEF HThread

LEMMA ConnectionInv ==
  ASSUME TypeOK, SeenDead, NEW l \in Links, MGetRequest(l) \/ MThread(l) \/ MCrash(l) \/ MExit(l)
  PROVE  TypeOK' /\ SeenDead'
<1> USE DEF TypeOK, SeenDead, MRunning, Runs, MStep, kVars, hVars, qVars
<1>1. CASE MGetRequest(l)
  BY <1>1 DEF MGetRequest
<1>2. CASE MPutReply(l)
  BY <1>2 DEF MPutReply
<1>3. CASE MLeaveLoop(l)
  BY <1>3 DEF MLeaveLoop
<1>4. CASE MExit(l)
  BY <1>4 DEF MExit
<1>5. CASE MCrash(l)
  BY <1>5 DEF MCrash
<1>6. CASE MTakePacket(l)
  BY <1>6 DEF MTakePacket, mVars
<1> QED
  BY <1>1, <1>2, <1>3, <1>4, <1>5, <1>6 DEF MThread

LEMMA NextInv == TypeOK /\ SeenDead /\ [Next]_vars => (TypeOK /\ SeenDead)'
<1> SUFFICES ASSUME TypeOK, SeenDead, [Next]_vars
             PROVE  TypeOK' /\ SeenDead'
  OBVIOUS
<1>1. CASE \E l \in Links : ReaderBlocks(l) \/ QueueFills(l) \/ QueueDrains(l) \/ WriterCrash(l)
  BY <1>1 DEF ReaderBlocks, QueueFills, QueueDrains, WriterCrash, TypeOK, SeenDead, MRunning, Runs,
              kVars, hVars, mVars
<1>2. CASE ParentStops
  BY <1>2 DEF ParentStops, TypeOK, SeenDead, MRunning, Runs, hVars, mVars, qVars
<1>3. CASE UNCHANGED vars
  BY <1>3 DEF vars, TypeOK, SeenDead, MRunning, Runs, kVars, hVars, mVars, qVars
<1> QED
  BY <1>1, <1>2, <1>3, KThreadInv, HandlerInv, ConnectionInv DEF Next

\* The references and positions of the threads keep their types.
THEOREM TypeCorrect == Spec => []TypeOK
  BY InitInv, NextInv, PTL DEF Spec

\* The connector's thread only gives up a connection that has left its loop,
\* although it looks at it and forgets it in two steps without a lock.
THEOREM ForgetsOnlyTheDead == Spec => GivesUpOnlyTheDead
<1>1. SeenDead /\ [Next]_vars => [kpc = "clear" /\ kpc' = "loop" => ~MRunning(conn)]_vars
  BY DEF SeenDead
<1> QED
  BY <1>1, InitInv, NextInv, PTL DEF Spec, GivesUpOnlyTheDead
=============================================================================
