-------------------------- MODULE EsSessionsProofs --------------------------
(***************************************************************************)
(* Safety of EsSessions, proved for any number of clients and of requests  *)
(* and any TTL, provided a query cannot outlast the TTL (TimeAssumption).  *)
(***************************************************************************)
EXTENDS EsSessions, TLAPS

(* A task at an await holds a client. *)
HoldsClient ==
    \A t \in Tasks :
        task[t] \in {"connecting", "querying"} \cup ClosingPoints => using[t] \in Clients

(* The client of a connect is open, not stored yet, and nobody else's. *)
ConnectOwns ==
    \A h \in Handlers : task[h] = "connecting" =>
        /\ client[using[h]] = "open"
        /\ using[h] \notin store
        /\ \A k \in Handlers : task[k] = "connecting" /\ using[k] = using[h] => k = h

(* A client a task is closing is in the closing state. *)
ClosesClosing == \A t \in Tasks : \A c \in Clients : Closes(t, c) => client[c] = "closing"

(* A query's session has been idle for no longer than the query lasts, or a *)
(* disconnect ended it.                                                     *)
QueryLease ==
    \A h \in Handlers : task[h] = "querying" =>
        \/ using[h] \in store /\ idle[using[h]] <= age[h]
        \/ /\ using[h] \notin store
           /\ client[using[h]] \notin {"none", "open"}
           /\ endedBy[using[h]] = "disconnect"

(* What the sweeper still lists was stored once: it is expired, or ended. *)
SweepListed ==
    \A c \in sweepQueue :
        \/ c \in store /\ Expired(c)
        \/ c \notin store /\ client[c] \notin {"none", "open"}

(* After the shutdown began no request is left. *)
Drained == task[Lifespan] # "serving" => \A h \in Handlers : task[h] = "idle"

(* A shutdown that ended closed the sessions it found. *)
Emptied == task[Lifespan] = "stopped" => store = {}

(* An open client nobody has was dropped by a garbled connect, and a closing *)
(* nobody awaits raised or was cancelled.                                    *)
OpenIsOwned ==
    \A c \in Clients : client[c] = "open" => Owned(c) \/ fault[c] = "garbled"

ClosingIsAwaited ==
    \A c \in Clients :
        client[c] = "closing" => Awaited(c) \/ fault[c] \in {"raised", "cancelled"}

(* Who has a client at fault?  No session, no connect and no closing. *)
Faultless ==
    \A c \in Clients : fault[c] # "none" =>
        /\ client[c] # "none"
        /\ c \notin store
        /\ \A h \in Handlers : ~(task[h] = "connecting" /\ using[h] = c)
        /\ ~Awaited(c)

(* The shutdown closes what it ended itself, and failed where that raised. *)
Halts ==
    /\ task[Lifespan] = "halting" => endedBy[using[Lifespan]] = "shutdown"
    /\ task[Lifespan] = "failed" => ShutdownRaised

IInv ==
    /\ TypeOK
    /\ StoredIsOpen
    /\ HoldsClient
    /\ ConnectOwns
    /\ ClosesClosing
    /\ ClosedOnce
    /\ OpenIsOwned
    /\ ClosingIsAwaited
    /\ QueryLease
    /\ SweepListed
    /\ Drained
    /\ Emptied
    /\ Faultless
    /\ Halts

-----------------------------------------------------------------------------
(* The clients once the client the sweeper, or the shutdown, was closing is *)
(* closed.                                                                  *)
AfterSweeper == IF task[Sweeper] = "reaping" THEN AfterClose(Sweeper) ELSE client
AfterLifespan == IF task[Lifespan] = "halting" THEN AfterClose(Lifespan) ELSE client

(* What a list of the sweeper may hold. *)
Listed(queue) ==
    \A c \in queue :
        \/ c \in store /\ Expired(c)
        \/ c \notin store /\ client[c] \notin {"none", "open"}

(* A handler that answers without having changed a session or a client: *)
(* the outcomes of a query, and the requests that end where they began. *)
LEMMA AnswerInv ==
  ASSUME IInv,
         NEW h \in Handlers,
         NEW r \in Replies,
         task[h] \in {"idle", "querying"},
         Respond(h, r),
         UNCHANGED <<sessionVars, clientVars, sweepVars>>
  PROVE  IInv'
<1> USE TasksAssumption DEF Tasks, ClosingPoints, Closes, Awaited, AfterClose,
          clientVars, Respond, Leave, sessionVars, sweepVars
<1>1. TypeOK'
  BY TimeAssumption, RequestsAssumption DEF IInv, TypeOK, ClientStates, Faults, HandlerPoints, SweeperPoints, LifespanPoints, Replies, Causes, NoReply, Reply
<1>2. StoredIsOpen'
  BY DEF IInv, TypeOK, StoredIsOpen, ConnectOwns, HoldsClient, ClosesClosing
<1>3. HoldsClient'
  BY DEF IInv, TypeOK, HoldsClient
<1>4. ConnectOwns'
  BY DEF IInv, TypeOK, ConnectOwns, StoredIsOpen, HoldsClient, ClosesClosing
<1>5. ClosesClosing'
  BY DEF IInv, TypeOK, ClosesClosing, ClosedOnce, ConnectOwns, StoredIsOpen, HoldsClient
<1>6. ClosedOnce'
  BY DEF IInv, TypeOK, ClosedOnce, ClosesClosing, ConnectOwns, StoredIsOpen, HoldsClient
<1>7. OpenIsOwned'
  BY DEF IInv, TypeOK, OpenIsOwned, Owned, HoldsClient, StoredIsOpen
<1>8. ClosingIsAwaited'
  BY DEF IInv, TypeOK, ClosingIsAwaited, Awaited, HoldsClient, ClosedOnce, ConnectOwns
<1>9. QueryLease'
  BY TimeAssumption DEF IInv, TypeOK, QueryLease, StoredIsOpen, HoldsClient, ConnectOwns, ClosesClosing, SweepListed, Drained, Expired
<1>10. SweepListed'
  BY TimeAssumption DEF IInv, TypeOK, SweepListed, ConnectOwns, HoldsClient, StoredIsOpen, ClosesClosing, Expired
<1>11. Drained'
  BY DEF IInv, TypeOK, Drained
<1>12. Emptied'
  BY DEF IInv, TypeOK, Emptied, Drained
<1>13. Faultless'
  BY DEF IInv, TypeOK, Faultless, HoldsClient, ConnectOwns, StoredIsOpen, ClosesClosing, ClosedOnce
<1>14. Halts'
  BY DEF IInv, TypeOK, Halts, ShutdownRaised, HoldsClient, Faultless
<1> QED  BY <1>1, <1>2, <1>3, <1>4, <1>5, <1>6, <1>7, <1>8, <1>9, <1>10, <1>11, <1>12,
            <1>13, <1>14 DEF IInv

(* A handler whose closing of a client ended, well or badly. *)
LEMMA HandlerClosedInv ==
  ASSUME IInv,
         NEW h \in Handlers,
         NEW r \in Replies,
         task[h] \in {"aborting", "removing"},
         Closed(h) \/ CloseRaised(h),
         Respond(h, r),
         UNCHANGED <<sessionVars, sweepVars>>
  PROVE  IInv'
<1> USE TasksAssumption DEF Tasks, ClosingPoints, Closes, Awaited, AfterClose, Closed,
          clientVars, CloseRaised, Respond, Leave, sessionVars, sweepVars
<1>1. TypeOK'
  BY SMTT(30), TimeAssumption, RequestsAssumption
     DEF HoldsClient, IInv, TypeOK, ClientStates, Faults, HandlerPoints, SweeperPoints, LifespanPoints, Replies, Causes, NoReply, Reply
<1>2. StoredIsOpen'
  BY DEF IInv, TypeOK, StoredIsOpen, ConnectOwns, HoldsClient, ClosesClosing
<1>3. HoldsClient'
  BY DEF IInv, TypeOK, HoldsClient
<1>4. ConnectOwns'
  BY DEF IInv, TypeOK, ConnectOwns, StoredIsOpen, HoldsClient, ClosesClosing
<1>5. ClosesClosing'
  BY DEF IInv, TypeOK, ClosesClosing, ClosedOnce, ConnectOwns, StoredIsOpen, HoldsClient
<1>6. ClosedOnce'
  BY DEF IInv, TypeOK, ClosedOnce, ClosesClosing, ConnectOwns, StoredIsOpen, HoldsClient
<1>7. OpenIsOwned'
  BY DEF IInv, TypeOK, OpenIsOwned, Owned, HoldsClient, StoredIsOpen, ClosesClosing
<1>8. ClosingIsAwaited'
  BY DEF IInv, TypeOK, ClosingIsAwaited, Awaited, HoldsClient, ClosedOnce, ConnectOwns
<1>9. QueryLease'
  BY TimeAssumption DEF IInv, TypeOK, QueryLease, StoredIsOpen, HoldsClient, ConnectOwns, ClosesClosing, SweepListed, Drained, Expired
<1>10. SweepListed'
  BY TimeAssumption DEF IInv, TypeOK, SweepListed, ConnectOwns, HoldsClient, StoredIsOpen, ClosesClosing, Expired
<1>11. Drained'
  BY DEF IInv, TypeOK, Drained
<1>12. Emptied'
  BY DEF IInv, TypeOK, Emptied, Drained
<1>13. Faultless'
  <2>1. PICK g \in Clients : g = using[h] /\ client[g] = "closing" /\ Closes(h, g)
    BY DEF IInv, HoldsClient, ClosesClosing
  <2>2. g \notin store /\ \A k \in Handlers : ~(task[k] = "connecting" /\ using[k] = g)
    BY <2>1 DEF IInv, StoredIsOpen, ConnectOwns
  <2>3. \A t \in Tasks : Closes(t, g) => t = h
    BY <2>1 DEF IInv, ClosedOnce
  <2>4. \A t \in Tasks : \A c \in Clients : Closes(t, c)' => Closes(t, c) /\ t # h
    BY DEF IInv, TypeOK
  <2>5. \A k \in Handlers : task'[k] = "connecting" => task[k] = "connecting" /\ using'[k] = using[k]
    BY DEF IInv, TypeOK
  <2>6. \A c \in Clients : c # g => fault'[c] = fault[c] /\ client'[c] = client[c]
    BY <2>1 DEF IInv, TypeOK
  <2>7. client'[g] # "none"
    BY <2>1 DEF IInv, TypeOK
  <2> QED  BY <2>1, <2>2, <2>3, <2>4, <2>5, <2>6, <2>7 DEF IInv, Faultless
<1>14. Halts'
  BY DEF IInv, TypeOK, Halts, ShutdownRaised, HoldsClient, Faultless
<1> QED  BY <1>1, <1>2, <1>3, <1>4, <1>5, <1>6, <1>7, <1>8, <1>9, <1>10, <1>11, <1>12,
            <1>13, <1>14 DEF IInv

LEMMA ConnectBeginInv ==
  ASSUME IInv,
         NEW h \in Handlers,
         NEW c \in Clients,
         ConnectBegin(h, c)
  PROVE  IInv'
<1> USE TasksAssumption DEF Tasks, ClosingPoints, Closes, Awaited, AfterClose,
          clientVars, ConnectBegin, Arrives, sessionVars, sweepVars
<1>1. TypeOK'
  BY TimeAssumption, RequestsAssumption DEF IInv, TypeOK, ClientStates, Faults, HandlerPoints, SweeperPoints, LifespanPoints, Replies, Causes, NoReply, Reply
<1>2. StoredIsOpen'
  BY DEF IInv, TypeOK, StoredIsOpen, ConnectOwns, HoldsClient, ClosesClosing
<1>3. HoldsClient'
  BY DEF IInv, TypeOK, HoldsClient
<1>4. ConnectOwns'
  BY DEF IInv, TypeOK, ConnectOwns, StoredIsOpen, HoldsClient, ClosesClosing
<1>5. ClosesClosing'
  BY DEF IInv, TypeOK, ClosesClosing, ClosedOnce, ConnectOwns, StoredIsOpen, HoldsClient
<1>6. ClosedOnce'
  BY DEF IInv, TypeOK, ClosedOnce, ClosesClosing, ConnectOwns, StoredIsOpen, HoldsClient
<1>7. OpenIsOwned'
  BY DEF IInv, TypeOK, OpenIsOwned, Owned, HoldsClient, StoredIsOpen
<1>8. ClosingIsAwaited'
  BY DEF IInv, TypeOK, ClosingIsAwaited, Awaited, HoldsClient, ClosedOnce, ConnectOwns
<1>9. QueryLease'
  BY TimeAssumption DEF IInv, TypeOK, QueryLease, StoredIsOpen, HoldsClient, ConnectOwns, ClosesClosing, SweepListed, Drained, Expired
<1>10. SweepListed'
  BY TimeAssumption DEF IInv, TypeOK, SweepListed, ConnectOwns, HoldsClient, StoredIsOpen, ClosesClosing, Expired
<1>11. Drained'
  BY DEF IInv, TypeOK, Drained
<1>12. Emptied'
  BY DEF IInv, TypeOK, Emptied, Drained
<1>13. Faultless'
  BY DEF IInv, TypeOK, Faultless, HoldsClient, ConnectOwns, StoredIsOpen, ClosesClosing, ClosedOnce
<1>14. Halts'
  BY DEF IInv, TypeOK, Halts, ShutdownRaised, HoldsClient, Faultless
<1> QED  BY <1>1, <1>2, <1>3, <1>4, <1>5, <1>6, <1>7, <1>8, <1>9, <1>10, <1>11, <1>12,
            <1>13, <1>14 DEF IInv

LEMMA ConnectOkInv ==
  ASSUME IInv,
         NEW h \in Handlers,
         ConnectOk(h)
  PROVE  IInv'
<1> USE TasksAssumption DEF Tasks, ClosingPoints, Closes, Awaited, AfterClose,
          clientVars, ConnectOk, StoreCreate, Respond, Leave, sweepVars
<1>1. TypeOK'
  BY SMTT(30), TimeAssumption, RequestsAssumption
     DEF HoldsClient, IInv, TypeOK, ClientStates, Faults, HandlerPoints, SweeperPoints, LifespanPoints, Replies, Causes, NoReply, Reply
<1>2. StoredIsOpen'
  BY DEF IInv, TypeOK, StoredIsOpen, ConnectOwns, HoldsClient, ClosesClosing
<1>3. HoldsClient'
  BY DEF IInv, TypeOK, HoldsClient
<1>4. ConnectOwns'
  BY DEF IInv, TypeOK, ConnectOwns, StoredIsOpen, HoldsClient, ClosesClosing
<1>5. ClosesClosing'
  BY DEF IInv, TypeOK, ClosesClosing, ClosedOnce, ConnectOwns, StoredIsOpen, HoldsClient
<1>6. ClosedOnce'
  BY DEF IInv, TypeOK, ClosedOnce, ClosesClosing, ConnectOwns, StoredIsOpen, HoldsClient
<1>7. OpenIsOwned'
  BY DEF IInv, TypeOK, OpenIsOwned, Owned, HoldsClient, StoredIsOpen
<1>8. ClosingIsAwaited'
  BY DEF IInv, TypeOK, ClosingIsAwaited, Awaited, HoldsClient, ClosedOnce, ConnectOwns
<1>9. QueryLease'
  BY TimeAssumption DEF IInv, TypeOK, QueryLease, StoredIsOpen, HoldsClient, ConnectOwns, ClosesClosing, SweepListed, Drained, Expired
<1>10. SweepListed'
  BY TimeAssumption DEF IInv, TypeOK, SweepListed, ConnectOwns, HoldsClient, StoredIsOpen, ClosesClosing, Expired
<1>11. Drained'
  BY DEF IInv, TypeOK, Drained
<1>12. Emptied'
  BY DEF IInv, TypeOK, Emptied, Drained
<1>13. Faultless'
  BY DEF IInv, TypeOK, Faultless, HoldsClient, ConnectOwns, StoredIsOpen, ClosesClosing, ClosedOnce
<1>14. Halts'
  BY DEF IInv, TypeOK, Halts, ShutdownRaised, HoldsClient, Faultless
<1> QED  BY <1>1, <1>2, <1>3, <1>4, <1>5, <1>6, <1>7, <1>8, <1>9, <1>10, <1>11, <1>12,
            <1>13, <1>14 DEF IInv

LEMMA ConnectEsErrorInv ==
  ASSUME IInv,
         NEW h \in Handlers,
         ConnectEsError(h)
  PROVE  IInv'
<1> USE TasksAssumption DEF Tasks, ClosingPoints, Closes, Awaited, AfterClose,
          clientVars, ConnectEsError, sessionVars, handlerVars, sweepVars
<1>1. TypeOK'
  BY TimeAssumption, RequestsAssumption DEF IInv, TypeOK, ClientStates, Faults, HandlerPoints, SweeperPoints, LifespanPoints, Replies, Causes, NoReply, Reply
<1>2. StoredIsOpen'
  BY DEF IInv, TypeOK, StoredIsOpen, ConnectOwns, HoldsClient, ClosesClosing
<1>3. HoldsClient'
  BY DEF IInv, TypeOK, HoldsClient
<1>4. ConnectOwns'
  BY DEF IInv, TypeOK, ConnectOwns, StoredIsOpen, HoldsClient, ClosesClosing
<1>5. ClosesClosing'
  BY DEF IInv, TypeOK, ClosesClosing, ClosedOnce, ConnectOwns, StoredIsOpen, HoldsClient
<1>6. ClosedOnce'
  BY DEF IInv, TypeOK, ClosedOnce, ClosesClosing, ConnectOwns, StoredIsOpen, HoldsClient
<1>7. OpenIsOwned'
  BY DEF IInv, TypeOK, OpenIsOwned, Owned, HoldsClient, StoredIsOpen
<1>8. ClosingIsAwaited'
  BY DEF IInv, TypeOK, ClosingIsAwaited, Awaited, HoldsClient, ClosedOnce, ConnectOwns
<1>9. QueryLease'
  BY TimeAssumption DEF IInv, TypeOK, QueryLease, StoredIsOpen, HoldsClient, ConnectOwns, ClosesClosing, SweepListed, Drained, Expired
<1>10. SweepListed'
  BY TimeAssumption DEF IInv, TypeOK, SweepListed, ConnectOwns, HoldsClient, StoredIsOpen, ClosesClosing, Expired
<1>11. Drained'
  BY DEF IInv, TypeOK, Drained
<1>12. Emptied'
  BY DEF IInv, TypeOK, Emptied, Drained
<1>13. Faultless'
  BY DEF IInv, TypeOK, Faultless, HoldsClient, ConnectOwns, StoredIsOpen, ClosesClosing, ClosedOnce
<1>14. Halts'
  BY DEF IInv, TypeOK, Halts, ShutdownRaised, HoldsClient, Faultless
<1> QED  BY <1>1, <1>2, <1>3, <1>4, <1>5, <1>6, <1>7, <1>8, <1>9, <1>10, <1>11, <1>12,
            <1>13, <1>14 DEF IInv

LEMMA ConnectGarbageInv ==
  ASSUME IInv,
         NEW h \in Handlers,
         ConnectGarbage(h)
  PROVE  IInv'
<1> USE TasksAssumption DEF Tasks, ClosingPoints, Closes, Awaited, AfterClose,
          clientVars, ConnectGarbage, Respond, Leave, sessionVars, sweepVars
<1>1. TypeOK'
  BY SMTT(30), TimeAssumption, RequestsAssumption
     DEF HoldsClient, IInv, TypeOK, ClientStates, Faults, HandlerPoints, SweeperPoints, LifespanPoints, Replies, Causes, NoReply, Reply
<1>2. StoredIsOpen'
  BY DEF IInv, TypeOK, StoredIsOpen, ConnectOwns, HoldsClient, ClosesClosing
<1>3. HoldsClient'
  BY DEF IInv, TypeOK, HoldsClient
<1>4. ConnectOwns'
  BY DEF IInv, TypeOK, ConnectOwns, StoredIsOpen, HoldsClient, ClosesClosing
<1>5. ClosesClosing'
  BY DEF IInv, TypeOK, ClosesClosing, ClosedOnce, ConnectOwns, StoredIsOpen, HoldsClient
<1>6. ClosedOnce'
  BY DEF IInv, TypeOK, ClosedOnce, ClosesClosing, ConnectOwns, StoredIsOpen, HoldsClient
<1>7. OpenIsOwned'
  BY DEF IInv, TypeOK, OpenIsOwned, Owned, HoldsClient, StoredIsOpen
<1>8. ClosingIsAwaited'
  BY DEF IInv, TypeOK, ClosingIsAwaited, Awaited, HoldsClient, ClosedOnce, ConnectOwns
<1>9. QueryLease'
  BY TimeAssumption DEF IInv, TypeOK, QueryLease, StoredIsOpen, HoldsClient, ConnectOwns, ClosesClosing, SweepListed, Drained, Expired
<1>10. SweepListed'
  BY TimeAssumption DEF IInv, TypeOK, SweepListed, ConnectOwns, HoldsClient, StoredIsOpen, ClosesClosing, Expired
<1>11. Drained'
  BY DEF IInv, TypeOK, Drained
<1>12. Emptied'
  BY DEF IInv, TypeOK, Emptied, Drained
<1>13. Faultless'
  <2>1. PICK g \in Clients : g = using[h] /\ client[g] = "open" /\ g \notin store
    BY DEF IInv, HoldsClient, ConnectOwns
  <2>2. \A k \in Handlers : ~(task'[k] = "connecting" /\ using'[k] = g)
    BY <2>1 DEF IInv, TypeOK, ConnectOwns
  <2>3. \A t \in Tasks : ~Closes(t, g)
    BY <2>1 DEF IInv, ClosesClosing
  <2>4. \A t \in Tasks : \A c \in Clients : Closes(t, c)' => Closes(t, c)
    BY DEF IInv, TypeOK
  <2>5. \A k \in Handlers : task'[k] = "connecting" => task[k] = "connecting" /\ using'[k] = using[k]
    BY DEF IInv, TypeOK
  <2>6. \A c \in Clients : c # g => fault'[c] = fault[c]
    BY <2>1 DEF IInv, TypeOK
  <2> QED  BY <2>1, <2>2, <2>3, <2>4, <2>5, <2>6 DEF IInv, Faultless
<1>14. Halts'
  BY DEF IInv, TypeOK, Halts, ShutdownRaised, HoldsClient, Faultless
<1> QED  BY <1>1, <1>2, <1>3, <1>4, <1>5, <1>6, <1>7, <1>8, <1>9, <1>10, <1>11, <1>12,
            <1>13, <1>14 DEF IInv

LEMMA QueryBeginInv ==
  ASSUME IInv,
         NEW h \in Handlers,
         NEW c \in Clients,
         QueryBegin(h, c)
  PROVE  IInv'
<1> USE TasksAssumption DEF Tasks, ClosingPoints, Closes, Awaited, AfterClose,
          clientVars, QueryBegin, Gettable, StoreGet, Arrives, sweepVars
<1>1. TypeOK'
  BY TimeAssumption, RequestsAssumption DEF IInv, TypeOK, ClientStates, Faults, HandlerPoints, SweeperPoints, LifespanPoints, Replies, Causes, NoReply, Reply
<1>2. StoredIsOpen'
  BY DEF IInv, TypeOK, StoredIsOpen, ConnectOwns, HoldsClient, ClosesClosing
<1>3. HoldsClient'
  BY DEF IInv, TypeOK, HoldsClient
<1>4. ConnectOwns'
  BY DEF IInv, TypeOK, ConnectOwns, StoredIsOpen, HoldsClient, ClosesClosing
<1>5. ClosesClosing'
  BY DEF IInv, TypeOK, ClosesClosing, ClosedOnce, ConnectOwns, StoredIsOpen, HoldsClient
<1>6. ClosedOnce'
  BY DEF IInv, TypeOK, ClosedOnce, ClosesClosing, ConnectOwns, StoredIsOpen, HoldsClient
<1>7. OpenIsOwned'
  BY DEF IInv, TypeOK, OpenIsOwned, Owned, HoldsClient, StoredIsOpen
<1>8. ClosingIsAwaited'
  BY DEF IInv, TypeOK, ClosingIsAwaited, Awaited, HoldsClient, ClosedOnce, ConnectOwns
<1>9. QueryLease'
  BY TimeAssumption DEF IInv, TypeOK, QueryLease, StoredIsOpen, HoldsClient, ConnectOwns, ClosesClosing, SweepListed, Drained, Expired
<1>10. SweepListed'
  BY TimeAssumption DEF IInv, TypeOK, SweepListed, ConnectOwns, HoldsClient, StoredIsOpen, ClosesClosing, Expired
<1>11. Drained'
  BY DEF IInv, TypeOK, Drained
<1>12. Emptied'
  BY DEF IInv, TypeOK, Emptied, Drained
<1>13. Faultless'
  BY DEF IInv, TypeOK, Faultless, HoldsClient, ConnectOwns, StoredIsOpen, ClosesClosing, ClosedOnce
<1>14. Halts'
  BY DEF IInv, TypeOK, Halts, ShutdownRaised, HoldsClient, Faultless
<1> QED  BY <1>1, <1>2, <1>3, <1>4, <1>5, <1>6, <1>7, <1>8, <1>9, <1>10, <1>11, <1>12,
            <1>13, <1>14 DEF IInv

LEMMA QueryMoreInv ==
  ASSUME IInv,
         NEW h \in Handlers,
         QueryMore(h)
  PROVE  IInv'
<1> USE TasksAssumption DEF Tasks, ClosingPoints, Closes, Awaited, AfterClose,
          clientVars, QueryMore, sessionVars, sweepVars
<1>1. TypeOK'
  BY TimeAssumption, RequestsAssumption DEF IInv, TypeOK, ClientStates, Faults, HandlerPoints, SweeperPoints, LifespanPoints, Replies, Causes, NoReply, Reply
<1>2. StoredIsOpen'
  BY DEF IInv, TypeOK, StoredIsOpen, ConnectOwns, HoldsClient, ClosesClosing
<1>3. HoldsClient'
  BY DEF IInv, TypeOK, HoldsClient
<1>4. ConnectOwns'
  BY DEF IInv, TypeOK, ConnectOwns, StoredIsOpen, HoldsClient, ClosesClosing
<1>5. ClosesClosing'
  BY DEF IInv, TypeOK, ClosesClosing, ClosedOnce, ConnectOwns, StoredIsOpen, HoldsClient
<1>6. ClosedOnce'
  BY DEF IInv, TypeOK, ClosedOnce, ClosesClosing, ConnectOwns, StoredIsOpen, HoldsClient
<1>7. OpenIsOwned'
  BY DEF IInv, TypeOK, OpenIsOwned, Owned, HoldsClient, StoredIsOpen
<1>8. ClosingIsAwaited'
  BY DEF IInv, TypeOK, ClosingIsAwaited, Awaited, HoldsClient, ClosedOnce, ConnectOwns
<1>9. QueryLease'
  BY TimeAssumption DEF IInv, TypeOK, QueryLease, StoredIsOpen, HoldsClient, ConnectOwns, ClosesClosing, SweepListed, Drained, Expired
<1>10. SweepListed'
  BY TimeAssumption DEF IInv, TypeOK, SweepListed, ConnectOwns, HoldsClient, StoredIsOpen, ClosesClosing, Expired
<1>11. Drained'
  BY DEF IInv, TypeOK, Drained
<1>12. Emptied'
  BY DEF IInv, TypeOK, Emptied, Drained
<1>13. Faultless'
  BY DEF IInv, TypeOK, Faultless, HoldsClient, ConnectOwns, StoredIsOpen, ClosesClosing, ClosedOnce
<1>14. Halts'
  BY DEF IInv, TypeOK, Halts, ShutdownRaised, HoldsClient, Faultless
<1> QED  BY <1>1, <1>2, <1>3, <1>4, <1>5, <1>6, <1>7, <1>8, <1>9, <1>10, <1>11, <1>12,
            <1>13, <1>14 DEF IInv

LEMMA DisconnectBeginInv ==
  ASSUME IInv,
         NEW h \in Handlers,
         NEW c \in Clients,
         DisconnectBegin(h, c)
  PROVE  IInv'
<1> USE TasksAssumption DEF Tasks, ClosingPoints, Closes, Awaited, AfterClose,
          clientVars, DisconnectBegin, StoreRemove, Arrives, sweepVars
<1>1. TypeOK'
  BY TimeAssumption, RequestsAssumption DEF IInv, TypeOK, ClientStates, Faults, HandlerPoints, SweeperPoints, LifespanPoints, Replies, Causes, NoReply, Reply
<1>2. StoredIsOpen'
  BY DEF IInv, TypeOK, StoredIsOpen, ConnectOwns, HoldsClient, ClosesClosing
<1>3. HoldsClient'
  BY DEF IInv, TypeOK, HoldsClient
<1>4. ConnectOwns'
  BY DEF IInv, TypeOK, ConnectOwns, StoredIsOpen, HoldsClient, ClosesClosing
<1>5. ClosesClosing'
  BY DEF IInv, TypeOK, ClosesClosing, ClosedOnce, ConnectOwns, StoredIsOpen, HoldsClient
<1>6. ClosedOnce'
  <2>1. \A u \in Tasks : ~Closes(u, c)
    BY DEF IInv, ClosesClosing, StoredIsOpen
  <2>2. \A u \in Tasks : u # h => task'[u] = task[u] /\ using'[u] = using[u]
    BY DEF IInv, TypeOK
  <2>3. Closes(h, c)' /\ \A d \in Clients : Closes(h, d)' => d = c
    BY DEF IInv, TypeOK
  <2>4. \A d \in Clients : \A u \in Tasks : u # h => (Closes(u, d)' <=> Closes(u, d))
    BY <2>2
  <2> QED  BY <2>1, <2>3, <2>4 DEF IInv, ClosedOnce
<1>7. OpenIsOwned'
  BY DEF IInv, TypeOK, OpenIsOwned, Owned, HoldsClient, StoredIsOpen
<1>8. ClosingIsAwaited'
  BY DEF IInv, TypeOK, ClosingIsAwaited, Awaited, HoldsClient, ClosedOnce, ConnectOwns
<1>9. QueryLease'
  BY TimeAssumption DEF IInv, TypeOK, QueryLease, StoredIsOpen, HoldsClient, ConnectOwns, ClosesClosing, SweepListed, Drained, Expired
<1>10. SweepListed'
  BY TimeAssumption DEF IInv, TypeOK, SweepListed, ConnectOwns, HoldsClient, StoredIsOpen, ClosesClosing, Expired
<1>11. Drained'
  BY DEF IInv, TypeOK, Drained
<1>12. Emptied'
  BY DEF IInv, TypeOK, Emptied, Drained
<1>13. Faultless'
  BY DEF IInv, TypeOK, Faultless, HoldsClient, ConnectOwns, StoredIsOpen, ClosesClosing, ClosedOnce
<1>14. Halts'
  BY DEF IInv, TypeOK, Halts, ShutdownRaised, HoldsClient, Faultless
<1> QED  BY <1>1, <1>2, <1>3, <1>4, <1>5, <1>6, <1>7, <1>8, <1>9, <1>10, <1>11, <1>12,
            <1>13, <1>14 DEF IInv

(* The sweeper goes on with its loop, after it closed the client it held if *)
(* it held one: it pops a session of its list ... *)
LEMMA SweepPopInv ==
  ASSUME IInv,
         NEW queue \in SUBSET Clients,
         NEW clients,
         Listed(queue),
         clients = AfterSweeper,
         task[Lifespan] = "serving",
         task[Sweeper] \in {"sleeping", "reaping"},
         NEW c \in queue \cap store,
         StoreRemove(Sweeper, c, clients, "sweep", "reaping"),
         sweepQueue' = queue \ {c},
         UNCHANGED <<timer, handlerVars>>
  PROVE  IInv'
<1> USE TasksAssumption DEF Tasks, ClosingPoints, Closes, Awaited, AfterClose,
          clientVars, Listed, AfterSweeper, StoreRemove, handlerVars
<1>1. TypeOK'
  BY TimeAssumption, RequestsAssumption DEF IInv, TypeOK, ClientStates, Faults, HandlerPoints, SweeperPoints, LifespanPoints, Replies, Causes, NoReply, Reply
<1>2. StoredIsOpen'
  BY DEF IInv, TypeOK, StoredIsOpen, ConnectOwns, HoldsClient, ClosesClosing
<1>3. HoldsClient'
  BY DEF IInv, TypeOK, HoldsClient
<1>4. ConnectOwns'
  BY DEF IInv, TypeOK, ConnectOwns, StoredIsOpen, HoldsClient, ClosesClosing
<1>5. ClosesClosing'
  <2>1. \A u \in Tasks : u # Sweeper => task'[u] = task[u] /\ using'[u] = using[u]
    BY DEF IInv, TypeOK
  <2>2. c \in Clients /\ client'[c] = "closing"
    BY DEF IInv, TypeOK
  <2>3. \A d \in Clients : Closes(Sweeper, d)' => d = c
    BY DEF IInv, TypeOK
  <2>4. ASSUME NEW u \in Tasks, u # Sweeper, NEW d \in Clients, Closes(u, d)
        PROVE  client'[d] = "closing"
    <3>1. client[d] = "closing" /\ (task[Sweeper] = "reaping" => d # using[Sweeper])
      BY <2>4 DEF IInv, ClosesClosing, ClosedOnce
    <3> QED  BY <2>2, <3>1 DEF IInv, TypeOK
  <2>5. \A u \in Tasks : u # Sweeper => \A d \in Clients : Closes(u, d)' => Closes(u, d)
    BY <2>1
  <2> HIDE DEF Closes, StoreRemove, Tasks
  <2> QED  BY <2>2, <2>3, <2>4, <2>5 DEF ClosesClosing
<1>6. ClosedOnce'
  <2>1. \A u \in Tasks : ~Closes(u, c)
    BY DEF IInv, ClosesClosing, StoredIsOpen
  <2>2. \A u \in Tasks : u # Sweeper => task'[u] = task[u] /\ using'[u] = using[u]
    BY DEF IInv, TypeOK
  <2>3. Closes(Sweeper, c)' /\ \A d \in Clients : Closes(Sweeper, d)' => d = c
    BY DEF IInv, TypeOK
  <2>4. \A d \in Clients : \A u \in Tasks : u # Sweeper => (Closes(u, d)' <=> Closes(u, d))
    BY <2>2
  <2> QED  BY <2>1, <2>3, <2>4 DEF IInv, ClosedOnce
<1>7. OpenIsOwned'
  BY DEF IInv, TypeOK, OpenIsOwned, Owned, HoldsClient, StoredIsOpen
<1>8. ClosingIsAwaited'
  BY DEF IInv, TypeOK, ClosingIsAwaited, Awaited, HoldsClient, ClosedOnce, ConnectOwns
<1>9. QueryLease'
  BY TimeAssumption DEF IInv, TypeOK, QueryLease, StoredIsOpen, HoldsClient, ConnectOwns, ClosesClosing, SweepListed, Drained, Expired
<1>10. SweepListed'
  BY TimeAssumption DEF IInv, TypeOK, SweepListed, ConnectOwns, HoldsClient, StoredIsOpen, ClosesClosing, Expired
<1>11. Drained'
  BY DEF IInv, TypeOK, Drained
<1>12. Emptied'
  BY DEF IInv, TypeOK, Emptied, Drained
<1>13. Faultless'
  BY DEF IInv, TypeOK, Faultless, HoldsClient, ConnectOwns, StoredIsOpen, ClosesClosing, ClosedOnce
<1>14. Halts'
  BY DEF IInv, TypeOK, Halts, ShutdownRaised, HoldsClient, Faultless
<1> QED  BY <1>1, <1>2, <1>3, <1>4, <1>5, <1>6, <1>7, <1>8, <1>9, <1>10, <1>11, <1>12,
            <1>13, <1>14 DEF IInv

(* ... or has none left and sleeps. *)
LEMMA SweepSleepInv ==
  ASSUME IInv,
         task[Lifespan] = "serving",
         task[Sweeper] \in {"sleeping", "reaping"},
         Leave(Sweeper, "sleeping"),
         client' = AfterSweeper,
         sweepQueue' = {},
         timer' = Interval,
         UNCHANGED <<sessionVars, fault, handlerVars>>
  PROVE  IInv'
<1> USE TasksAssumption DEF Tasks, ClosingPoints, Closes, Awaited, AfterClose,
          clientVars, AfterSweeper, Leave, sessionVars, handlerVars
<1>1. TypeOK'
  BY SMTT(30), TimeAssumption, RequestsAssumption
     DEF HoldsClient, IInv, TypeOK, ClientStates, Faults, HandlerPoints, SweeperPoints, LifespanPoints, Replies, Causes, NoReply, Reply
<1>2. StoredIsOpen'
  BY DEF IInv, TypeOK, StoredIsOpen, ConnectOwns, HoldsClient, ClosesClosing
<1>3. HoldsClient'
  BY DEF IInv, TypeOK, HoldsClient
<1>4. ConnectOwns'
  BY DEF IInv, TypeOK, ConnectOwns, StoredIsOpen, HoldsClient, ClosesClosing
<1>5. ClosesClosing'
  BY DEF IInv, TypeOK, ClosesClosing, ClosedOnce, ConnectOwns, StoredIsOpen, HoldsClient
<1>6. ClosedOnce'
  BY DEF IInv, TypeOK, ClosedOnce, ClosesClosing, ConnectOwns, StoredIsOpen, HoldsClient
<1>7. OpenIsOwned'
  BY DEF IInv, TypeOK, OpenIsOwned, Owned, HoldsClient, StoredIsOpen
<1>8. ClosingIsAwaited'
  BY DEF IInv, TypeOK, ClosingIsAwaited, Awaited, HoldsClient, ClosedOnce, ConnectOwns
<1>9. QueryLease'
  BY TimeAssumption DEF IInv, TypeOK, QueryLease, StoredIsOpen, HoldsClient, ConnectOwns, ClosesClosing, SweepListed, Drained, Expired
<1>10. SweepListed'
  BY TimeAssumption DEF IInv, TypeOK, SweepListed, ConnectOwns, HoldsClient, StoredIsOpen, ClosesClosing, Expired
<1>11. Drained'
  BY DEF IInv, TypeOK, Drained
<1>12. Emptied'
  BY DEF IInv, TypeOK, Emptied, Drained
<1>13. Faultless'
  BY DEF IInv, TypeOK, Faultless, HoldsClient, ConnectOwns, StoredIsOpen, ClosesClosing, ClosedOnce
<1>14. Halts'
  BY DEF IInv, TypeOK, Halts, ShutdownRaised, HoldsClient, Faultless
<1> QED  BY <1>1, <1>2, <1>3, <1>4, <1>5, <1>6, <1>7, <1>8, <1>9, <1>10, <1>11, <1>12,
            <1>13, <1>14 DEF IInv

LEMMA SweepCloseRaisedInv ==
  ASSUME IInv,
         SweepCloseRaised
  PROVE  IInv'
<1> USE TasksAssumption DEF Tasks, ClosingPoints, Closes, Awaited, AfterClose,
          clientVars, SweepCloseRaised, CloseRaised, Leave, sessionVars, handlerVars
<1>1. TypeOK'
  BY TimeAssumption, RequestsAssumption DEF IInv, TypeOK, ClientStates, Faults, HandlerPoints, SweeperPoints, LifespanPoints, Replies, Causes, NoReply, Reply
<1>2. StoredIsOpen'
  BY DEF IInv, TypeOK, StoredIsOpen, ConnectOwns, HoldsClient, ClosesClosing
<1>3. HoldsClient'
  BY DEF IInv, TypeOK, HoldsClient
<1>4. ConnectOwns'
  BY DEF IInv, TypeOK, ConnectOwns, StoredIsOpen, HoldsClient, ClosesClosing
<1>5. ClosesClosing'
  BY DEF IInv, TypeOK, ClosesClosing, ClosedOnce, ConnectOwns, StoredIsOpen, HoldsClient
<1>6. ClosedOnce'
  BY DEF IInv, TypeOK, ClosedOnce, ClosesClosing, ConnectOwns, StoredIsOpen, HoldsClient
<1>7. OpenIsOwned'
  BY DEF IInv, TypeOK, OpenIsOwned, Owned, HoldsClient, StoredIsOpen, ClosesClosing
<1>8. ClosingIsAwaited'
  BY DEF IInv, TypeOK, ClosingIsAwaited, Awaited, HoldsClient, ClosedOnce, ConnectOwns
<1>9. QueryLease'
  BY TimeAssumption DEF IInv, TypeOK, QueryLease, StoredIsOpen, HoldsClient, ConnectOwns, ClosesClosing, SweepListed, Drained, Expired
<1>10. SweepListed'
  BY TimeAssumption DEF IInv, TypeOK, SweepListed, ConnectOwns, HoldsClient, StoredIsOpen, ClosesClosing, Expired
<1>11. Drained'
  BY DEF IInv, TypeOK, Drained
<1>12. Emptied'
  BY DEF IInv, TypeOK, Emptied, Drained
<1>13. Faultless'
  BY DEF IInv, TypeOK, Faultless, HoldsClient, ConnectOwns, StoredIsOpen, ClosesClosing, ClosedOnce
<1>14. Halts'
  BY DEF IInv, TypeOK, Halts, ShutdownRaised, HoldsClient, Faultless
<1> QED  BY <1>1, <1>2, <1>3, <1>4, <1>5, <1>6, <1>7, <1>8, <1>9, <1>10, <1>11, <1>12,
            <1>13, <1>14 DEF IInv

LEMMA SweepCancelledInv ==
  ASSUME IInv,
         SweepCancelled
  PROVE  IInv'
<1> USE TasksAssumption DEF Tasks, ClosingPoints, Closes, Awaited, AfterClose,
          clientVars, Closed, SweepCancelled, Leave, sessionVars, handlerVars
<1>1. TypeOK'
  BY TimeAssumption, RequestsAssumption DEF IInv, TypeOK, ClientStates, Faults, HandlerPoints, SweeperPoints, LifespanPoints, Replies, Causes, NoReply, Reply
<1>2. StoredIsOpen'
  BY DEF IInv, TypeOK, StoredIsOpen, ConnectOwns, HoldsClient, ClosesClosing
<1>3. HoldsClient'
  BY DEF IInv, TypeOK, HoldsClient
<1>4. ConnectOwns'
  BY DEF IInv, TypeOK, ConnectOwns, StoredIsOpen, HoldsClient, ClosesClosing
<1>5. ClosesClosing'
  BY DEF IInv, TypeOK, ClosesClosing, ClosedOnce, ConnectOwns, StoredIsOpen, HoldsClient
<1>6. ClosedOnce'
  BY DEF IInv, TypeOK, ClosedOnce, ClosesClosing, ConnectOwns, StoredIsOpen, HoldsClient
<1>7. OpenIsOwned'
  BY DEF IInv, TypeOK, OpenIsOwned, Owned, HoldsClient, StoredIsOpen, ClosesClosing
<1>8. ClosingIsAwaited'
  BY DEF IInv, TypeOK, ClosingIsAwaited, Awaited, HoldsClient, ClosedOnce, ConnectOwns
<1>9. QueryLease'
  BY TimeAssumption DEF IInv, TypeOK, QueryLease, StoredIsOpen, HoldsClient, ConnectOwns, ClosesClosing, SweepListed, Drained, Expired
<1>10. SweepListed'
  BY TimeAssumption DEF IInv, TypeOK, SweepListed, ConnectOwns, HoldsClient, StoredIsOpen, ClosesClosing, Expired
<1>11. Drained'
  BY DEF IInv, TypeOK, Drained
<1>12. Emptied'
  BY DEF IInv, TypeOK, Emptied, Drained
<1>13. Faultless'
  BY DEF IInv, TypeOK, Faultless, HoldsClient, ConnectOwns, StoredIsOpen, ClosesClosing, ClosedOnce
<1>14. Halts'
  BY DEF IInv, TypeOK, Halts, ShutdownRaised, HoldsClient, Faultless
<1> QED  BY <1>1, <1>2, <1>3, <1>4, <1>5, <1>6, <1>7, <1>8, <1>9, <1>10, <1>11, <1>12,
            <1>13, <1>14 DEF IInv

(* The same for close_all, when every handler is idle: it pops a session ... *)
LEMMA ShutdownPopInv ==
  ASSUME IInv,
         \A h \in Handlers : task[h] = "idle",
         task[Lifespan] \in {"serving", "halting"},
         NEW c \in store,
         StoreRemove(Lifespan, c, AfterLifespan, "shutdown", "halting"),
         UNCHANGED <<handlerVars, sweepVars>>
  PROVE  IInv'
<1> USE TasksAssumption DEF Tasks, ClosingPoints, Closes, Awaited, AfterClose,
          clientVars, AfterLifespan, StoreRemove, handlerVars, sweepVars
<1>1. TypeOK'
  BY TimeAssumption, RequestsAssumption DEF IInv, TypeOK, ClientStates, Faults, HandlerPoints, SweeperPoints, LifespanPoints, Replies, Causes, NoReply, Reply
<1>2. StoredIsOpen'
  BY DEF IInv, TypeOK, StoredIsOpen, ConnectOwns, HoldsClient, ClosesClosing
<1>3. HoldsClient'
  BY DEF IInv, TypeOK, HoldsClient
<1>4. ConnectOwns'
  BY DEF IInv, TypeOK, ConnectOwns, StoredIsOpen, HoldsClient, ClosesClosing
<1>5. ClosesClosing'
  BY DEF IInv, TypeOK, ClosesClosing, ClosedOnce, ConnectOwns, StoredIsOpen, HoldsClient
<1>6. ClosedOnce'
  BY DEF IInv, TypeOK, ClosedOnce, ClosesClosing, ConnectOwns, StoredIsOpen, HoldsClient
<1>7. OpenIsOwned'
  BY DEF IInv, TypeOK, OpenIsOwned, Owned, HoldsClient, StoredIsOpen
<1>8. ClosingIsAwaited'
  BY DEF IInv, TypeOK, ClosingIsAwaited, Awaited, HoldsClient, ClosedOnce, ConnectOwns
<1>9. QueryLease'
  BY TimeAssumption DEF IInv, TypeOK, QueryLease, StoredIsOpen, HoldsClient, ConnectOwns, ClosesClosing, SweepListed, Drained, Expired
<1>10. SweepListed'
  BY TimeAssumption DEF IInv, TypeOK, SweepListed, ConnectOwns, HoldsClient, StoredIsOpen, ClosesClosing, Expired
<1>11. Drained'
  BY DEF IInv, TypeOK, Drained
<1>12. Emptied'
  BY DEF IInv, TypeOK, Emptied, Drained
<1>13. Faultless'
  BY DEF IInv, TypeOK, Faultless, HoldsClient, ConnectOwns, StoredIsOpen, ClosesClosing, ClosedOnce
<1>14. Halts'
  BY DEF IInv, TypeOK, Halts, ShutdownRaised, HoldsClient, Faultless
<1> QED  BY <1>1, <1>2, <1>3, <1>4, <1>5, <1>6, <1>7, <1>8, <1>9, <1>10, <1>11, <1>12,
            <1>13, <1>14 DEF IInv

(* ... or has none left and stops. *)
LEMMA ShutdownStopInv ==
  ASSUME IInv,
         \A h \in Handlers : task[h] = "idle",
         task[Lifespan] \in {"serving", "halting"},
         store = {},
         Leave(Lifespan, "stopped"),
         client' = AfterLifespan,
         UNCHANGED <<sessionVars, fault, handlerVars, sweepVars>>
  PROVE  IInv'
<1> USE TasksAssumption DEF Tasks, ClosingPoints, Closes, Awaited, AfterClose,
          clientVars, AfterLifespan, Leave, sessionVars, handlerVars, sweepVars
<1>1. TypeOK'
  BY TimeAssumption, RequestsAssumption DEF IInv, TypeOK, ClientStates, Faults, HandlerPoints, SweeperPoints, LifespanPoints, Replies, Causes, NoReply, Reply
<1>2. StoredIsOpen'
  BY DEF IInv, TypeOK, StoredIsOpen, ConnectOwns, HoldsClient, ClosesClosing
<1>3. HoldsClient'
  BY DEF IInv, TypeOK, HoldsClient
<1>4. ConnectOwns'
  BY DEF IInv, TypeOK, ConnectOwns, StoredIsOpen, HoldsClient, ClosesClosing
<1>5. ClosesClosing'
  BY DEF IInv, TypeOK, ClosesClosing, ClosedOnce, ConnectOwns, StoredIsOpen, HoldsClient
<1>6. ClosedOnce'
  BY DEF IInv, TypeOK, ClosedOnce, ClosesClosing, ConnectOwns, StoredIsOpen, HoldsClient
<1>7. OpenIsOwned'
  BY DEF IInv, TypeOK, OpenIsOwned, Owned, HoldsClient, StoredIsOpen
<1>8. ClosingIsAwaited'
  BY DEF IInv, TypeOK, ClosingIsAwaited, Awaited, HoldsClient, ClosedOnce, ConnectOwns
<1>9. QueryLease'
  BY TimeAssumption DEF IInv, TypeOK, QueryLease, StoredIsOpen, HoldsClient, ConnectOwns, ClosesClosing, SweepListed, Drained, Expired
<1>10. SweepListed'
  BY TimeAssumption DEF IInv, TypeOK, SweepListed, ConnectOwns, HoldsClient, StoredIsOpen, ClosesClosing, Expired
<1>11. Drained'
  BY DEF IInv, TypeOK, Drained
<1>12. Emptied'
  BY DEF IInv, TypeOK, Emptied, Drained
<1>13. Faultless'
  BY DEF IInv, TypeOK, Faultless, HoldsClient, ConnectOwns, StoredIsOpen, ClosesClosing, ClosedOnce
<1>14. Halts'
  BY DEF IInv, TypeOK, Halts, ShutdownRaised, HoldsClient, Faultless
<1> QED  BY <1>1, <1>2, <1>3, <1>4, <1>5, <1>6, <1>7, <1>8, <1>9, <1>10, <1>11, <1>12,
            <1>13, <1>14 DEF IInv

LEMMA ShutdownCloseRaisedInv ==
  ASSUME IInv,
         ShutdownCloseRaised
  PROVE  IInv'
<1> USE TasksAssumption DEF Tasks, ClosingPoints, Closes, Awaited, AfterClose,
          clientVars, ShutdownCloseRaised, CloseRaised, Leave, sessionVars, handlerVars, sweepVars
<1>1. TypeOK'
  BY TimeAssumption, RequestsAssumption DEF IInv, TypeOK, ClientStates, Faults, HandlerPoints, SweeperPoints, LifespanPoints, Replies, Causes, NoReply, Reply
<1>2. StoredIsOpen'
  BY DEF IInv, TypeOK, StoredIsOpen, ConnectOwns, HoldsClient, ClosesClosing
<1>3. HoldsClient'
  BY DEF IInv, TypeOK, HoldsClient
<1>4. ConnectOwns'
  BY DEF IInv, TypeOK, ConnectOwns, StoredIsOpen, HoldsClient, ClosesClosing
<1>5. ClosesClosing'
  BY DEF IInv, TypeOK, ClosesClosing, ClosedOnce, ConnectOwns, StoredIsOpen, HoldsClient
<1>6. ClosedOnce'
  BY DEF IInv, TypeOK, ClosedOnce, ClosesClosing, ConnectOwns, StoredIsOpen, HoldsClient
<1>7. OpenIsOwned'
  BY DEF IInv, TypeOK, OpenIsOwned, Owned, HoldsClient, StoredIsOpen, ClosesClosing
<1>8. ClosingIsAwaited'
  BY DEF IInv, TypeOK, ClosingIsAwaited, Awaited, HoldsClient, ClosedOnce, ConnectOwns
<1>9. QueryLease'
  BY TimeAssumption DEF IInv, TypeOK, QueryLease, StoredIsOpen, HoldsClient, ConnectOwns, ClosesClosing, SweepListed, Drained, Expired
<1>10. SweepListed'
  BY TimeAssumption DEF IInv, TypeOK, SweepListed, ConnectOwns, HoldsClient, StoredIsOpen, ClosesClosing, Expired
<1>11. Drained'
  BY DEF IInv, TypeOK, Drained
<1>12. Emptied'
  BY DEF IInv, TypeOK, Emptied, Drained
<1>13. Faultless'
  BY DEF IInv, TypeOK, Faultless, HoldsClient, ConnectOwns, StoredIsOpen, ClosesClosing, ClosedOnce
<1>14. Halts'
  BY DEF IInv, TypeOK, Halts, ShutdownRaised, HoldsClient, Faultless
<1> QED  BY <1>1, <1>2, <1>3, <1>4, <1>5, <1>6, <1>7, <1>8, <1>9, <1>10, <1>11, <1>12,
            <1>13, <1>14 DEF IInv

LEMMA TickInv ==
  ASSUME IInv,
         Tick
  PROVE  IInv'
<1> USE TasksAssumption DEF Tasks, ClosingPoints, Closes, Awaited, AfterClose,
          clientVars, Tick, Expired
<1>1. TypeOK'
  BY TimeAssumption, RequestsAssumption DEF IInv, TypeOK, ClientStates, Faults, HandlerPoints, SweeperPoints, LifespanPoints, Replies, Causes, NoReply, Reply
<1>2. StoredIsOpen'
  BY DEF IInv, TypeOK, StoredIsOpen, ConnectOwns, HoldsClient, ClosesClosing
<1>3. HoldsClient'
  BY DEF IInv, TypeOK, HoldsClient
<1>4. ConnectOwns'
  BY DEF IInv, TypeOK, ConnectOwns, StoredIsOpen, HoldsClient, ClosesClosing
<1>5. ClosesClosing'
  BY DEF IInv, TypeOK, ClosesClosing, ClosedOnce, ConnectOwns, StoredIsOpen, HoldsClient
<1>6. ClosedOnce'
  BY DEF IInv, TypeOK, ClosedOnce, ClosesClosing, ConnectOwns, StoredIsOpen, HoldsClient
<1>7. OpenIsOwned'
  BY DEF IInv, TypeOK, OpenIsOwned, Owned, HoldsClient, StoredIsOpen
<1>8. ClosingIsAwaited'
  BY DEF IInv, TypeOK, ClosingIsAwaited, Awaited, HoldsClient, ClosedOnce, ConnectOwns
<1>9. QueryLease'
  BY TimeAssumption DEF IInv, TypeOK, QueryLease, StoredIsOpen, HoldsClient, ConnectOwns, ClosesClosing, SweepListed, Drained, Expired
<1>10. SweepListed'
  BY TimeAssumption DEF IInv, TypeOK, SweepListed, ConnectOwns, HoldsClient, StoredIsOpen, ClosesClosing, Expired
<1>11. Drained'
  BY DEF IInv, TypeOK, Drained
<1>12. Emptied'
  BY DEF IInv, TypeOK, Emptied, Drained
<1>13. Faultless'
  BY DEF IInv, TypeOK, Faultless, HoldsClient, ConnectOwns, StoredIsOpen, ClosesClosing, ClosedOnce
<1>14. Halts'
  BY DEF IInv, TypeOK, Halts, ShutdownRaised, HoldsClient, Faultless
<1> QED  BY <1>1, <1>2, <1>3, <1>4, <1>5, <1>6, <1>7, <1>8, <1>9, <1>10, <1>11, <1>12,
            <1>13, <1>14 DEF IInv

-----------------------------------------------------------------------------
LEMMA InitInv == Init => IInv
  BY TasksAssumption, TimeAssumption, RequestsAssumption
  DEF Init, IInv, TypeOK, StoredIsOpen, HoldsClient, ConnectOwns, ClosesClosing,
      ClosedOnce, OpenIsOwned, ClosingIsAwaited, Owned, Awaited, QueryLease,
      SweepListed, Drained, Emptied, Faultless, Halts, Closes, ClosingPoints, Tasks,
      ClientStates, Faults, HandlerPoints,
      SweeperPoints, LifespanPoints, Replies, Causes, NoReply

(* A handler's steps: the outcomes of its requests are answers or the ends  *)
(* of closings.                                                             *)
LEMMA HandlerInv ==
  ASSUME IInv, NEW h \in Handlers,
         Connect(h) \/ Query(h) \/ Disconnect(h) \/ HandlerStep(h)
  PROVE  IInv'
<1>1. CASE Connect(h)
  <2>1. ASSUME NEW c \in Clients, ConnectBegin(h, c) PROVE IInv'
    BY <2>1, ConnectBeginInv
  <2>2. CASE ConnectUnusable(h)
    BY <2>2, AnswerInv DEF ConnectUnusable, Arrives, Reply, Replies, Causes
  <2> QED  BY <1>1, <2>1, <2>2 DEF Connect
<1>2. CASE Query(h)
  <2>1. ASSUME NEW c \in Clients, QueryBegin(h, c) PROVE IInv'
    BY <2>1, QueryBeginInv
  <2>2. ASSUME NEW c \in Clients, QueryUnauthorized(h, c) PROVE IInv'
    BY <2>2, AnswerInv DEF QueryUnauthorized, Arrives, Reply, Replies, Causes
  <2> QED  BY <1>2, <2>1, <2>2 DEF Query
<1>3. CASE Disconnect(h)
  <2>1. ASSUME NEW c \in Clients, DisconnectBegin(h, c) PROVE IInv'
    BY <2>1, DisconnectBeginInv
  <2>2. ASSUME NEW c \in Clients, DisconnectUnknown(h, c) PROVE IInv'
    BY <2>2, AnswerInv DEF DisconnectUnknown, Arrives, Reply, Replies, Causes
  <2> QED  BY <1>3, <2>1, <2>2 DEF Disconnect
<1>4. CASE ConnectEnd(h)
  <2>1. CASE ConnectOk(h)
    BY <2>1, ConnectOkInv
  <2>2. CASE ConnectEsError(h)
    BY <2>2, ConnectEsErrorInv
  <2>3. CASE ConnectAborted(h)
    <3>1. Reply(502, "upstream") \in Replies
      BY DEF Reply, Replies, Causes
    <3> QED  BY <2>3, <3>1, HandlerClosedInv DEF ConnectAborted
  <2>4. CASE ConnectAbortRaised(h)
    <3>1. Reply(500, "aclose") \in Replies
      BY DEF Reply, Replies, Causes
    <3> QED  BY <2>4, <3>1, HandlerClosedInv DEF ConnectAbortRaised
  <2>5. CASE ConnectGarbage(h)
    BY <2>5, ConnectGarbageInv
  <2> QED  BY <1>4, <2>1, <2>2, <2>3, <2>4, <2>5 DEF ConnectEnd
<1>5. CASE QueryEnd(h)
  <2>1. CASE QueryMore(h)
    BY <2>1, QueryMoreInv
  <2>2. CASE QueryRefused(h)
    BY <2>2, AnswerInv DEF QueryRefused, Reply, Replies, Causes
  <2>3. CASE QueryOk(h)
    BY <2>3, AnswerInv DEF QueryOk, Reply, Replies, Causes
  <2>4. CASE QueryEsError(h)
    BY <2>4, AnswerInv DEF QueryEsError, Reply, Replies, Causes
  <2>5. CASE QueryGarbage(h)
    BY <2>5, AnswerInv DEF QueryGarbage, Reply, Replies, Causes
  <2> QED  BY <1>5, <2>1, <2>2, <2>3, <2>4, <2>5 DEF QueryEnd
<1>6. CASE DisconnectEnd(h)
  <2>1. CASE DisconnectClosed(h)
    <3>1. Reply(204, "done") \in Replies
      BY DEF Reply, Replies, Causes
    <3> QED  BY <2>1, <3>1, HandlerClosedInv DEF DisconnectClosed
  <2>2. CASE DisconnectCloseRaised(h)
    <3>1. Reply(500, "aclose") \in Replies
      BY DEF Reply, Replies, Causes
    <3> QED  BY <2>2, <3>1, HandlerClosedInv DEF DisconnectCloseRaised
  <2> QED  BY <1>6, <2>1, <2>2 DEF DisconnectEnd
<1> QED  BY <1>1, <1>2, <1>3, <1>4, <1>5, <1>6 DEF HandlerStep

LEMMA SweepLoopInv ==
  ASSUME IInv, NEW queue \in SUBSET Clients, Listed(queue),
         task[Lifespan] = "serving", task[Sweeper] \in {"sleeping", "reaping"},
         SweepLoop(queue, AfterSweeper), UNCHANGED handlerVars
  PROVE  IInv'
<1>1. CASE queue \cap store = {}
  BY <1>1, SweepSleepInv DEF SweepLoop
<1>2. ASSUME NEW c \in queue \cap store,
             StoreRemove(Sweeper, c, AfterSweeper, "sweep", "reaping"),
             sweepQueue' = queue \ {c}, UNCHANGED timer
      PROVE  IInv'
  BY <1>2, SweepPopInv
<1> QED  BY <1>1, <1>2 DEF SweepLoop

LEMMA SweeperInv ==
  ASSUME IInv, SweeperStep
  PROVE  IInv'
<1>1. CASE SweepWake
  <2>1. Listed({c \in store : Expired(c)}) /\ {c \in store : Expired(c)} \subseteq Clients
    BY DEF Listed, IInv, TypeOK
  <2>2. AfterSweeper = client
    BY <1>1 DEF SweepWake, AfterSweeper
  <2> QED  BY <1>1, <2>1, <2>2, SweepLoopInv DEF SweepWake
<1>2. CASE SweepClosed
  <2>1. Listed(sweepQueue) /\ sweepQueue \subseteq Clients
    BY DEF Listed, IInv, TypeOK, SweepListed
  <2>2. AfterSweeper = AfterClose(Sweeper)
    BY <1>2 DEF SweepClosed, AfterSweeper
  <2> QED  BY <1>2, <2>1, <2>2, SweepLoopInv DEF SweepClosed
<1>3. CASE SweepCloseRaised
  BY <1>3, SweepCloseRaisedInv
<1>4. CASE SweepCancelled
  BY <1>4, SweepCancelledInv
<1> QED  BY <1>1, <1>2, <1>3, <1>4 DEF SweeperStep

LEMMA CloseAllInv ==
  ASSUME IInv, \A h \in Handlers : task[h] = "idle",
         task[Lifespan] \in {"serving", "halting"},
         CloseAllLoop(AfterLifespan), UNCHANGED <<handlerVars, sweepVars>>
  PROVE  IInv'
  BY ShutdownPopInv, ShutdownStopInv DEF CloseAllLoop

LEMMA ShutdownInv ==
  ASSUME IInv, ShutdownBegin \/ ShutdownStep
  PROVE  IInv'
<1>1. CASE ShutdownBegin
  <2>1. AfterLifespan = client
    BY <1>1 DEF ShutdownBegin, AfterLifespan
  <2> QED  BY <1>1, <2>1, CloseAllInv DEF ShutdownBegin
<1>2. CASE ShutdownClosed
  <2>1. AfterLifespan = AfterClose(Lifespan)
    BY <1>2 DEF ShutdownClosed, AfterLifespan
  <2>2. \A h \in Handlers : task[h] = "idle"
    BY <1>2 DEF IInv, Drained, ShutdownClosed
  <2> QED  BY <1>2, <2>1, <2>2, CloseAllInv DEF ShutdownClosed
<1>3. CASE ShutdownCloseRaised
  BY <1>3, ShutdownCloseRaisedInv
<1> QED  BY <1>1, <1>2, <1>3 DEF ShutdownStep

LEMMA StutterInv ==
  ASSUME IInv, UNCHANGED vars
  PROVE  IInv'
  BY DEF IInv, TypeOK, StoredIsOpen, HoldsClient, ConnectOwns, ClosesClosing,
      ClosedOnce, OpenIsOwned, ClosingIsAwaited, Owned, Awaited, QueryLease,
      SweepListed, Drained, Emptied, Faultless, Halts, ShutdownRaised, Closes, Expired,
      vars

LEMMA NextInv == IInv /\ [Next]_vars => IInv'
<1> SUFFICES ASSUME IInv, [Next]_vars PROVE IInv'
  OBVIOUS
<1>1. ASSUME NEW h \in Handlers,
             Connect(h) \/ Query(h) \/ Disconnect(h) \/ HandlerStep(h)
      PROVE  IInv'
  BY <1>1, HandlerInv
<1>2. CASE SweeperStep
  BY <1>2, SweeperInv
<1>3. CASE ShutdownBegin \/ ShutdownStep
  BY <1>3, ShutdownInv
<1>4. CASE Tick
  BY <1>4, TickInv
<1>5. CASE Terminated \/ UNCHANGED vars
  BY <1>5, StutterInv DEF Terminated
<1> QED  BY <1>1, <1>2, <1>3, <1>4, <1>5 DEF Next

-----------------------------------------------------------------------------
(* The invariant the theorems below follow from: beside the session's own   *)
(* state it says who owns every client at every moment.                     *)
THEOREM Invariance == Spec => []IInv
  BY InitInv, NextInv, PTL DEF Spec

(* The state of the session service is always well formed. *)
THEOREM TypeCorrect == Spec => []TypeOK
<1>1. IInv => TypeOK
  BY DEF IInv
<1> QED  BY <1>1, Invariance, PTL

(* No query is ever handed a client somebody is closing or has closed: what *)
(* the store returns is open.                                               *)
THEOREM StoredClientsAreOpen == Spec => []StoredIsOpen
<1>1. IInv => StoredIsOpen
  BY DEF IInv
<1> QED  BY <1>1, Invariance, PTL

(* A disconnect, the sweeper and the shutdown never close one client twice. *)
THEOREM ClientsAreClosedOnce == Spec => []ClosedOnce
<1>1. IInv => ClosedOnce
  BY DEF IInv
<1> QED  BY <1>1, Invariance, PTL

(* However connects, disconnects, sweeps and the shutdown interleave, only  *)
(* three faults leave a client open, or half closed, with nobody to close   *)
(* it: a garbled greeting, an aclose that raises, the sweeper's end.        *)
THEOREM OnlyFaultsForgetClients == Spec => []OnlyFaultsOrphan
<1>1. IInv => OnlyFaultsOrphan
  BY DEF IInv, OpenIsOwned, ClosingIsAwaited, OnlyFaultsOrphan
<1> QED  BY <1>1, Invariance, PTL

(* What the sweeper listed before its awaits is still right after them. *)
THEOREM SweepListIsCurrent == Spec => []SweepListExpired
<1>1. IInv => SweepListExpired
  BY DEF IInv, SweepListed, SweepListExpired
<1> QED  BY <1>1, Invariance, PTL

(* A query that fits in the TTL loses its client to nobody but a disconnect *)
(* of its own session.                                                      *)
THEOREM OnlyDisconnectInterrupts == Spec => []InUseEndsByDisconnect
<1>1. IInv => InUseEndsByDisconnect
  BY DEF IInv, QueryLease, StoredIsOpen, InUseEndsByDisconnect
<1> QED  BY <1>1, Invariance, PTL

(* When the process ends, a client that is not closed is one a fault struck *)
(* or, if an aclose of close_all raised, one close_all did not get to.      *)
THEOREM ShutdownLeavesOnlyFaults == Spec => []CleanShutdown
<1>1. IInv => CleanShutdown
  <2> SUFFICES ASSUME IInv, task[Lifespan] \in {"stopped", "failed"},
                      task[Sweeper] \in {"cancelled", "dead"}, NEW c \in Clients,
                      fault[c] = "none"
               PROVE  client[c] \in {"none", "closed"} \/ (c \in store /\ ShutdownRaised)
    BY DEF CleanShutdown
  <2>1. \A h \in Handlers : task[h] = "idle"
    BY DEF IInv, Drained
  <2>2. client[c] # "open" \/ (c \in store /\ ShutdownRaised)
    BY <2>1 DEF IInv, OpenIsOwned, Owned, Emptied, Halts
  <2>3. ~Awaited(c)
    BY <2>1 DEF Tasks, Awaited, Closes, ClosingPoints
  <2>4. client[c] # "closing"
    BY <2>3 DEF IInv, ClosingIsAwaited
  <2> QED  BY <2>2, <2>4 DEF IInv, TypeOK, ClientStates
<1> QED  BY <1>1, Invariance, PTL

-----------------------------------------------------------------------------
(* No session comes back, and EsSessions implements SessionLifecycle.       *)

(* A client that no session had yet was never taken out of the store: what  *)
(* a connect stores is new to SessionLifecycle.                             *)
Unended ==
    \A c \in Clients :
        \/ client[c] = "none"
        \/ \E h \in Handlers : task[h] = "connecting" /\ using[h] = c
        => endedBy[c] = "nobody"

(* The invariant the refinement needs. *)
RInv == IInv /\ Unended

(* status and serving of SessionLifecycle, client by client and request by *)
(* request.                                                                *)
Life(c) == IF c \notin store THEN Fate[endedBy[c]]
           ELSE IF Expired(c) THEN "expired" ELSE "live"
Served(h) == IF task[h] = "querying" THEN using[h] ELSE NoClient

(* The steps of SessionLifecycle, said of one client or one request at a    *)
(* time.                                                                    *)
LEMMA OpenMaps ==
  ASSUME NEW s \in Clients, Life(s) = "none",
         \A c \in Clients : Life(c)' = IF c = s THEN "live" ELSE Life(c),
         \A h \in Handlers : Served(h)' = Served(h)
  PROVE  Lifecycle!Open(s)
  BY DEF Lifecycle!Open, Life, Served

LEMMA GrantMaps ==
  ASSUME NEW s \in Clients, NEW k \in Handlers, Life(s) = "live", Served(k) = NoClient,
         \A c \in Clients : Life(c)' = Life(c),
         \A h \in Handlers : Served(h)' = IF h = k THEN s ELSE Served(h)
  PROVE  Lifecycle!Grant(k, s)
  BY DEF Lifecycle!Grant, Life, Served

LEMMA ReleaseMaps ==
  ASSUME NEW k \in Handlers, Served(k) # NoClient,
         \A c \in Clients : Life(c)' = Life(c),
         \A h \in Handlers : Served(h)' = IF h = k THEN NoClient ELSE Served(h)
  PROVE  Lifecycle!Release(k)
  BY DEF Lifecycle!Release, Life, Served

LEMMA LapseMaps ==
  ASSUME NEW S \in SUBSET Clients, S # {},
         \A s \in S : Life(s) = "live" /\ \A h \in Handlers : Served(h) # s,
         \A c \in Clients : Life(c)' = IF c \in S THEN "expired" ELSE Life(c),
         \A h \in Handlers : Served(h)' = Served(h)
  PROVE  Lifecycle!Lapse(S)
  BY DEF Lifecycle!Lapse, Lifecycle!Unused, Life, Served

LEMMA EndMaps ==
  ASSUME NEW s \in Clients, NEW to,
         \/ to = "revoked" /\ Life(s) \in {"live", "expired"}
         \/ to = "reaped" /\ Life(s) = "expired"
         \/ to = "halted" /\ Life(s) \in {"live", "expired"}
                          /\ \A h \in Handlers : Served(h) = NoClient,
         \A c \in Clients : Life(c)' = IF c = s THEN to ELSE Life(c),
         \A h \in Handlers : Served(h)' = Served(h)
  PROVE  Lifecycle!End(s)
<1>1. CASE to = "revoked"
  BY <1>1 DEF Lifecycle!End, Lifecycle!Revoke, Life, Served
<1>2. CASE to = "reaped"
  BY <1>2 DEF Lifecycle!End, Lifecycle!Reap, Life, Served
<1>3. CASE to = "halted"
  BY <1>3 DEF Lifecycle!End, Lifecycle!Halt, Life, Served
<1> QED BY <1>1, <1>2, <1>3

LEMMA StutterMaps ==
  ASSUME \A c \in Clients : Life(c)' = Life(c),
         \A h \in Handlers : Served(h)' = Served(h)
  PROVE  UNCHANGED Lifecycle!vars
  BY DEF Lifecycle!vars, Life, Served

LEMMA QuietStep ==
  ASSUME IInv, UNCHANGED sessionVars, NEW t \in Tasks, NEW point,
         task[t] # "querying", point # "querying",
         task' = [task EXCEPT ![t] = point],
         NEW c \in Clients \cup {NoClient}, using' = [using EXCEPT ![t] = c]
  PROVE  UNCHANGED Lifecycle!vars
<1>1. \A d \in Clients : Life(d)' = Life(d)
  BY DEF Life, Expired, sessionVars
<1>2. \A h \in Handlers : Served(h)' = Served(h)
  BY DEF IInv, TypeOK, Served, Tasks
<1> QED  BY <1>1, <1>2, StutterMaps

(* A task that goes on without touching a session, outside a query: nothing *)
(* SessionLifecycle sees changes.                                           *)
LEMMA QuietTask ==
  ASSUME IInv, UNCHANGED <<sessionVars, using>>, NEW t \in Tasks, NEW point,
         task[t] # "querying", point # "querying", task' = [task EXCEPT ![t] = point]
  PROVE  UNCHANGED Lifecycle!vars
<1>1. \A d \in Clients : Life(d)' = Life(d)
  BY DEF Life, Expired, sessionVars
<1>2. \A h \in Handlers : Served(h)' = Served(h)
  BY DEF IInv, TypeOK, Served, Tasks
<1> QED  BY <1>1, <1>2, StutterMaps

(* A step that moves no task and touches no session. *)
LEMMA StillStep ==
  ASSUME UNCHANGED <<sessionVars, task, using>>
  PROVE  UNCHANGED Lifecycle!vars
<1>1. \A d \in Clients : Life(d)' = Life(d)
  BY DEF Life, Expired, sessionVars
<1>2. \A h \in Handlers : Served(h)' = Served(h)
  BY DEF Served
<1> QED  BY <1>1, <1>2, StutterMaps

(* The connect that succeeds opens a session ... *)
LEMMA ConnectOkStep ==
  ASSUME RInv, NEW h \in Handlers, ConnectOk(h)
  PROVE  \E c \in Clients : Lifecycle!Open(c)
<1>1. PICK c \in Clients : c = using[h]
  BY DEF RInv, IInv, HoldsClient, ConnectOk, Tasks
<1>2. c \notin store /\ endedBy[c] = "nobody"
  BY <1>1 DEF RInv, IInv, ConnectOwns, ConnectOk, Unended
<1>3. Life(c) = "none"
  BY <1>2 DEF Life, Fate
<1>4. \A d \in Clients : Life(d)' = IF d = c THEN "live" ELSE Life(d)
  BY <1>1, <1>2, TimeAssumption DEF ConnectOk, StoreCreate, Life, Expired, RInv, IInv, TypeOK
<1>5. \A k \in Handlers : Served(k)' = Served(k)
  BY DEF ConnectOk, Respond, Leave, Served, RInv, IInv, TypeOK, Tasks
<1>6. Lifecycle!Open(c)
  BY <1>3, <1>4, <1>5, OpenMaps
<1> QED  BY <1>6

(* ... the query that client_for lets in is granted it ... *)
LEMMA QueryBeginStep ==
  ASSUME IInv, NEW h \in Handlers, NEW c \in Clients, QueryBegin(h, c)
  PROVE  Lifecycle!Grant(h, c)
<1>1. Life(c) = "live" /\ Served(h) = NoClient
  BY DEF QueryBegin, Arrives, Gettable, Life, Served
<1>2. \A d \in Clients : Life(d)' = Life(d)
  BY TimeAssumption DEF QueryBegin, Gettable, StoreGet, Life, Expired, IInv, TypeOK
<1>3. \A k \in Handlers : Served(k)' = IF k = h THEN c ELSE Served(k)
  BY DEF QueryBegin, Served, IInv, TypeOK, Tasks
<1> QED  BY <1>1, <1>2, <1>3, GrantMaps

(* ... and releases it, however it ends. *)
LEMMA QueryEndStep ==
  ASSUME IInv, NEW h \in Handlers, NEW r, task[h] = "querying", Respond(h, r),
         UNCHANGED sessionVars
  PROVE  Lifecycle!Release(h)
<1>1. Served(h) # NoClient
  BY TasksAssumption DEF IInv, HoldsClient, Served, Tasks
<1>2. \A d \in Clients : Life(d)' = Life(d)
  BY DEF Life, Expired, sessionVars
<1>3. \A k \in Handlers : Served(k)' = IF k = h THEN NoClient ELSE Served(k)
  BY DEF Respond, Leave, Served, IInv, TypeOK, Tasks
<1> QED  BY <1>1, <1>2, <1>3, ReleaseMaps

(* Whoever pops a session ends it: its owner whenever it likes, the sweeper *)
(* once it expired, the shutdown once no request is left.                   *)
LEMMA RemoveStep ==
  ASSUME IInv, NEW t \in Tasks, NEW c \in store, NEW clients, NEW who, NEW point,
         task[t] # "querying", point # "querying",
         StoreRemove(t, c, clients, who, point),
         \/ who = "disconnect"
         \/ who = "sweep" /\ Expired(c)
         \/ who = "shutdown" /\ \A h \in Handlers : task[h] = "idle"
  PROVE  Lifecycle!End(c)
<1>1. c \in Clients
  BY DEF IInv, TypeOK
<1>2. Life(c) = IF Expired(c) THEN "expired" ELSE "live"
  BY DEF Life
<1>3. \A d \in Clients : Life(d)' = IF d = c THEN Fate[who] ELSE Life(d)
  BY <1>1 DEF StoreRemove, Life, Expired, IInv, TypeOK
<1>4. \A h \in Handlers : Served(h)' = Served(h)
  BY DEF StoreRemove, Served, IInv, TypeOK, Tasks
<1>5. \A h \in Handlers : task[h] = "idle" => Served(h) = NoClient
  BY DEF Served
<1>6. \/ Fate[who] = "revoked"
      \/ Fate[who] = "reaped" /\ Expired(c)
      \/ Fate[who] = "halted" /\ \A h \in Handlers : task[h] = "idle"
  BY DEF Fate
<1> QED  BY <1>1, <1>2, <1>3, <1>4, <1>5, <1>6, EndMaps

(* Time makes idle sessions lapse, and only them: a session in use has been *)
(* idle for no longer than its query lasts, which is less than the TTL.     *)
LEMMA TickStep ==
  ASSUME IInv, Tick
  PROVE  Lifecycle!Next \/ UNCHANGED Lifecycle!vars
<1>1. PICK S \in SUBSET Clients : S = {c \in store : ~Expired(c) /\ idle[c] + 1 > TTL}
  BY DEF IInv, TypeOK
<1>2. \A c \in Clients : Life(c)' = IF c \in S THEN "expired" ELSE Life(c)
  BY <1>1, TimeAssumption DEF Tick, Life, Expired, IInv, TypeOK
<1>3. \A h \in Handlers : Served(h)' = Served(h)
  BY DEF Tick, Served
<1>4. CASE S = {}
  BY <1>2, <1>3, <1>4, StutterMaps
<1>5. CASE S # {}
  <2>1. ASSUME NEW s \in S PROVE Life(s) = "live" /\ \A h \in Handlers : Served(h) # s
    <3>1. Life(s) = "live"
      BY <1>1 DEF Life
    <3>2. ASSUME NEW h \in Handlers, Served(h) = s PROVE FALSE
      <4>1. s \in Clients /\ s # NoClient /\ s \in store
        BY <1>1, TasksAssumption
      <4>2. task[h] = "querying" /\ using[h] = s
        BY <3>2, <4>1 DEF Served
      <4>3. idle[s] <= age[h] /\ age[h] < Deadline
        BY <4>1, <4>2 DEF Tick, IInv, QueryLease
      <4>4. idle[s] \in 0 .. TTL + 1 /\ age[h] \in 0 .. Deadline
        BY <4>1 DEF IInv, TypeOK
      <4> QED  BY <1>1, <4>3, <4>4, TimeAssumption
    <3> QED  BY <3>1, <3>2
  <2>2. Lifecycle!Lapse(S)
    BY <1>2, <1>3, <1>5, <2>1, LapseMaps
  <2> QED  BY <2>2 DEF Lifecycle!Next
<1> QED  BY <1>4, <1>5

(* Every step of EsSessions is one of SessionLifecycle, or none. *)
LEMMA HandlerMaps ==
  ASSUME RInv, NEW h \in Handlers,
         Connect(h) \/ Query(h) \/ Disconnect(h) \/ HandlerStep(h)
  PROVE  Lifecycle!Next \/ UNCHANGED Lifecycle!vars
<1> h \in Tasks /\ IInv
  BY DEF Tasks, RInv
<1>1. ASSUME NEW c \in Clients, ConnectBegin(h, c) PROVE UNCHANGED Lifecycle!vars
  BY <1>1, QuietStep DEF ConnectBegin, Arrives
<1>2. ASSUME NEW r, task[h] # "querying", Respond(h, r), UNCHANGED sessionVars
      PROVE  UNCHANGED Lifecycle!vars
  BY <1>2, QuietStep DEF Respond, Leave
<1>3. ASSUME NEW r, task[h] = "querying", Respond(h, r), UNCHANGED sessionVars
      PROVE  Lifecycle!Next
  BY <1>3, QueryEndStep DEF Lifecycle!Next
<1>4. CASE Connect(h)
  BY <1>1, <1>2, <1>4 DEF Connect, ConnectUnusable, Arrives
<1>5. CASE Query(h)
  <2>1. ASSUME NEW c \in Clients, QueryBegin(h, c) PROVE Lifecycle!Next
    BY <2>1, QueryBeginStep DEF Lifecycle!Next
  <2> QED  BY <1>2, <1>5, <2>1 DEF Query, QueryUnauthorized, Arrives
<1>6. CASE Disconnect(h)
  <2>1. ASSUME NEW c \in Clients, DisconnectBegin(h, c) PROVE Lifecycle!Next
    <3>1. Lifecycle!End(c)
      BY <2>1, RemoveStep DEF DisconnectBegin, Arrives
    <3> QED  BY <3>1 DEF Lifecycle!Next
  <2> QED  BY <1>2, <1>6, <2>1 DEF Disconnect, DisconnectUnknown, Arrives
<1>7. CASE ConnectEnd(h)
  <2>1. CASE ConnectOk(h)
    BY <2>1, ConnectOkStep DEF Lifecycle!Next
  <2>2. CASE ConnectEsError(h)
    BY <2>2, QuietTask DEF ConnectEsError
  <2> QED  BY <1>2, <1>7, <2>1, <2>2
           DEF ConnectEnd, ConnectAborted, ConnectAbortRaised, ConnectGarbage
<1>8. CASE QueryEnd(h)
  <2>1. CASE QueryMore(h)
    BY <2>1, StillStep DEF QueryMore, sessionVars
  <2> QED  BY <1>3, <1>8, <2>1 DEF QueryEnd, QueryRefused, QueryOk, QueryEsError, QueryGarbage
<1>9. CASE DisconnectEnd(h)
  BY <1>2, <1>9 DEF DisconnectEnd, DisconnectClosed, DisconnectCloseRaised
<1> QED  BY <1>4, <1>5, <1>6, <1>7, <1>8, <1>9 DEF HandlerStep

LEMMA SweeperMaps ==
  ASSUME IInv, SweeperStep
  PROVE  Lifecycle!Next \/ UNCHANGED Lifecycle!vars
<1>0. Sweeper \in Tasks
  BY DEF Tasks
<1>1. ASSUME NEW queue \in SUBSET Clients, NEW clients, Listed(queue),
             task[Sweeper] # "querying", SweepLoop(queue, clients)
      PROVE  Lifecycle!Next \/ UNCHANGED Lifecycle!vars
  <2>1. CASE Leave(Sweeper, "sleeping") /\ UNCHANGED sessionVars
    BY <1>0, <1>1, <2>1, QuietStep DEF Leave
  <2>2. ASSUME NEW c \in queue \cap store,
               StoreRemove(Sweeper, c, clients, "sweep", "reaping")
        PROVE  Lifecycle!Next
    <3>1. c \in Clients /\ Expired(c)
      BY <1>1 DEF Listed
    <3>2. Lifecycle!End(c)
      BY <1>0, <1>1, <2>2, <3>1, RemoveStep
    <3> QED  BY <3>1, <3>2 DEF Lifecycle!Next
  <2> QED  BY <1>1, <2>1, <2>2 DEF SweepLoop
<1>2. CASE SweepWake
  <2>1. Listed({c \in store : Expired(c)}) /\ {c \in store : Expired(c)} \in SUBSET Clients
    BY DEF Listed, IInv, TypeOK
  <2> QED  BY <1>1, <1>2, <2>1 DEF SweepWake
<1>3. CASE SweepClosed
  <2>1. Listed(sweepQueue) /\ sweepQueue \in SUBSET Clients
    BY DEF Listed, IInv, TypeOK, SweepListed
  <2> QED  BY <1>1, <1>3, <2>1 DEF SweepClosed
<1>4. CASE SweepCloseRaised
  BY <1>0, <1>4, QuietStep DEF SweepCloseRaised, Leave
<1>5. CASE SweepCancelled
  BY <1>0, <1>5, QuietStep DEF SweepCancelled, Leave
<1> QED  BY <1>2, <1>3, <1>4, <1>5 DEF SweeperStep

LEMMA ShutdownMaps ==
  ASSUME IInv, ShutdownBegin \/ ShutdownStep
  PROVE  Lifecycle!Next \/ UNCHANGED Lifecycle!vars
<1>0. Lifespan \in Tasks
  BY DEF Tasks
<1>1. ASSUME NEW clients, \A h \in Handlers : task[h] = "idle",
             task[Lifespan] # "querying", CloseAllLoop(clients)
      PROVE  Lifecycle!Next \/ UNCHANGED Lifecycle!vars
  <2>1. CASE Leave(Lifespan, "stopped") /\ UNCHANGED sessionVars
    BY <1>0, <1>1, <2>1, QuietStep DEF Leave
  <2>2. ASSUME NEW c \in store,
               StoreRemove(Lifespan, c, clients, "shutdown", "halting")
        PROVE  Lifecycle!Next
    <3>1. c \in Clients
      BY DEF IInv, TypeOK
    <3>2. Lifecycle!End(c)
      BY <1>0, <1>1, <2>2, RemoveStep
    <3> QED  BY <3>1, <3>2 DEF Lifecycle!Next
  <2> QED  BY <1>1, <2>1, <2>2 DEF CloseAllLoop
<1>2. CASE ShutdownBegin
  BY <1>1, <1>2 DEF ShutdownBegin
<1>3. CASE ShutdownClosed
  BY <1>1, <1>3 DEF ShutdownClosed, IInv, Drained
<1>4. CASE ShutdownCloseRaised
  BY <1>0, <1>4, QuietStep DEF ShutdownCloseRaised, Leave
<1> QED  BY <1>2, <1>3, <1>4 DEF ShutdownStep

LEMMA NextMaps == RInv /\ [Next]_vars => [Lifecycle!Next]_Lifecycle!vars
<1> SUFFICES ASSUME RInv, [Next]_vars
             PROVE  Lifecycle!Next \/ UNCHANGED Lifecycle!vars
  OBVIOUS
<1>1. IInv
  BY DEF RInv
<1>2. CASE Terminated \/ UNCHANGED vars
  BY <1>2, StillStep DEF Terminated, vars, sessionVars
<1> QED  BY <1>1, <1>2, HandlerMaps, SweeperMaps, ShutdownMaps, TickStep DEF Next

-----------------------------------------------------------------------------
LEMMA InitUnended == Init => RInv
  BY InitInv, TasksAssumption DEF RInv, Init, Unended, Tasks

(* A step that ends no session, and begins to connect no client but a fresh one. *)
LEMMA UnendedKept ==
  ASSUME IInv, Unended, UNCHANGED endedBy,
         \A c \in Clients : client'[c] = "none" => client[c] = "none",
         \A h \in Handlers : task'[h] = "connecting" =>
            \/ task[h] = "connecting" /\ using'[h] = using[h]
            \/ client[using'[h]] = "none"
  PROVE  Unended'
  BY DEF Unended

(* A step that pops a session: it was stored, so no connect holds it. *)
LEMMA UnendedRemove ==
  ASSUME IInv, Unended, NEW t \in Tasks, NEW c \in store, NEW clients, NEW who, NEW point,
         point # "connecting", \A d \in Clients : clients[d] = "none" <=> client[d] = "none",
         DOMAIN clients = Clients,
         StoreRemove(t, c, clients, who, point)
  PROVE  Unended'
<1>1. c \in Clients /\ client[c] = "open"
      /\ \A h \in Handlers : ~(task[h] = "connecting" /\ using[h] = c)
  BY DEF IInv, TypeOK, StoredIsOpen, ConnectOwns
<1>2. client'[c] # "none"
      /\ \A d \in Clients : d # c => (client'[d] = "none" <=> client[d] = "none")
  BY <1>1 DEF StoreRemove
<1>3. \A h \in Handlers : task'[h] = "connecting" => task[h] = "connecting" /\ using'[h] = using[h]
  BY DEF StoreRemove, IInv, TypeOK, Tasks
<1>4. \A d \in Clients : d # c => endedBy'[d] = endedBy[d]
  BY DEF StoreRemove, IInv, TypeOK
<1> QED  BY <1>1, <1>2, <1>3, <1>4 DEF Unended

LEMMA NextUnended == RInv /\ [Next]_vars => RInv'
<1> SUFFICES ASSUME IInv, Unended, [Next]_vars PROVE Unended'
  BY NextInv DEF RInv
<1> USE TasksAssumption DEF Tasks
<1>1. ASSUME NEW h \in Handlers,
             Connect(h) \/ Query(h) \/ Disconnect(h) \/ HandlerStep(h)
      PROVE  Unended'
  <2>1. ASSUME NEW r, Respond(h, r), UNCHANGED endedBy,
               \/ UNCHANGED client
               \/ task[h] # "idle" /\ client' = AfterClose(h)
        PROVE  Unended'
    BY <2>1, UnendedKept DEF AfterClose, Respond, Leave, IInv, TypeOK
  <2>2. ASSUME NEW c \in Clients, ConnectBegin(h, c) PROVE Unended'
    BY <2>2, UnendedKept DEF ConnectBegin, sessionVars, IInv, TypeOK
  <2>3. ASSUME NEW c \in Clients, QueryBegin(h, c) PROVE Unended'
    BY <2>3, UnendedKept DEF QueryBegin, StoreGet, clientVars, IInv, TypeOK
  <2>4. ASSUME NEW c \in Clients, DisconnectBegin(h, c) PROVE Unended'
    BY <2>4, UnendedRemove DEF DisconnectBegin, IInv, TypeOK
  <2>5. ASSUME ConnectEsError(h) PROVE Unended'
    BY <2>5, UnendedKept DEF ConnectEsError, sessionVars, IInv, TypeOK
  <2>6. ASSUME QueryMore(h) PROVE Unended'
    BY <2>6, UnendedKept DEF QueryMore, sessionVars, clientVars, IInv, TypeOK
  <2>7. CASE Connect(h) \/ Query(h) \/ Disconnect(h)
    BY <2>1, <2>2, <2>3, <2>4, <2>7
       DEF Connect, Query, Disconnect, ConnectUnusable, QueryUnauthorized,
           DisconnectUnknown, sessionVars, clientVars
  <2>8. CASE ConnectEnd(h)
    <3>1. CASE ConnectOk(h)
      BY <2>1, <3>1 DEF ConnectOk, StoreCreate, clientVars
    <3>2. CASE ConnectAborted(h) \/ ConnectAbortRaised(h)
      BY <2>1, <3>2 DEF ConnectAborted, ConnectAbortRaised, Closed, CloseRaised, sessionVars
    <3>3. CASE ConnectGarbage(h)
      BY <2>1, <3>3 DEF ConnectGarbage, sessionVars
    <3> QED  BY <2>5, <2>8, <3>1, <3>2, <3>3 DEF ConnectEnd
  <2>9. CASE QueryEnd(h)
    BY <2>1, <2>6, <2>9
       DEF QueryEnd, QueryRefused, QueryOk, QueryEsError, QueryGarbage, sessionVars,
           clientVars
  <2>10. CASE DisconnectEnd(h)
    BY <2>1, <2>10
       DEF DisconnectEnd, DisconnectClosed, DisconnectCloseRaised, Closed,
           CloseRaised, sessionVars
  <2> QED  BY <1>1, <2>7, <2>8, <2>9, <2>10 DEF HandlerStep
<1>2. ASSUME NEW queue \in SUBSET Clients, NEW clients, DOMAIN clients = Clients,
             \A d \in Clients : clients[d] = "none" <=> client[d] = "none",
             SweepLoop(queue, clients) \/ CloseAllLoop(clients)
      PROVE  Unended'
  <2>1. ASSUME NEW t \in {Sweeper, Lifespan}, NEW point \in {"sleeping", "stopped"},
               Leave(t, point), client' = clients, UNCHANGED sessionVars
        PROVE  Unended'
    BY <1>2, <2>1, UnendedKept DEF Leave, sessionVars, IInv, TypeOK
  <2>2. ASSUME NEW c \in store, \/ StoreRemove(Sweeper, c, clients, "sweep", "reaping")
                                \/ StoreRemove(Lifespan, c, clients, "shutdown", "halting")
        PROVE  Unended'
    BY <1>2, <2>2, UnendedRemove
  <2> QED  BY <1>2, <2>1, <2>2 DEF SweepLoop, CloseAllLoop
<1>3. ASSUME NEW t \in {Sweeper, Lifespan}, task[t] \in ClosingPoints
      PROVE  /\ DOMAIN AfterClose(t) = Clients
             /\ \A d \in Clients : AfterClose(t)[d] = "none" <=> client[d] = "none"
  BY <1>3 DEF AfterClose, IInv, TypeOK, HoldsClient, ClosesClosing, Closes
<1>4. CASE SweeperStep
  <2>1. CASE SweepWake
    <3>1. {c \in store : Expired(c)} \in SUBSET Clients /\ DOMAIN client = Clients
      BY DEF IInv, TypeOK
    <3> QED  BY <1>2, <2>1, <3>1 DEF SweepWake
  <2>2. CASE SweepClosed
    <3>1. sweepQueue \in SUBSET Clients
      BY DEF IInv, TypeOK
    <3> QED  BY <1>2, <1>3, <2>2, <3>1 DEF SweepClosed, ClosingPoints
  <2>3. CASE SweepCloseRaised
    BY <2>3, UnendedKept DEF SweepCloseRaised, CloseRaised, Leave, sessionVars, IInv, TypeOK
  <2>4. CASE SweepCancelled
    BY <2>4, UnendedKept DEF SweepCancelled, Closed, AfterClose, Leave, sessionVars,
                            clientVars, IInv, TypeOK
  <2> QED  BY <1>4, <2>1, <2>2, <2>3, <2>4 DEF SweeperStep
<1>5. CASE ShutdownBegin \/ ShutdownStep
  <2>1. CASE ShutdownBegin
    BY <1>2, <2>1 DEF ShutdownBegin, IInv, TypeOK
  <2>2. CASE ShutdownClosed
    BY <1>2, <1>3, <2>2 DEF ShutdownClosed, ClosingPoints
  <2>3. CASE ShutdownCloseRaised
    BY <2>3, UnendedKept DEF ShutdownCloseRaised, CloseRaised, Leave, sessionVars, IInv, TypeOK
  <2> QED  BY <1>5, <2>1, <2>2, <2>3 DEF ShutdownStep
<1>6. CASE Tick \/ Terminated \/ UNCHANGED vars
  BY <1>6, UnendedKept DEF Tick, Terminated, vars, clientVars
<1> QED  BY <1>1, <1>4, <1>5, <1>6 DEF Next

(* Whatever tasks and failures interleave, the session service does what    *)
(* SessionLifecycle promises its callers.                                   *)
THEOREM Refinement == Spec => LifecycleSpec
<1>1. Init => Lifecycle!Init
  BY DEF Init, Lifecycle!Init, Fate, Tasks
<1> QED  BY <1>1, InitUnended, NextUnended, NextMaps, PTL
         DEF Spec, LifecycleSpec, Lifecycle!Spec

-----------------------------------------------------------------------------
(* c is not revived by this step, nor swept before its time. *)
NotRevived(c) ==
    /\ (c \in store /\ Expired(c) /\ c \in store') => Expired(c)'
    /\ (c \in store /\ ~Expired(c) /\ c \notin store') => endedBy'[c] # "sweep"

LEMMA RemoveRevivesNone ==
  ASSUME IInv, NEW t, NEW d \in store, NEW clients, NEW who, NEW point,
         StoreRemove(t, d, clients, who, point), who = "sweep" => Expired(d),
         NEW c \in Clients
  PROVE  NotRevived(c)
  BY DEF StoreRemove, NotRevived, Expired, IInv, TypeOK

LEMMA NextRevivesNone ==
  ASSUME IInv, [Next]_vars, NEW c \in Clients
  PROVE  NotRevived(c)
<1>1. ASSUME UNCHANGED sessionVars PROVE NotRevived(c)
  BY <1>1 DEF sessionVars, NotRevived, Expired
<1>2. ASSUME NEW h \in Handlers,
             Connect(h) \/ Query(h) \/ Disconnect(h) \/ HandlerStep(h)
      PROVE  NotRevived(c)
  <2>1. ASSUME NEW d \in Clients, QueryBegin(h, d) PROVE NotRevived(c)
    BY <2>1 DEF QueryBegin, Gettable, StoreGet, NotRevived, Expired, IInv, TypeOK
  <2>2. CASE ConnectOk(h)
    <3>1. using[h] \in Clients /\ using[h] \notin store
      BY <2>2 DEF IInv, HoldsClient, ConnectOwns, ConnectOk, Tasks
    <3> QED  BY <2>2, <3>1 DEF ConnectOk, StoreCreate, NotRevived, Expired, IInv, TypeOK
  <2>3. ASSUME NEW d \in Clients, DisconnectBegin(h, d) PROVE NotRevived(c)
    BY <2>3, RemoveRevivesNone DEF DisconnectBegin
  <2>4. CASE UNCHANGED sessionVars
    BY <1>1, <2>4
  <2> QED  BY <1>2, <2>1, <2>2, <2>3, <2>4
           DEF Connect, ConnectBegin, ConnectUnusable, Query, QueryUnauthorized,
               Disconnect, DisconnectUnknown, HandlerStep, ConnectEnd, ConnectEsError,
               ConnectAborted, ConnectAbortRaised, ConnectGarbage, QueryEnd, QueryMore,
               QueryRefused, QueryOk, QueryEsError, QueryGarbage, DisconnectEnd,
               DisconnectClosed, DisconnectCloseRaised
<1>3. CASE SweeperStep
  <2>1. ASSUME NEW queue, NEW clients, Listed(queue), SweepLoop(queue, clients)
        PROVE  NotRevived(c)
    <3>1. ASSUME NEW d \in queue \cap store,
                 StoreRemove(Sweeper, d, clients, "sweep", "reaping")
          PROVE  NotRevived(c)
      BY <2>1, <3>1, RemoveRevivesNone DEF Listed
    <3> QED  BY <1>1, <2>1, <3>1 DEF SweepLoop
  <2>2. Listed({d \in store : Expired(d)}) /\ Listed(sweepQueue)
    BY DEF Listed, IInv, SweepListed
  <2> QED  BY <1>1, <1>3, <2>1, <2>2
           DEF SweeperStep, SweepWake, SweepClosed, SweepCloseRaised, SweepCancelled
<1>4. CASE ShutdownBegin \/ ShutdownStep
  <2>1. ASSUME NEW clients, CloseAllLoop(clients) PROVE NotRevived(c)
    BY <1>1, <2>1, RemoveRevivesNone DEF CloseAllLoop
  <2> QED  BY <1>1, <1>4, <2>1
           DEF ShutdownBegin, ShutdownStep, ShutdownClosed, ShutdownCloseRaised
<1>5. CASE Tick
  BY <1>5, TimeAssumption DEF Tick, NotRevived, Expired, IInv, TypeOK
<1>6. CASE Terminated \/ UNCHANGED vars
  BY <1>1, <1>6 DEF Terminated, vars, sessionVars
<1> QED  BY <1>2, <1>3, <1>4, <1>5, <1>6 DEF Next

(* No request brings an expired session back to life before the sweeper     *)
(* ends it, and the sweeper ends no session that has not expired.           *)
THEOREM ExpiredStaysExpired == Spec => NoRevival
<1>1. IInv /\ [Next]_vars => [\A c \in Clients :
         /\ (c \in store /\ Expired(c) /\ c \in store') => Expired(c)'
         /\ (c \in store /\ ~Expired(c) /\ c \notin store') => endedBy'[c] # "sweep"]_vars
  BY NextRevivesNone DEF NotRevived
<1> QED  BY <1>1, Invariance, PTL DEF Spec, NoRevival

-----------------------------------------------------------------------------
(* What is proved of SessionLifecycle holds of the service, under the same  *)
(* mapping.                                                                 *)
Promise == INSTANCE SessionLifecycleProofs WITH
    Sessions <- Clients,
    Callers <- Handlers,
    Nobody <- NoClient,
    status <- [c \in Clients |-> Life(c)],
    serving <- [h \in Handlers |-> Served(h)]

LEMMA PromiseIsLifecycle == LifecycleSpec => Promise!Spec
<1> USE DEF Life, Served
<1>1. Lifecycle!Init => Promise!Init
  BY DEF Lifecycle!Init, Promise!Init
<1>2. Lifecycle!Next => Promise!Next
  BY DEF Lifecycle!Next, Lifecycle!Open, Lifecycle!End, Lifecycle!Revoke,
         Lifecycle!Reap, Lifecycle!Halt, Lifecycle!Lapse, Lifecycle!Unused,
         Lifecycle!Release, Lifecycle!Grant,
         Promise!Next, Promise!Open, Promise!End, Promise!Revoke, Promise!Reap,
         Promise!Halt, Promise!Lapse, Promise!Unused, Promise!Release, Promise!Grant
<1>3. [Lifecycle!Next]_(Lifecycle!vars) => [Promise!Next]_(Promise!vars)
  BY <1>2 DEF Lifecycle!vars, Promise!vars
<1> QED  BY <1>1, <1>3, PTL DEF LifecycleSpec, Lifecycle!Spec, Promise!Spec

(* A query in progress is on a session that has not expired, unless its own *)
(* owner disconnected it meanwhile: neither the sweeper nor the shutdown    *)
(* ends a session that serves.                                              *)
THEOREM QueriesAreServedLive == Spec => []ServedIsLive
<1>1. Promise!Spec => []Promise!ServedIsLive
  BY Promise!ServedSessionsAreLive
<1>2. Promise!ServedIsLive => ServedIsLive
  BY DEF Promise!ServedIsLive, ServedIsLive, Lifecycle!ServedIsLive, Life, Served
<1> QED  BY <1>1, <1>2, Refinement, PromiseIsLifecycle, PTL

(* A session that was disconnected, swept or shut down is gone for good. *)
THEOREM SessionsEndForGood == Spec => Promise!EndIsFinal
<1>1. Promise!Spec => Promise!EndIsFinal
  BY Promise!EndedSessionsStayEnded
<1> QED  BY <1>1, Refinement, PromiseIsLifecycle, PTL

=============================================================================
