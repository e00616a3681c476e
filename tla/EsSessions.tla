----------------------------- MODULE EsSessions -----------------------------
(***************************************************************************)
(* The live Elasticsearch sessions of the converter's web service: the     *)
(* SessionStore, the /es/... handlers that share it, the sweeper task that *)
(* reaps idle sessions, and the application lifespan that ends them all.   *)
(*                                                                         *)
(* Everything runs on one asyncio event loop, so an action is one stretch  *)
(* of code between two awaits that really suspend.  The awaits are the     *)
(* HTTP requests to the cluster and the closing of an HTTP client; other   *)
(* tasks run there.                                                        *)
(*                                                                         *)
(* A session is named by the EsClient it owns: every connect makes a new   *)
(* client and a session id nobody has seen before.                         *)
(***************************************************************************)
EXTENDS Integers

CONSTANTS
    Clients,        \* the EsClients that connects can create
    Handlers,       \* the requests the service can be handling at a time
    Sweeper,        \* the task of main._sweep_sessions
    Lifespan,       \* the task of main._lifespan
    NoClient,       \* the value of using of a task that holds no client
    TTL,            \* SessionStore's ttl_seconds, in ticks
    Interval,       \* _SWEEP_INTERVAL_SECONDS, in ticks
    Deadline,       \* how long a query lasts at most, in ticks
    MaxRequests,    \* how many requests a query sends to the cluster at most
    CloseMayFail    \* whether closing an HTTP client may raise

ASSUME TasksAssumption ==
    /\ Sweeper \notin Handlers
    /\ Lifespan \notin Handlers
    /\ Sweeper # Lifespan
    /\ NoClient \notin Clients

(* The httpx timeouts end every request of a query long before its session *)
(* could expire: Deadline <= TTL is 3 requests of seconds against 1800 s.  *)
(* The timeouts bound each read, not the whole answer: that the cluster     *)
(* does not trickle an answer for half an hour is an assumption.            *)
ASSUME TimeAssumption ==
    /\ TTL \in Nat
    /\ Interval \in Nat
    /\ Deadline \in Nat
    /\ Deadline <= TTL

ASSUME RequestsAssumption == MaxRequests \in Nat \ {0}

ASSUME CloseAssumption == CloseMayFail \in BOOLEAN

VARIABLES
    store,      \* the sessions of SessionStore._sessions
    idle,       \* ticks since the session was last used, up to TTL + 1
    client,     \* the state of each HTTP client
    fault,      \* history: what went wrong with the client, if anything did
    endedBy,    \* history: which code took the session out of the store
    task,       \* where each task is suspended
    using,      \* the client each task holds across its await
    asked,      \* the requests a handler's query has sent so far
    age,        \* ticks since a handler's query got its client
    reply,      \* the response of the handler's last request
    sweepQueue, \* what SessionStore.sweep has still to remove
    timer       \* ticks the sweeper has still to sleep

vars == <<store, idle, client, fault, endedBy, task, using, asked, age, reply,
          sweepQueue, timer>>

sessionVars == <<store, idle, endedBy>>
clientVars == <<client, fault>>
handlerVars == <<asked, age, reply>>
sweepVars == <<sweepQueue, timer>>

Tasks == Handlers \cup {Sweeper, Lifespan}

(* Where a task awaits the closing of the client it holds. *)
ClosingPoints == {"aborting", "removing", "reaping", "halting"}

HandlerPoints == {"idle", "connecting", "querying", "aborting", "removing"}
SweeperPoints == {"sleeping", "reaping", "cancelled", "dead"}
LifespanPoints == {"serving", "halting", "stopped", "failed"}

(* "closing": aclose began, and httpx refuses new requests from then on; it *)
(* is "closed" when aclose has returned.                                    *)
ClientStates == {"none", "open", "closing", "closed"}

(* What keeps a client from being closed: the cluster's greeting is garbled *)
(* and the connect drops it, its aclose raises, or its aclose is cancelled. *)
Faults == {"none", "garbled", "raised", "cancelled"}

(* What made the response what it is, beside its status code. *)
Causes == {"done", "session", "upstream", "garbage", "greeting", "tls",
           "closed", "aclose"}

NoReply == [status |-> 0, cause |-> "done"]
Reply(s, c) == [status |-> s, cause |-> c]
Replies == [status : {0, 200, 204, 401, 500, 502}, cause : Causes]

TypeOK ==
    /\ store \subseteq Clients
    /\ idle \in [Clients -> 0 .. TTL + 1]
    /\ client \in [Clients -> ClientStates]
    /\ fault \in [Clients -> Faults]
    /\ endedBy \in [Clients -> {"nobody", "disconnect", "sweep", "shutdown"}]
    /\ task \in [Tasks -> HandlerPoints \cup SweeperPoints \cup LifespanPoints]
    /\ \A h \in Handlers : task[h] \in HandlerPoints
    /\ task[Sweeper] \in SweeperPoints
    /\ task[Lifespan] \in LifespanPoints
    /\ using \in [Tasks -> Clients \cup {NoClient}]
    /\ asked \in [Handlers -> 0 .. MaxRequests]
    /\ age \in [Handlers -> 0 .. Deadline]
    /\ reply \in [Handlers -> Replies]
    /\ sweepQueue \subseteq Clients
    /\ timer \in 0 .. Interval

Init ==
    /\ store = {}
    /\ idle = [c \in Clients |-> 0]
    /\ client = [c \in Clients |-> "none"]
    /\ fault = [c \in Clients |-> "none"]
    /\ endedBy = [c \in Clients |-> "nobody"]
    /\ task = [t \in Tasks |-> IF t = Sweeper THEN "sleeping"
                               ELSE IF t = Lifespan THEN "serving" ELSE "idle"]
    /\ using = [t \in Tasks |-> NoClient]
    /\ asked = [h \in Handlers |-> 0]
    /\ age = [h \in Handlers |-> 0]
    /\ reply = [h \in Handlers |-> NoReply]
    /\ sweepQueue = {}
    /\ timer = Interval

-----------------------------------------------------------------------------
(* SessionStore, called by the tasks below in one piece with their own code *)

(* _is_expired: the comparison is strict. *)
Expired(c) == idle[c] > TTL

(* Mutant: get that only looks the id up. *)
GettableStored(c) == c \in store

(* get finds the session and it has not expired. *)
Gettable(c) == c \in store /\ ~Expired(c)

(* create: the session's last_used is the time of its creation. *)
StoreCreate(c) ==
    /\ store' = store \cup {c}
    /\ idle' = [idle EXCEPT ![c] = 0]
    /\ UNCHANGED endedBy

(* Mutant: get that does not touch last_used. *)
StoreGetUntouched(c) == UNCHANGED sessionVars

(* get, when it succeeds: the idle timer starts again. *)
StoreGet(c) ==
    /\ idle' = [idle EXCEPT ![c] = 0]
    /\ UNCHANGED <<store, endedBy>>

(* Mutant: remove that looks the session up and does not pop it. *)
StoreRemoveByGet(t, c, clients, who, point) ==
    /\ endedBy' = [endedBy EXCEPT ![c] = who]
    /\ client' = [clients EXCEPT ![c] = "closing"]
    /\ task' = [task EXCEPT ![t] = point]
    /\ using' = [using EXCEPT ![t] = c]
    /\ UNCHANGED <<store, idle, fault>>

(* remove, up to its await: the session leaves the dictionary before its    *)
(* client is closed, and httpx refuses new requests from that moment on.    *)
(* clients is the state the code before the call left the clients in.       *)
StoreRemove(t, c, clients, who, point) ==
    /\ store' = store \ {c}
    /\ idle' = [idle EXCEPT ![c] = 0]
    /\ endedBy' = [endedBy EXCEPT ![c] = who]
    /\ client' = [clients EXCEPT ![c] = "closing"]
    /\ task' = [task EXCEPT ![t] = point]
    /\ using' = [using EXCEPT ![t] = c]
    /\ UNCHANGED fault

(* The task leaves its await and holds no client any more. *)
Leave(t, point) ==
    /\ task' = [task EXCEPT ![t] = point]
    /\ using' = [using EXCEPT ![t] = NoClient]

(* The closing that task t awaits ends, well or badly.  A closing that ends *)
(* badly leaves the client half closed, and nobody tries again.             *)
AfterClose(t) == [client EXCEPT ![using[t]] = "closed"]
Closed(t) == client' = AfterClose(t) /\ UNCHANGED fault
CloseRaised(t) ==
    /\ CloseMayFail
    /\ fault' = [fault EXCEPT ![using[t]] = "raised"]
    /\ UNCHANGED client

(* The handler sends its response and its slot is free for another request. *)
Respond(h, r) ==
    /\ Leave(h, "idle")
    /\ reply' = [reply EXCEPT ![h] = r]
    /\ asked' = [asked EXCEPT ![h] = 0]
    /\ age' = [age EXCEPT ![h] = 0]

(* A request arrives: only while the application serves. *)
Arrives(h) ==
    /\ task[Lifespan] = "serving"
    /\ task[h] = "idle"

-----------------------------------------------------------------------------
(* POST /es/connect *)

(* The client is created and its first request, info, is on the way. *)
ConnectBegin(h, c) ==
    /\ Arrives(h)
    /\ client[c] = "none"
    /\ client' = [client EXCEPT ![c] = "open"]
    /\ task' = [task EXCEPT ![h] = "connecting"]
    /\ using' = [using EXCEPT ![h] = c]
    /\ reply' = [reply EXCEPT ![h] = NoReply]
    /\ UNCHANGED <<sessionVars, fault, asked, age, sweepVars>>

(* EsClient.create raises, on a CA certificate nobody can load for one:     *)
(* there is no client and the error is nobody's to translate.               *)
ConnectUnusable(h) ==
    /\ Arrives(h)
    /\ Respond(h, Reply(500, "tls"))
    /\ UNCHANGED <<sessionVars, clientVars, sweepVars>>

(* The cluster answered: the session is stored and its id returned. *)
ConnectOk(h) ==
    /\ task[h] = "connecting"
    /\ StoreCreate(using[h])
    /\ Respond(h, Reply(200, "done"))
    /\ UNCHANGED <<clientVars, sweepVars>>

(* Mutant: a connect that answers 502 without closing its client. *)
ConnectEsErrorUnclosed(h) ==
    /\ task[h] = "connecting"
    /\ Respond(h, Reply(502, "upstream"))
    /\ UNCHANGED <<sessionVars, clientVars, sweepVars>>

(* info raised EsError: the handler awaits the closing of the client ... *)
ConnectEsError(h) ==
    /\ task[h] = "connecting"
    /\ client' = [client EXCEPT ![using[h]] = "closing"]
    /\ task' = [task EXCEPT ![h] = "aborting"]
    /\ UNCHANGED <<sessionVars, fault, using, handlerVars, sweepVars>>

(* ... and then answers 502. *)
ConnectAborted(h) ==
    /\ task[h] = "aborting"
    /\ Closed(h)
    /\ Respond(h, Reply(502, "upstream"))
    /\ UNCHANGED <<sessionVars, sweepVars>>

ConnectAbortRaised(h) ==
    /\ task[h] = "aborting"
    /\ CloseRaised(h)
    /\ Respond(h, Reply(500, "aclose"))
    /\ UNCHANGED <<sessionVars, sweepVars>>

(* info raised something else: a 200 whose body is not a JSON object.  The  *)
(* client is neither stored nor closed: it stays open, and nobody has it.   *)
ConnectGarbage(h) ==
    /\ task[h] = "connecting"
    /\ fault' = [fault EXCEPT ![using[h]] = "garbled"]
    /\ Respond(h, Reply(500, "greeting"))
    /\ UNCHANGED <<sessionVars, client, sweepVars>>

-----------------------------------------------------------------------------
(* GET /es/templates, /es/datastreams, /es/indices and /es/import: one to   *)
(* MaxRequests requests on the client that store.get returned at the start. *)

(* client_for succeeds and the first request is on the way, unless the      *)
(* client refuses it (QueryRefused).                                        *)
QueryBegin(h, c) ==
    /\ Arrives(h)
    /\ Gettable(c)
    /\ StoreGet(c)
    /\ task' = [task EXCEPT ![h] = "querying"]
    /\ using' = [using EXCEPT ![h] = c]
    /\ asked' = [asked EXCEPT ![h] = 1]
    /\ age' = [age EXCEPT ![h] = 0]
    /\ reply' = [reply EXCEPT ![h] = NoReply]
    /\ UNCHANGED <<clientVars, sweepVars>>

(* client_for: SessionError becomes a 401. *)
QueryUnauthorized(h, c) ==
    /\ Arrives(h)
    /\ ~Gettable(c)
    /\ Respond(h, Reply(401, "session"))
    /\ UNCHANGED <<sessionVars, clientVars, sweepVars>>

(* Mutant: a query that may send any number of requests. *)
QueryMoreUnbounded(h) ==
    /\ task[h] = "querying"
    /\ client[using[h]] = "open"
    /\ asked' = [asked EXCEPT ![h] = @ + 1]
    /\ UNCHANGED <<sessionVars, clientVars, task, using, age, reply, sweepVars>>

(* An import reads the mapping, then the settings, then the ILM policy. *)
QueryMore(h) ==
    /\ task[h] = "querying"
    /\ client[using[h]] = "open"
    /\ asked[h] < MaxRequests
    /\ asked' = [asked EXCEPT ![h] = @ + 1]
    /\ UNCHANGED <<sessionVars, clientVars, task, using, age, reply, sweepVars>>

(* httpx raises RuntimeError, which is not an HTTPError, when the client    *)
(* was closed before the next request of the query.                         *)
QueryRefused(h) ==
    /\ task[h] = "querying"
    /\ client[using[h]] # "open"
    /\ asked[h] < MaxRequests
    /\ Respond(h, Reply(500, "closed"))
    /\ UNCHANGED <<sessionVars, clientVars, sweepVars>>

(* The last answer arrived. *)
QueryOk(h) ==
    /\ task[h] = "querying"
    /\ Respond(h, Reply(200, "done"))
    /\ UNCHANGED <<sessionVars, clientVars, sweepVars>>

(* _request raised EsError (unreachable, timeout, non-2xx, or a connection  *)
(* closed under it) and _guard made it a 502.                               *)
QueryEsError(h) ==
    /\ task[h] = "querying"
    /\ Respond(h, Reply(502, IF client[using[h]] = "open" THEN "upstream"
                             ELSE "closed"))
    /\ UNCHANGED <<sessionVars, clientVars, sweepVars>>

(* A 200 with a body that is not the JSON expected: response.json() or the  *)
(* code that reads the payload raises, and _guard lets it through.          *)
QueryGarbage(h) ==
    /\ task[h] = "querying"
    /\ Respond(h, Reply(500, "garbage"))
    /\ UNCHANGED <<sessionVars, clientVars, sweepVars>>

-----------------------------------------------------------------------------
(* POST /es/disconnect *)

DisconnectBegin(h, c) ==
    /\ Arrives(h)
    /\ c \in store
    /\ StoreRemove(h, c, client, "disconnect", "removing")
    /\ reply' = [reply EXCEPT ![h] = NoReply]
    /\ UNCHANGED <<asked, age, sweepVars>>

(* remove finds nothing under this id, which is no error. *)
DisconnectUnknown(h, c) ==
    /\ Arrives(h)
    /\ c \notin store
    /\ Respond(h, Reply(204, "done"))
    /\ UNCHANGED <<sessionVars, clientVars, sweepVars>>

DisconnectClosed(h) ==
    /\ task[h] = "removing"
    /\ Closed(h)
    /\ Respond(h, Reply(204, "done"))
    /\ UNCHANGED <<sessionVars, sweepVars>>

DisconnectCloseRaised(h) ==
    /\ task[h] = "removing"
    /\ CloseRaised(h)
    /\ Respond(h, Reply(500, "aclose"))
    /\ UNCHANGED <<sessionVars, sweepVars>>

-----------------------------------------------------------------------------
(* main._sweep_sessions and SessionStore.sweep *)

(* The for loop of sweep over what is left of its list, up to the next      *)
(* await: an id that is not in the store any more makes no await, and when  *)
(* none is left the sweeper sleeps again.  The dictionary's order is        *)
(* abstracted: any session of the list may be the next.                     *)
SweepLoop(queue, clients) ==
    \/ /\ queue \cap store = {}
       /\ Leave(Sweeper, "sleeping")
       /\ client' = clients
       /\ UNCHANGED fault
       /\ sweepQueue' = {}
       /\ timer' = Interval
       /\ UNCHANGED sessionVars
    \/ \E c \in queue \cap store :
          /\ StoreRemove(Sweeper, c, clients, "sweep", "reaping")
          /\ sweepQueue' = queue \ {c}
          /\ UNCHANGED timer

(* Mutant: a sweep that lists every session. *)
SweepWakeAll ==
    /\ task[Lifespan] = "serving"
    /\ task[Sweeper] = "sleeping"
    /\ timer = 0
    /\ SweepLoop(store, client)
    /\ UNCHANGED handlerVars

(* The list of expired sessions is made once, when the sleep is over. *)
SweepWake ==
    /\ task[Lifespan] = "serving"
    /\ task[Sweeper] = "sleeping"
    /\ timer = 0
    /\ SweepLoop({c \in store : Expired(c)}, client)
    /\ UNCHANGED handlerVars

(* Mutant: a sweeper without its while True, which ends after one sweep. *)
SweepClosedOnce ==
    /\ task[Lifespan] = "serving"
    /\ task[Sweeper] = "reaping"
    /\ Closed(Sweeper)
    /\ Leave(Sweeper, "dead")
    /\ sweepQueue' = {}
    /\ UNCHANGED <<sessionVars, handlerVars, timer>>

(* The client is closed and the loop goes on with what is left. *)
SweepClosed ==
    /\ task[Lifespan] = "serving"
    /\ task[Sweeper] = "reaping"
    /\ SweepLoop(sweepQueue, AfterClose(Sweeper))
    /\ UNCHANGED handlerVars

(* aclose raised: nothing in sweep or _sweep_sessions catches it, and the   *)
(* task is over.                                                            *)
SweepCloseRaised ==
    /\ task[Lifespan] = "serving"
    /\ task[Sweeper] = "reaping"
    /\ CloseRaised(Sweeper)
    /\ Leave(Sweeper, "dead")
    /\ sweepQueue' = {}
    /\ UNCHANGED <<sessionVars, handlerVars, timer>>

(* Mutant: a sweeper whose loop survives its cancellation. *)
SweepCancelSwallowed ==
    /\ task[Lifespan] # "serving"
    /\ task[Sweeper] = "reaping"
    /\ Closed(Sweeper)
    /\ Leave(Sweeper, "sleeping")
    /\ sweepQueue' = {}
    /\ timer' = Interval
    /\ UNCHANGED <<sessionVars, handlerVars>>

(* The CancelledError that the lifespan asked for reaches the sweeper at    *)
(* its await.  If that was a closing, it may be interrupted half-way.       *)
SweepCancelled ==
    /\ task[Lifespan] # "serving"
    /\ task[Sweeper] \in {"sleeping", "reaping"}
    /\ \/ task[Sweeper] = "sleeping" /\ UNCHANGED clientVars
       \/ task[Sweeper] = "reaping" /\ Closed(Sweeper)
       \/ /\ task[Sweeper] = "reaping"
          /\ fault' = [fault EXCEPT ![using[Sweeper]] = "cancelled"]
          /\ UNCHANGED client
    /\ Leave(Sweeper, "cancelled")
    /\ sweepQueue' = {}
    /\ UNCHANGED <<sessionVars, handlerVars, timer>>

-----------------------------------------------------------------------------
(* The end of main._lifespan and SessionStore.close_all *)

(* Mutant: a close_all that sweeps: the sessions still in use are left. *)
CloseAllLoopExpired(clients) ==
    \/ /\ \A c \in store : ~Expired(c)
       /\ Leave(Lifespan, "stopped")
       /\ client' = clients
       /\ UNCHANGED fault
       /\ UNCHANGED sessionVars
    \/ \E c \in store :
          Expired(c) /\ StoreRemove(Lifespan, c, clients, "shutdown", "halting")

(* The for loop of close_all up to its next await.  Its list is the store:  *)
(* nobody else changes the store any more.                                  *)
CloseAllLoop(clients) ==
    \/ /\ store = {}
       /\ Leave(Lifespan, "stopped")
       /\ client' = clients
       /\ UNCHANGED fault
       /\ UNCHANGED sessionVars
    \/ \E c \in store : StoreRemove(Lifespan, c, clients, "shutdown", "halting")

(* The server stopped taking requests and finished those it had; the        *)
(* lifespan asks the sweeper to stop, does not wait for it, and closes the  *)
(* sessions.                                                                *)
ShutdownBegin ==
    /\ task[Lifespan] = "serving"
    /\ \A h \in Handlers : task[h] = "idle"
    /\ CloseAllLoop(client)
    /\ UNCHANGED <<handlerVars, sweepVars>>

ShutdownClosed ==
    /\ task[Lifespan] = "halting"
    /\ CloseAllLoop(AfterClose(Lifespan))
    /\ UNCHANGED <<handlerVars, sweepVars>>

(* aclose raised: close_all ends there and what is left stays open. *)
ShutdownCloseRaised ==
    /\ task[Lifespan] = "halting"
    /\ CloseRaised(Lifespan)
    /\ Leave(Lifespan, "failed")
    /\ UNCHANGED <<sessionVars, handlerVars, sweepVars>>

-----------------------------------------------------------------------------
(* Time passes, for everybody at once, while the application serves.  A     *)
(* query never outlasts the timeouts of its requests.                       *)
Tick ==
    /\ task[Lifespan] = "serving"
    /\ \A h \in Handlers : task[h] = "querying" => age[h] < Deadline
    /\ idle' = [c \in Clients |-> IF c \in store /\ ~Expired(c)
                                  THEN idle[c] + 1 ELSE idle[c]]
    /\ age' = [h \in Handlers |-> IF task[h] = "querying"
                                  THEN age[h] + 1 ELSE age[h]]
    /\ timer' = IF task[Sweeper] = "sleeping" /\ timer > 0 THEN timer - 1 ELSE timer
    /\ UNCHANGED <<store, clientVars, endedBy, task, using, asked, reply, sweepQueue>>

(* The process ends. *)
Terminated ==
    /\ task[Lifespan] \in {"stopped", "failed"}
    /\ task[Sweeper] \in {"cancelled", "dead"}
    /\ UNCHANGED vars

Connect(h) ==
    \/ \E c \in Clients : ConnectBegin(h, c)
    \/ ConnectUnusable(h)

ConnectEnd(h) ==
    \/ ConnectOk(h)
    \/ ConnectEsError(h)
    \/ ConnectAborted(h)
    \/ ConnectAbortRaised(h)
    \/ ConnectGarbage(h)

Query(h) == \E c \in Clients : QueryBegin(h, c) \/ QueryUnauthorized(h, c)

QueryEnd(h) ==
    \/ QueryMore(h)
    \/ QueryRefused(h)
    \/ QueryOk(h)
    \/ QueryEsError(h)
    \/ QueryGarbage(h)

Disconnect(h) ==
    \E c \in Clients : DisconnectBegin(h, c) \/ DisconnectUnknown(h, c)

DisconnectEnd(h) == DisconnectClosed(h) \/ DisconnectCloseRaised(h)

(* What a handler does by itself once its request arrived. *)
HandlerStep(h) == ConnectEnd(h) \/ QueryEnd(h) \/ DisconnectEnd(h)

SweeperStep ==
    \/ SweepWake
    \/ SweepClosed
    \/ SweepCloseRaised
    \/ SweepCancelled

ShutdownStep == ShutdownClosed \/ ShutdownCloseRaised

Next ==
    \/ \E h \in Handlers : \/ Connect(h)
                          \/ Query(h)
                          \/ Disconnect(h)
                          \/ HandlerStep(h)
    \/ SweeperStep
    \/ ShutdownBegin
    \/ ShutdownStep
    \/ Tick
    \/ Terminated

Spec == Init /\ [][Next]_vars

(* The event loop runs every task that can run, the timeouts end every      *)
(* request, a closing ends, and time passes.  Nobody has to send a request  *)
(* and the server need not stop.                                            *)
Fairness ==
    /\ \A h \in Handlers : WF_vars(HandlerStep(h))
    /\ WF_vars(SweeperStep)
    /\ WF_vars(ShutdownStep)
    /\ WF_vars(Tick)

FairSpec == Spec /\ Fairness

-----------------------------------------------------------------------------
(* Safety *)

(* Task t awaits the closing of client c. *)
Closes(t, c) == task[t] \in ClosingPoints /\ using[t] = c

(* A session in the store has a client that can send requests: whoever     *)
(* closes a client takes its session out of the store first.               *)
StoredIsOpen == \A c \in store : client[c] = "open"

(* A client is closed by one task only: when a disconnect, the sweeper and  *)
(* the shutdown race for a session, the one that pops it closes it.         *)
ClosedOnce ==
    \A c \in Clients : \A t, u \in Tasks : Closes(t, c) /\ Closes(u, c) => t = u

(* An open client belongs to a session of the store or to a connect that is *)
(* still validating it, and a closing has a task that awaits it.            *)
Owned(c) ==
    c \in store \/ \E h \in Handlers : task[h] = "connecting" /\ using[h] = c

Awaited(c) == \E t \in Tasks : Closes(t, c)

(* No client is forgotten.  The code does forget one, the run of this       *)
(* property finds it: see ConnectGarbage, CloseRaised and SweepCancelled.   *)
NoOrphan ==
    \A c \in Clients : /\ client[c] = "open" => Owned(c)
                       /\ client[c] = "closing" => Awaited(c)

(* Nothing but three faults forgets a client, however connects, disconnects,*)
(* sweeps and the shutdown interleave: an open client that nobody has is    *)
(* one whose cluster answered garbage to its connect, and a closing nobody  *)
(* awaits is one that raised or that the end of the sweeper cut short.      *)
OnlyFaultsOrphan ==
    \A c \in Clients :
        /\ client[c] = "open" => Owned(c) \/ fault[c] = "garbled"
        /\ client[c] = "closing" => Awaited(c) \/ fault[c] \in {"raised", "cancelled"}

(* The list the sweeper made before its awaits does not go stale: a session *)
(* of it that is still stored is still expired, whatever requests came for  *)
(* it meanwhile.                                                            *)
SweepListExpired == \A c \in sweepQueue : c \in store => Expired(c)

(* A query only loses its client to a disconnect of its own session: the    *)
(* sweeper and the shutdown never close a client in use.                    *)
InUseEndsByDisconnect ==
    \A h \in Handlers :
        task[h] = "querying" /\ client[using[h]] # "open"
            => endedBy[using[h]] = "disconnect"

ShutdownRaised == \E d \in Clients : fault[d] = "raised" /\ endedBy[d] = "shutdown"

(* The process ends with every client closed, except those one of the three *)
(* faults struck, and, when an aclose of close_all itself raised, what was  *)
(* still in the store then: close_all ends there and the rest stays open.   *)
CleanShutdown ==
    task[Lifespan] \in {"stopped", "failed"} /\ task[Sweeper] \in {"cancelled", "dead"}
        => \A c \in Clients : \/ client[c] \in {"none", "closed"}
                              \/ fault[c] # "none"
                              \/ c \in store /\ ShutdownRaised

(* An expired session never becomes usable again, whatever requests race    *)
(* for it: get refuses it and does not touch its idle timer while it waits  *)
(* for the sweeper.  And a session that has not expired is never the one    *)
(* the sweeper ends.                                                        *)
NoRevival ==
    [][\A c \in Clients :
         /\ (c \in store /\ Expired(c) /\ c \in store') => Expired(c)'
         /\ (c \in store /\ ~Expired(c) /\ c \notin store') => endedBy'[c] # "sweep"]_vars

-----------------------------------------------------------------------------
(* Liveness *)

(* A shutdown that began ends, and so does the sweeper. *)
ShutdownEnds ==
    task[Lifespan] # "serving" ~>
        task[Lifespan] \in {"stopped", "failed"} /\ task[Sweeper] \in {"cancelled", "dead"}

-----------------------------------------------------------------------------
(* Refinement of SessionLifecycle: a session is live from the moment it is  *)
(* stored, and its fate is who took it out of the store.                    *)

Fate == [nobody |-> "none", disconnect |-> "revoked", sweep |-> "reaped",
         shutdown |-> "halted"]

Lifecycle == INSTANCE SessionLifecycle WITH
    Sessions <- Clients,
    Callers <- Handlers,
    Nobody <- NoClient,
    status <- [c \in Clients |-> IF c \notin store THEN Fate[endedBy[c]]
                                 ELSE IF Expired(c) THEN "expired" ELSE "live"],
    serving <- [h \in Handlers |-> IF task[h] = "querying" THEN using[h] ELSE NoClient]

(* A query is only ever served by a session that is live, or that a         *)
(* disconnect of its own ended under it: a session does not expire in use.  *)
ServedIsLive == Lifecycle!ServedIsLive

(* Whatever fails, the sessions live the life SessionLifecycle describes:   *)
(* queries are let in by live sessions only, a session in use never lapses, *)
(* the sweeper only ends sessions that lapsed, the shutdown only ends them  *)
(* when no query is left, and no session comes back.                        *)
LifecycleSpec == Lifecycle!Spec

(* When closing a client does not raise, a session that lapsed is also      *)
(* ended in the end: the sweeper always gets to it.                         *)
LifecycleFairSpec == Lifecycle!FairSpec
=============================================================================
