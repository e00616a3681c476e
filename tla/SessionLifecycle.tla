-------------------------- MODULE SessionLifecycle --------------------------
(***************************************************************************)
(* What the Elasticsearch session API promises to its callers, with no     *)
(* word of tasks, timers or HTTP clients: a session is opened once, serves *)
(* queries only while it is live, lapses only when nobody is being served, *)
(* is reaped only after it lapsed, and never comes back once it ended.     *)
(* EsSessions is shown to implement this module.                           *)
(***************************************************************************)
CONSTANTS
    Sessions,   \* the sessions that can be opened
    Callers,    \* the requests that can be in progress at a time
    Nobody      \* a caller's value of serving when no session serves it

VARIABLES
    status,     \* the stage of its life each session is in
    serving     \* the session that serves each caller

vars == <<status, serving>>

Ended == {"revoked", "reaped", "halted"}
Statuses == {"none", "live", "expired"} \cup Ended

(* Nobody is being served by session s. *)
Unused(s) == \A c \in Callers : serving[c] # s

TypeOK ==
    /\ status \in [Sessions -> Statuses]
    /\ serving \in [Callers -> Sessions \cup {Nobody}]

Init ==
    /\ status = [s \in Sessions |-> "none"]
    /\ serving = [c \in Callers |-> Nobody]

(* A connect opens a new session. *)
Open(s) ==
    /\ status[s] = "none"
    /\ status' = [status EXCEPT ![s] = "live"]
    /\ UNCHANGED serving

(* A query is let in: only a live session lets one in. *)
Grant(c, s) ==
    /\ serving[c] = Nobody
    /\ status[s] = "live"
    /\ serving' = [serving EXCEPT ![c] = s]
    /\ UNCHANGED status

(* A query is answered. *)
Release(c) ==
    /\ serving[c] # Nobody
    /\ serving' = [serving EXCEPT ![c] = Nobody]
    /\ UNCHANGED status

(* Time passes and the sessions of S have been idle for too long. *)
Lapse(S) ==
    /\ S # {}
    /\ \A s \in S : status[s] = "live" /\ Unused(s)
    /\ status' = [s \in Sessions |-> IF s \in S THEN "expired" ELSE status[s]]
    /\ UNCHANGED serving

(* The owner of the session ends it, whatever it is doing. *)
Revoke(s) ==
    /\ status[s] \in {"live", "expired"}
    /\ status' = [status EXCEPT ![s] = "revoked"]
    /\ UNCHANGED serving

(* The service ends a session that lapsed. *)
Reap(s) ==
    /\ status[s] = "expired"
    /\ status' = [status EXCEPT ![s] = "reaped"]
    /\ UNCHANGED serving

(* The service shuts down once every query is answered. *)
Halt(s) ==
    /\ status[s] \in {"live", "expired"}
    /\ \A c \in Callers : serving[c] = Nobody
    /\ status' = [status EXCEPT ![s] = "halted"]
    /\ UNCHANGED serving

End(s) == Revoke(s) \/ Reap(s) \/ Halt(s)

Next ==
    \/ \E s \in Sessions : Open(s) \/ End(s)
    \/ \E S \in SUBSET Sessions : Lapse(S)
    \/ \E c \in Callers : Release(c) \/ \E s \in Sessions : Grant(c, s)

Spec == Init /\ [][Next]_vars

(* An idle session does not stay open for ever. *)
FairSpec == Spec /\ \A s \in Sessions : WF_vars(Reap(s))

(* A caller is only ever served by a session that is live, or that its own  *)
(* owner ended while the query was under way.                               *)
ServedIsLive ==
    \A c \in Callers :
        serving[c] # Nobody => status[serving[c]] \in {"live", "revoked"}
=============================================================================
