----------------------- MODULE SessionLifecycleProofs -----------------------
(***************************************************************************)
(* What follows from SessionLifecycle for any number of sessions and       *)
(* callers.  EsSessionsProofs carries it over to EsSessions.               *)
(***************************************************************************)
EXTENDS SessionLifecycle, TLAPS

(* A session that ended stays as it ended: its id opens nothing any more. *)
EndIsFinal ==
    [][\A s \in Sessions : status[s] \in Ended => status'[s] = status[s]]_vars

(* A caller is served by a session that is live, or that was revoked under  *)
(* it.  It is inductive with the types: a session only lapses unused, only  *)
(* a lapsed one is reaped, and halting waits for every caller.              *)
LInv == TypeOK /\ ServedIsLive

LEMMA InitLInv == Init => LInv
  BY DEF Init, LInv, TypeOK, Statuses, ServedIsLive

LEMMA OpenInv ==
  ASSUME LInv, NEW s \in Sessions, Open(s)
  PROVE  LInv'
  BY DEF LInv, TypeOK, Statuses, ServedIsLive, Open

LEMMA EndInv ==
  ASSUME LInv, NEW s \in Sessions, End(s)
  PROVE  LInv'
<1>1. CASE Revoke(s)
  BY <1>1 DEF LInv, TypeOK, Statuses, Ended, ServedIsLive, Revoke
<1>2. CASE Reap(s)
  BY <1>2 DEF LInv, TypeOK, Statuses, Ended, ServedIsLive, Reap
<1>3. CASE Halt(s)
  BY <1>3 DEF LInv, TypeOK, Statuses, Ended, ServedIsLive, Halt
<1> QED  BY <1>1, <1>2, <1>3 DEF End

LEMMA LapseInv ==
  ASSUME LInv, NEW S \in SUBSET Sessions, Lapse(S)
  PROVE  LInv'
  BY DEF LInv, TypeOK, Statuses, ServedIsLive, Lapse, Unused

LEMMA CallerInv ==
  ASSUME LInv, NEW c \in Callers, Release(c) \/ \E s \in Sessions : Grant(c, s)
  PROVE  LInv'
  BY DEF LInv, TypeOK, ServedIsLive, Release, Grant

LEMMA NextLInv == LInv /\ [Next]_vars => LInv'
<1>1. CASE UNCHANGED vars
  BY <1>1 DEF LInv, TypeOK, ServedIsLive, vars
<1> QED  BY <1>1, OpenInv, EndInv, LapseInv, CallerInv DEF Next

THEOREM LifecycleInvariance == Spec => []LInv
  BY InitLInv, NextLInv, PTL DEF Spec

(* The stages of the sessions and the sessions the callers are served by    *)
(* are what they should be.                                                 *)
THEOREM LifecycleTypeCorrect == Spec => []TypeOK
<1>1. LInv => TypeOK
  BY DEF LInv
<1> QED  BY <1>1, LifecycleInvariance, PTL

(* No caller is served by a session that lapsed, was reaped or was halted. *)
THEOREM ServedSessionsAreLive == Spec => []ServedIsLive
<1>1. LInv => ServedIsLive
  BY DEF LInv
<1> QED  BY <1>1, LifecycleInvariance, PTL

(* No session comes back once it ended. *)
THEOREM EndedSessionsStayEnded == Spec => EndIsFinal
<1>1. LInv /\ [Next]_vars
        => [\A s \in Sessions : status[s] \in Ended => status'[s] = status[s]]_vars
  <2> SUFFICES ASSUME LInv, Next, NEW s \in Sessions, status[s] \in Ended
               PROVE  status'[s] = status[s]
    BY DEF vars
  <2> USE DEF LInv, TypeOK, Ended
  <2>1. ASSUME NEW t \in Sessions, Open(t) PROVE status'[s] = status[s]
    BY <2>1 DEF Open
  <2>2. ASSUME NEW t \in Sessions, End(t) PROVE status'[s] = status[s]
    BY <2>2 DEF End, Revoke, Reap, Halt
  <2>3. ASSUME NEW S \in SUBSET Sessions, Lapse(S) PROVE status'[s] = status[s]
    BY <2>3 DEF Lapse
  <2>4. ASSUME NEW c \in Callers, Release(c) \/ \E t \in Sessions : Grant(c, t)
        PROVE  status'[s] = status[s]
    BY <2>4 DEF Release, Grant
  <2> QED  BY <2>1, <2>2, <2>3, <2>4 DEF Next
<1> QED  BY <1>1, LifecycleInvariance, PTL DEF Spec, EndIsFinal
=============================================================================
