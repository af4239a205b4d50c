-------------------------- MODULE AdmissionControl --------------------------
(***************************************************************************)
(* What the scheduler promises its callers, without queue, counters,       *)
(* timers or signals.  Every session has a line of waiting commands and a  *)
(* set of running ones; a command leaves its line from the front to run,   *)
(* or from anywhere because it was given up.  Every admitted command gets  *)
(* one answer.                                                             *)
(***************************************************************************)
EXTENDS Naturals, Sequences, FiniteSets

CONSTANTS Session, Key, SessionOf, MaxActive, MaxPerSession, MaxQueued

VARIABLES
    line,    \* line[s]: the waiting commands of session s, oldest first
    busy,    \* the running commands
    answer   \* what the latest call for a key was answered, "pending" until then

vars == <<line, busy, answer>>

Waiting == UNION {{line[s][i] : i \in DOMAIN line[s]} : s \in Session}

BusyOf(s) == {k \in busy : SessionOf[k] = s}

HasRoom(s) ==
    /\ Cardinality(busy) < MaxActive
    /\ Cardinality(BusyOf(s)) < MaxPerSession

Init ==
    /\ line = [s \in Session |-> <<>>]
    /\ busy = {}
    /\ answer = [k \in Key |-> "none"]

Unknown(k) == k \notin Waiting \cup busy

\* A command of a session nobody waits in starts at once when there is room.
Begin(k) ==
    /\ Unknown(k) /\ HasRoom(SessionOf[k]) /\ line[SessionOf[k]] = <<>>
    /\ busy' = busy \cup {k}
    /\ answer' = [answer EXCEPT ![k] = "pending"]
    /\ UNCHANGED line

\* One that cannot start waits behind the others of its session ...
Wait(k) ==
    /\ Unknown(k) /\ ~HasRoom(SessionOf[k]) /\ Cardinality(Waiting) < MaxQueued
    /\ line' = [line EXCEPT ![SessionOf[k]] = Append(@, k)]
    /\ answer' = [answer EXCEPT ![k] = "pending"]
    /\ UNCHANGED busy

\* ... or is refused when MaxQueued commands wait already.
Refuse(k) ==
    /\ Unknown(k) /\ ~HasRoom(SessionOf[k]) /\ Cardinality(Waiting) = MaxQueued
    /\ answer' = [answer EXCEPT ![k] = "overloaded"]
    /\ UNCHANGED <<line, busy>>

\* The oldest waiting command of a session starts when there is room.
Proceed(s) ==
    /\ line[s] # <<>> /\ HasRoom(s)
    /\ busy' = busy \cup {Head(line[s])}
    /\ line' = [line EXCEPT ![s] = Tail(@)]
    /\ UNCHANGED answer

\* A waiting command is given up.
GiveUp(s, i, why) ==
    /\ i \in DOMAIN line[s]
    /\ answer' = [answer EXCEPT ![line[s][i]] = why]
    /\ line' = [line EXCEPT ![s] = SubSeq(@, 1, i - 1) \o SubSeq(@, i + 1, Len(@))]
    /\ UNCHANGED busy

\* A running command ends.
Finish(k, how) ==
    /\ k \in busy
    /\ busy' = busy \ {k}
    /\ answer' = [answer EXCEPT ![k] = how]
    /\ UNCHANGED line

Next ==
    \/ \E k \in Key :
          \/ Begin(k) \/ Wait(k) \/ Refuse(k)
          \/ \E how \in {"resolved", "failed", "timeout", "cancelled"} : Finish(k, how)
    \/ \E s \in Session :
          \/ Proceed(s)
          \/ \E i \in DOMAIN line[s], why \in {"timeout", "cancelled"} : GiveUp(s, i, why)

Spec == Init /\ [][Next]_vars
=============================================================================
