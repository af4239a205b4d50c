-------------------------- MODULE ClientConnection --------------------------
(***************************************************************************)
(* The client's connection ($WS in src/src/client/lib/ws.ts) with the      *)
(* handlers that use it (src/src/client/index.ts and events/): it opens a  *)
(* socket, after a challenge when there is a secret, reconnects with a     *)
(* bounded number of attempts when it is lost, keeps frames in an outbox   *)
(* while it is down, advertises its file operations to every new session   *)
(* and answers the menus with commands.                                    *)
(*                                                                         *)
(* Sockets, challenges and timers are counted, so that two connection      *)
(* attempts at once could be seen.  Of the server only what a session      *)
(* sends when it opens is modelled here (openSession, then init); the      *)
(* sessions themselves are Session.tla.  Delays are left out: a timer      *)
(* fires at any later time.                                                *)
(*                                                                         *)
(* Definitions whose name ends in _Faulty... are deliberate errors: they   *)
(* stand in for the definition after them to show that a property notices. *)
(***************************************************************************)
EXTENDS Naturals, FiniteSets, SequencesExt, Subsequences

CONSTANTS
    Socket,        \* sockets; one that was closed may stand for a new one
    NoSocket,      \* this.ws = null
    MaxAttempts,   \* options.maxReconnectAttempts
    MaxOutbox,     \* MAX_OUTBOX_FRAMES
    MaxOpens       \* bound: how many connections open

ASSUME ClientAssumption ==
    /\ NoSocket \notin Socket
    /\ MaxAttempts \in Nat /\ MaxOutbox \in Nat /\ MaxOpens \in Nat

VARIABLES
    secret,      \* options.authSecret is set
    state,       \* this._state
    closing,     \* this.explicitClose
    attempts,    \* this.reconnectAttempts
    ws,          \* this.ws
    socket,      \* what became of each socket
    challenges,  \* calls of authenticatedUrl() under way
    timers,      \* reconnect timers
    outbox,      \* this.outbox
    emitted,     \* commands accepted by emit(), numbered from 1
    sent,        \* commands written to a socket
    wire,        \* the frames written to the latest open socket, until a session reads them
    down,        \* events of the server on their way to the client
    menus,       \* menus shown and not answered
    opens        \* connections opened so far

connection == <<state, closing, attempts, ws, socket, challenges, timers>>
frames == <<outbox, emitted, sent, wire>>
session == <<down, menus, opens>>
vars == <<secret, connection, frames, session>>

\* The frame that advertises the file operations, and a command, which has a number.
FileOps == [kind |-> "fileops", nr |-> 0]
Command(n) == [kind |-> "command", nr |-> n]

Frames == [kind : {"fileops", "command", "init", "result"}, nr : Nat]
Events == {"session", "menu", "init", "fileop"}

CommandsIn(s) == Only(s, [kind : {"command"}, nr : Nat])

Init ==
    /\ secret \in BOOLEAN
    /\ state = "connecting"
    /\ closing = FALSE
    /\ attempts = 0
    /\ IF secret
       THEN challenges = 1 /\ ws = NoSocket /\ socket = [s \in Socket |-> "free"]
       ELSE /\ challenges = 0
            /\ ws \in Socket
            /\ socket = [s \in Socket |-> IF s = ws THEN "connecting" ELSE "free"]
    /\ timers = 0
    /\ outbox = <<>> /\ wire = <<>> /\ down = <<>>
    /\ emitted = 0 /\ sent = 0 /\ menus = 0 /\ opens = 0

-----------------------------------------------------------------------------
(* Connecting.                                                             *)

\* new WebSocket(...), which becomes the current socket.
CreateSocket ==
    \E s \in Socket :
        /\ socket[s] = "free"
        /\ socket' = [socket EXCEPT ![s] = "connecting"]
        /\ ws' = s

\* scheduleReconnect(), by a handler that consumes `used` timers or none.
ScheduleReconnect ==
    /\ attempts' = attempts + 1
    /\ IF attempts' > MaxAttempts
       THEN state' = "closed" /\ UNCHANGED timers
       ELSE state' = "reconnecting" /\ timers' = timers + 1

\* The reconnect timer calls connect(true), which does nothing after close().
TimerFires ==
    /\ timers > 0
    /\ timers' = timers - 1
    /\ IF closing THEN UNCHANGED <<state, ws, socket, challenges>>
       ELSE /\ state' = "reconnecting"
            /\ IF secret THEN challenges' = challenges + 1 /\ UNCHANGED <<ws, socket>>
                         ELSE CreateSocket /\ UNCHANGED challenges
    /\ UNCHANGED <<secret, closing, attempts, frames, session>>

\* The challenge is answered: connect() goes on, also when close() came meanwhile.
ChallengeOk ==
    /\ challenges > 0
    /\ challenges' = challenges - 1
    /\ CreateSocket
    /\ UNCHANGED <<secret, state, closing, attempts, timers, frames, session>>

\* It is refused, or times out.
ChallengeFails ==
    /\ challenges > 0
    /\ challenges' = challenges - 1
    /\ ScheduleReconnect
    /\ UNCHANGED <<secret, closing, ws, socket, frames, session>>

-----------------------------------------------------------------------------
(* The socket's events.                                                    *)

\* The frames are written to the open socket.
Written(s) ==
    /\ wire' = wire \o s
    /\ sent' = sent + Len(CommandsIn(s))

Flush_FaultyKeeps ==
    /\ wire' = outbox
    /\ sent' = sent + Len(CommandsIn(outbox))
    /\ UNCHANGED outbox

\* onopen sends what the outbox holds and empties it.
Flush ==
    /\ wire' = outbox
    /\ sent' = sent + Len(CommandsIn(outbox))
    /\ outbox' = <<>>

\* onopen.  The new session of the server announces itself and sends the menu.
Opened(s) ==
    /\ socket[s] = "connecting" /\ opens < MaxOpens
    /\ socket' = [socket EXCEPT ![s] = "open"]
    /\ attempts' = 0
    /\ state' = "ready"
    /\ Flush
    /\ down' = <<"session", "menu">>
    /\ opens' = opens + 1
    /\ UNCHANGED <<secret, closing, ws, challenges, timers, emitted, menus>>

Errored_FaultyReconnects(s) ==
    /\ socket[s] \in {"connecting", "open", "closing"}
    /\ socket' = [socket EXCEPT ![s] = "failed"]
    /\ IF ws = s THEN ScheduleReconnect ELSE UNCHANGED <<state, timers, attempts>>
    /\ UNCHANGED <<secret, closing, ws, challenges, frames, session>>

\* onerror; the close event follows.
Errored(s) ==
    /\ socket[s] \in {"connecting", "open", "closing"}
    /\ socket' = [socket EXCEPT ![s] = "failed"]
    /\ state' = IF ws = s THEN "degraded" ELSE state
    /\ UNCHANGED <<secret, closing, attempts, ws, challenges, timers, frames, session>>

\* onclose: a lost socket is replaced; one that close() has forgotten is ignored.
\* What the server had sent on it and was not read is lost.
Closed(s) ==
    /\ socket[s] \in {"open", "closing", "failed"}
    /\ socket' = [socket EXCEPT ![s] = "free"]
    /\ IF ws = s THEN ws' = NoSocket /\ down' = <<>> ELSE UNCHANGED <<ws, down>>
    /\ IF ws = s /\ ~closing THEN ScheduleReconnect ELSE UNCHANGED <<state, timers, attempts>>
    /\ UNCHANGED <<secret, closing, challenges, frames, menus, opens>>

\* close().
Close ==
    /\ ~closing
    /\ closing' = TRUE
    /\ state' = "closed"
    /\ ws' = NoSocket
    /\ socket' = [s \in Socket |-> IF s = ws /\ socket[s] \in {"connecting", "open"}
                                   THEN "closing" ELSE socket[s]]
    /\ down' = <<>>
    /\ UNCHANGED <<secret, attempts, challenges, timers, frames, menus, opens>>

-----------------------------------------------------------------------------
(* Emitting.                                                               *)

IsOpen == ws # NoSocket /\ socket[ws] = "open"

\* sendOrQueue(), when it does not throw.
SendOrQueue(f) ==
    IF IsOpen THEN Written(<<f>>) /\ UNCHANGED outbox
    ELSE /\ Len(outbox) < MaxOutbox
         /\ outbox' = Append(outbox, f)
         /\ UNCHANGED <<sent, wire>>

\* Events arrive while the socket is open.  handleSession(): the new session is told the file operations.
SessionEvent ==
    /\ IsOpen /\ down # <<>> /\ Head(down) = "session"
    /\ down' = Tail(down)
    /\ SendOrQueue(FileOps)
    /\ UNCHANGED <<secret, connection, emitted, menus, opens>>

\* A prompt event: the menu is shown, after the ones shown before.
MenuEvent ==
    /\ IsOpen /\ down # <<>> /\ Head(down) = "menu"
    /\ down' = Tail(down)
    /\ menus' = menus + 1
    /\ UNCHANGED <<secret, connection, frames, opens>>

\* handlePrompt(): the user's answer becomes a command, whatever became of the
\* connection that sent the menu.  A full outbox refuses it, and the answer is lost.
Answer ==
    /\ menus > 0
    /\ menus' = menus - 1
    /\ \/ SendOrQueue(Command(emitted + 1)) /\ emitted' = emitted + 1
       \/ ~IsOpen /\ Len(outbox) >= MaxOutbox /\ UNCHANGED frames
    /\ UNCHANGED <<secret, connection, down, opens>>

-----------------------------------------------------------------------------
Next ==
    \/ TimerFires \/ ChallengeOk \/ ChallengeFails \/ Close
    \/ \E s \in Socket : Opened(s) \/ Errored(s) \/ Closed(s)
    \/ SessionEvent \/ MenuEvent \/ Answer

Spec == Init /\ [][Next]_vars

\* Timers fire, challenges have a timeout, and a socket that connects or failed gets
\* its event.
Fairness ==
    /\ WF_vars(TimerFires) /\ WF_vars(ChallengeOk \/ ChallengeFails)
    /\ \A s \in Socket : /\ WF_vars(Opened(s) \/ (socket[s] # "open" /\ Errored(s)))
                         /\ WF_vars(socket[s] # "open" /\ Closed(s))

-----------------------------------------------------------------------------
TypeOK ==
    /\ secret \in BOOLEAN /\ closing \in BOOLEAN
    /\ state \in {"connecting", "ready", "degraded", "reconnecting", "closed"}
    /\ attempts \in 0..(MaxAttempts + 1)
    /\ ws \in Socket \cup {NoSocket}
    /\ socket \in [Socket -> {"free", "connecting", "open", "closing", "failed"}]
    /\ challenges \in Nat /\ timers \in Nat
    /\ outbox \in Seq(Frames) /\ Len(outbox) <= MaxOutbox
    /\ emitted \in Nat /\ sent \in Nat
    /\ wire \in Seq(Frames)
    /\ down \in Seq(Events)
    /\ menus \in Nat
    /\ opens \in 0..MaxOpens

\* Until it is closed or gives up, the client has exactly one attempt to be connected
\* under way: it never stalls and never opens two connections, and the state it shows
\* is that of its socket (connect, onerror, onclose, scheduleReconnect, setState).
OneAttempt ==
    LET current == IF ws = NoSocket THEN 0 ELSE 1
        under == challenges + current + timers
    IN  /\ under <= 1
        /\ ~closing => (under = 0 <=> state = "closed") /\ (state = "ready" <=> IsOpen)

\* Every accepted command is written exactly once, in order, or still waits in the
\* outbox; it waits only while no socket is open (sendOrQueue, onopen).
SentOnceInOrder ==
    /\ CommandsIn(outbox) = [i \in 1..(emitted - sent) |-> Command(sent + i)]
    /\ sent <= emitted
    /\ IsOpen => outbox = <<>>

\* events/session.ts:7: the announcement of the file operations "arrives before any
\* tool can be invoked": on every connection no command precedes it.
OpsBeforeTools ==
    \A i \in DOMAIN wire :
        wire[i].kind = "command" => \E j \in 1..(i - 1) : wire[j] = FileOps
=============================================================================
