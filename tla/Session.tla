------------------------------- MODULE Session -------------------------------
(***************************************************************************)
(* The client's connection (ClientConnection) with the server's sessions   *)
(* at the other end (src/src/server/index.ts, events/, lib/ws.ts and what  *)
(* tools/ sends), and the client's handlers of what they send: the menu is *)
(* a turn that goes from the server to the user, back as a command, and to *)
(* the server again through the echo of `init`.                            *)
(*                                                                         *)
(* Sessions are numbered by the connections that opened them.  The server  *)
(* notices the end of a connection later than the client, and the other    *)
(* way round: the frames under way are still read, or lost.  How a command *)
(* runs is CommandRuntime and Scheduler; here it ends, and what it sends   *)
(* then is sent at once.  Statuses and errors are only displayed, and are  *)
(* left out.                                                               *)
(***************************************************************************)
EXTENDS ClientConnection

CONSTANT MaxCommands   \* bound: commands that the user's answers become

ASSUME CommandsAssumption == MaxCommands \in Nat

VARIABLES
    dir,         \* the client's sessionUuid, 0 for null
    late,        \* frames of earlier connections that the server has not read
    gone,        \* sessions whose connection the server knows to have ended
    advertised,  \* sessions whose client has told its file operations
    running,     \* how many commands of a session wait or run
    lost         \* the latest session has refused a command, or a prompt failed

server == <<late, gone, advertised, running>>
allVars == <<vars, dir, server, lost>>

Sessions == 1 .. MaxOpens

SessionInit ==
    /\ Init
    /\ dir = 0
    /\ late = [n \in Sessions |-> <<>>]
    /\ gone = {} /\ advertised = {}
    /\ running = [n \in Sessions |-> 0]
    /\ lost = FALSE

-----------------------------------------------------------------------------
(* The connection.                                                         *)

\* The handlers of ClientConnection that no session takes part in.
Connecting ==
    /\ \/ TimerFires \/ ChallengeOk \/ ChallengeFails \/ Close \/ MenuEvent
       \/ \E s \in Socket : Errored(s) \/ Closed(s)
    /\ UNCHANGED <<dir, server, lost>>

\* The server's open(): openSession() and then init(), before any frame is read.
\* Frames of the connection before it may still be under way to theirs.
Open ==
    /\ \E s \in Socket : Opened(s)
    /\ late' = [n \in Sessions |-> IF n = opens /\ n \notin gone THEN wire ELSE late[n]]
    /\ lost' = FALSE
    /\ UNCHANGED <<dir, gone, advertised, running>>

\* The server's close(), before or after the client's: a frame that is larger than
\* maxPayloadLength ends the connection too.  The commands of the session are cancelled,
\* and what they report is written to a closed socket.
ServerCloses(n) ==
    /\ n <= opens /\ n \notin gone
    /\ gone' = gone \cup {n}
    /\ advertised' = advertised \ {n}
    /\ running' = [running EXCEPT ![n] = 0]
    /\ late' = [late EXCEPT ![n] = <<>>]
    /\ wire' = IF n = opens THEN <<>> ELSE wire
    /\ UNCHANGED <<secret, connection, outbox, emitted, sent, session, dir, lost>>

-----------------------------------------------------------------------------
(* The server reads a frame.                                               *)

Inbox(n) == IF n = opens THEN wire ELSE late[n]

\* The next frame of session n is of this kind, and is taken.
Take(n, kind) ==
    /\ n \notin gone /\ Inbox(n) # <<>> /\ Head(Inbox(n)).kind = kind
    /\ IF n = opens THEN wire' = Tail(wire) /\ UNCHANGED late
                    ELSE late' = [late EXCEPT ![n] = Tail(@)] /\ UNCHANGED wire
    /\ UNCHANGED <<secret, connection, outbox, emitted, sent, menus, opens, dir, gone>>

\* emit(): events reach the client as long as both ends are open.
Send(n, events) ==
    down' = IF n = opens /\ IsOpen /\ n \notin gone THEN down \o events ELSE down

\* rememberAdvertisedOps().
FileopsFrame(n) ==
    /\ Take(n, "fileops")
    /\ advertised' = advertised \cup {n}
    /\ UNCHANGED <<down, running, lost>>

\* The client's echo: init() sends the menu.
InitFrame(n) ==
    /\ Take(n, "init")
    /\ Send(n, <<"menu">>)
    /\ UNCHANGED <<advertised, running, lost>>

\* A rejected path is answered with an error, whatever became of its command.
ResultFrame(n) == Take(n, "result") /\ UNCHANGED <<down, advertised, running, lost>>

\* A command is scheduled; one that the scheduler refuses ends at once.
CommandFrame(n) ==
    /\ Take(n, "command")
    /\ running' = [running EXCEPT ![n] = @ + 1]
    /\ UNCHANGED <<down, advertised, lost>>

\* One whose payload is too large or malformed is answered with an error, and no menu.
CommandRefused(n) ==
    /\ Take(n, "command")
    /\ lost' = (lost \/ n = opens)
    /\ UNCHANGED <<down, advertised, running>>

CommandEnds_FaultyTwice(n) ==
    /\ running[n] > 0
    /\ running' = [running EXCEPT ![n] = @ - 1]
    /\ \/ n \in advertised /\ Send(n, <<"fileop", "init">>)
       \/ Send(n, <<"init", "init">>)
    /\ UNCHANGED <<secret, connection, frames, menus, opens, dir, late, gone, advertised, lost>>

CommandEnds_FaultyNoLoop(n) ==
    /\ running[n] > 0
    /\ running' = [running EXCEPT ![n] = @ - 1]
    /\ \/ n \in advertised /\ Send(n, <<"fileop", "init">>)
       \/ Send(n, <<>>)
    /\ UNCHANGED <<secret, connection, frames, menus, opens, dir, late, gone, advertised, lost>>

\* A command ends: it writes its artifacts, if the client has told that it can; or it
\* writes none, because it is an echo, failed, was cancelled, or its artifact exceeds the
\* limit and is replaced by an error.  The runtime closes with `init` in any case.
CommandEnds(n) ==
    /\ running[n] > 0
    /\ running' = [running EXCEPT ![n] = @ - 1]
    /\ \/ n \in advertised /\ Send(n, <<"fileop", "init">>)
       \/ Send(n, <<"init">>)
    /\ UNCHANGED <<secret, connection, frames, menus, opens, dir, late, gone, advertised, lost>>

-----------------------------------------------------------------------------
(* The client reads an event.                                              *)

SetSession_FaultyOnce == dir' = IF dir = 0 THEN opens ELSE dir

\* setSession().
SetSession == dir' = opens

HandleSession == SessionEvent /\ SetSession /\ UNCHANGED <<server, lost>>

Event(e) ==
    /\ IsOpen /\ down # <<>> /\ Head(down) = e
    /\ down' = Tail(down)
    /\ UNCHANGED <<secret, connection, outbox, emitted, menus, opens, dir, server, lost>>

\* The runtime's `init` is sent back as it came.
HandleInit == Event("init") /\ Written(<<[kind |-> "init", nr |-> 0]>>)

\* handleFileop(): the operation is executed in the directory of the session, or fails
\* and the server is told.
HandleFileop ==
    /\ Event("fileop")
    /\ Written(<<>>) \/ Written(<<[kind |-> "result", nr |-> 0]>>)

\* decodeServerEnvelope(): an artifact that is larger than the client's limit, which need
\* not be the server's, is dropped with a line in the client's log.
DropFileop == Event("fileop") /\ Written(<<>>)

HandleAnswer == emitted < MaxCommands /\ Answer /\ UNCHANGED <<dir, server, lost>>

\* The prompt fails before there is a command, and nothing asks the server for a menu.
PromptFails ==
    /\ menus > 0
    /\ menus' = menus - 1
    /\ lost' = TRUE
    /\ UNCHANGED <<secret, connection, frames, down, opens, dir, server>>

-----------------------------------------------------------------------------
ServerReads(n) ==
    \/ FileopsFrame(n) \/ InitFrame(n) \/ ResultFrame(n)
    \/ CommandFrame(n) \/ CommandRefused(n)

ClientReads == HandleSession \/ HandleInit \/ HandleFileop \/ DropFileop

SessionNext ==
    \/ Connecting \/ Open \/ ClientReads \/ HandleAnswer \/ PromptFails
    \/ \E n \in Sessions : ServerCloses(n) \/ ServerReads(n) \/ CommandEnds(n)

\* Frames are read at both ends, commands end (CommandRuntime), and the client notices
\* that the server has closed the connection.  Nobody needs to answer a menu.
SessionFairness ==
    /\ Fairness
    /\ WF_allVars(ClientReads) /\ WF_vars(MenuEvent)
    /\ \A n \in Sessions : WF_allVars(ServerReads(n)) /\ WF_allVars(CommandEnds(n))
    /\ WF_vars(opens \in gone /\ \E s \in Socket : s = ws /\ Closed(s))

SessionSpec == SessionInit /\ [][SessionNext]_allVars /\ SessionFairness

-----------------------------------------------------------------------------
SessionTypeOK ==
    /\ TypeOK
    /\ dir \in 0 .. MaxOpens
    /\ late \in [Sessions -> Seq(Frames)]
    /\ gone \subseteq Sessions /\ advertised \subseteq Sessions
    /\ running \in [Sessions -> Nat]
    /\ lost \in BOOLEAN

\* A file operation is executed in the directory of the session that asked for it: the
\* directory is one variable that outlives connections, and commands may run before the
\* new session was announced (lib/session.ts, handleSession, handleFileop).
FilesInOwnSession ==
    IsOpen /\ down # <<>> /\ Head(down) = "fileop" => dir = opens

\* The turns that may still become a menu of this client.  What is under way to an earlier
\* session, or runs there, no longer may.
Turns ==
    LET toServer(s) == Len(Only(s, [kind : {"command", "init"}, nr : Nat]))
    IN  menus + toServer(outbox) + toServer(wire) + Len(Only(down, {"menu", "init"}))
            + (IF opens = 0 THEN 0 ELSE running[opens])

\* Every connection brings one turn, and the loop neither loses nor multiplies it,
\* although both the runtime and the opening of a session ask for menus, and answers of
\* an earlier connection's menus go to the latest one: an open connection has a turn that
\* was not refused, and there are never more than connections.
TurnsKept ==
    /\ SessionTypeOK
    /\ Turns <= opens
    /\ IsOpen /\ opens \notin gone /\ ~lost => Turns >= 1

\* The user is never left alone: again and again the client has given up or was closed,
\* or is connected and shows a menu.  Connections may end at any hop of the loop from a
\* command over the server's init and the client's echo to the next menu.  Excepted is a
\* connection on which a command was refused or a prompt failed: nothing asks for its
\* menu (registerTool, client/index.ts:19, server/lib/ws.ts:57).
NeverLeftAlone ==
    []<>(state = "closed" \/ closing \/ (state = "ready" /\ (menus > 0 \/ lost)))
=============================================================================
