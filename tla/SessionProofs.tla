---------------------------- MODULE SessionProofs ----------------------------
(***************************************************************************)
(* Proofs about the client's connection and the sessions at its other end, *)
(* for any number of sockets, attempts, connections and commands.          *)
(***************************************************************************)
EXTENDS Session, QueueLemmas

\* The part of the type invariant that the connection needs.
ConnectionType ==
    /\ closing \in BOOLEAN
    /\ attempts \in Nat
    /\ ws \in Socket \cup {NoSocket}
    /\ socket \in [Socket -> {"free", "connecting", "open", "closing", "failed"}]
    /\ challenges \in Nat /\ timers \in Nat

\* A socket that connects or is open is the current one: with it, OneAttempt is inductive.
CurrentSocket == \A s \in Socket : socket[s] \in {"connecting", "open"} => ws = s

ConnectionInv == ConnectionType /\ CurrentSocket /\ OneAttempt

\* As long as the announcement of the session has not been handled, it is the next event;
\* so whatever is handled first finds the directory of its session.
Announced ==
    /\ down \in Seq(Events)
    /\ IsOpen => dir = opens \/ (down # <<>> /\ Head(down) = "session")

IInv == ConnectionInv /\ Announced

LEMMA InitIInv == SessionInit => IInv
<1> SUFFICES ASSUME SessionInit PROVE IInv
  OBVIOUS
<1>1. /\ closing = FALSE /\ attempts = 0 /\ timers = 0 /\ state = "connecting"
      /\ down = <<>> /\ opens = 0 /\ dir = 0
  BY DEF SessionInit, Init
<1>2. \/ challenges = 1 /\ ws = NoSocket /\ socket = [s \in Socket |-> "free"]
      \/ /\ challenges = 0 /\ ws \in Socket
         /\ socket = [s \in Socket |-> IF s = ws THEN "connecting" ELSE "free"]
  BY DEF SessionInit, Init
<1>3. CASE challenges = 1 /\ ws = NoSocket /\ socket = [s \in Socket |-> "free"]
  <2>1. socket \in [Socket -> {"free", "connecting", "open", "closing", "failed"}]
    BY <1>3
  <2>2. ConnectionType /\ CurrentSocket
    BY <1>1, <1>3, <2>1 DEF ConnectionType, CurrentSocket
  <2>3. OneAttempt /\ ~IsOpen
    BY <1>1, <1>3 DEF OneAttempt, IsOpen
  <2>4. QED
    BY <1>1, <2>2, <2>3 DEF IInv, ConnectionInv, Announced
<1>4. CASE /\ challenges = 0 /\ ws \in Socket
           /\ socket = [s \in Socket |-> IF s = ws THEN "connecting" ELSE "free"]
  <2>1. socket \in [Socket -> {"free", "connecting", "open", "closing", "failed"}]
    BY <1>4
  <2>2. ConnectionType /\ CurrentSocket
    BY <1>1, <1>4, <2>1 DEF ConnectionType, CurrentSocket
  <2>3. ~IsOpen /\ ws # NoSocket
    BY <1>4, ClientAssumption DEF IsOpen
  <2>4. OneAttempt
    BY <1>1, <1>4, <2>3 DEF OneAttempt
  <2>5. QED
    BY <1>1, <2>2, <2>3, <2>4 DEF IInv, ConnectionInv, Announced
<1>5. QED
  BY <1>2, <1>3, <1>4

-----------------------------------------------------------------------------
(* The connection.                                                         *)

LEMMA ConnectingStep ==
    ASSUME ConnectionInv, TimerFires \/ ChallengeOk \/ ChallengeFails \/ Close
    PROVE  ConnectionInv'
<1> USE ClientAssumption DEF ConnectionInv, ConnectionType, CurrentSocket, OneAttempt, IsOpen
<1>1. CASE TimerFires
  BY <1>1 DEF TimerFires, CreateSocket
<1>2. CASE ChallengeOk
  BY <1>2 DEF ChallengeOk, CreateSocket
<1>3. CASE ChallengeFails
  BY <1>3 DEF ChallengeFails, ScheduleReconnect
<1>4. CASE Close
  BY <1>4 DEF Close
<1>5. QED
  BY <1>1, <1>2, <1>3, <1>4

LEMMA SocketStep ==
    ASSUME ConnectionInv, NEW s \in Socket, Opened(s) \/ Errored(s) \/ Closed(s)
    PROVE  ConnectionInv'
<1> USE ClientAssumption DEF ConnectionInv, ConnectionType, CurrentSocket, OneAttempt, IsOpen
<1>1. CASE Opened(s)
  BY <1>1 DEF Opened, Flush
<1>2. CASE Errored(s)
  BY <1>2 DEF Errored
<1>3. CASE Closed(s)
  <2>1. socket' = [socket EXCEPT ![s] = "free"] /\ UNCHANGED <<closing, challenges>>
    BY <1>3 DEF Closed
  <2>2. socket' \in [Socket -> {"free", "connecting", "open", "closing", "failed"}]
    BY <2>1
  <2>3. \A t \in Socket : socket'[t] = IF t = s THEN "free" ELSE socket[t]
    BY <2>1
  <2>4. CASE ws = s
    <3>1. ws' = NoSocket /\ ws # NoSocket
      BY <1>3, <2>4 DEF Closed
    <3>2. challenges = 0 /\ timers = 0
      BY <2>4, <3>1
    <3>3. CurrentSocket' /\ ~IsOpen'
      BY <2>3, <2>4, <3>1
    <3>4. CASE closing
      <4>1. UNCHANGED <<state, timers, attempts>>
        BY <1>3, <3>4 DEF Closed
      <4>2. QED
        BY <2>1, <2>2, <3>1, <3>2, <3>3, <3>4, <4>1
    <3>5. CASE ~closing
      <4>1. ScheduleReconnect
        BY <1>3, <2>4, <3>5 DEF Closed
      <4>2. attempts' \in Nat
        BY <4>1 DEF ScheduleReconnect
      <4>3. \/ state' = "closed" /\ timers' = 0
            \/ state' = "reconnecting" /\ timers' = 1
        BY <3>2, <4>1 DEF ScheduleReconnect
      <4>4. ConnectionType'
        BY <2>1, <2>2, <3>1, <4>2, <4>3
      <4>5. OneAttempt'
        BY <2>1, <3>1, <3>2, <3>3, <4>3
      <4>6. QED
        BY <3>3, <4>4, <4>5
    <3>6. QED
      BY <3>4, <3>5
  <2>5. CASE ws # s
    <3>1. UNCHANGED <<ws, state, timers, attempts>>
      BY <1>3, <2>5 DEF Closed
    <3>2. CurrentSocket' /\ IsOpen' = IsOpen
      BY <2>3, <2>5, <3>1
    <3>3. QED
      BY <2>1, <2>2, <3>1, <3>2
  <2>6. QED
    BY <2>4, <2>5
<1>4. QED
  BY <1>1, <1>2, <1>3

LEMMA UnchangedConnection ==
    ASSUME ConnectionInv, UNCHANGED connection
    PROVE  ConnectionInv' /\ IsOpen' = IsOpen
BY DEF ConnectionInv, ConnectionType, CurrentSocket, OneAttempt, IsOpen, connection

-----------------------------------------------------------------------------
(* The announcement.                                                       *)

\* An event other than the announcement is taken only after it.
LEMMA OtherEvent ==
    ASSUME Announced, NEW e \in Events \ {"session"},
           IsOpen, down # <<>>, Head(down) = e, down' = Tail(down),
           UNCHANGED <<dir, opens>>
    PROVE  Announced'
<1>1. dir = opens
  BY DEF Announced
<1>2. down' \in Seq(Events)
  BY DEF Announced
<1>3. QED
  BY <1>1, <1>2 DEF Announced

\* Nothing that the server sends comes before it.
LEMMA SentEvents ==
    ASSUME Announced, NEW n, NEW events \in Seq(Events), Send(n, events),
           UNCHANGED <<connection, dir, opens>>
    PROVE  Announced'
<1>1. IsOpen' = IsOpen
  BY DEF IsOpen, connection
<1>2. CASE down' = down
  BY <1>1, <1>2 DEF Announced
<1>3. CASE down' = down \o events
  <2>1. down' \in Seq(Events)
    BY <1>3 DEF Announced
  <2>2. down # <<>> => down' # <<>> /\ Head(down') = Head(down)
    BY <1>3 DEF Announced
  <2>3. QED
    BY <1>1, <2>1, <2>2 DEF Announced
<1>4. QED
  BY <1>2, <1>3 DEF Send

LEMMA UnchangedAnnounced ==
    ASSUME Announced, UNCHANGED <<down, dir, opens>>, IsOpen' => IsOpen
    PROVE  Announced'
BY DEF Announced

LEMMA ConnectingAnnounced ==
    ASSUME IInv, Connecting
    PROVE  Announced'
<1> USE ClientAssumption DEF IInv, ConnectionInv, ConnectionType, IsOpen
<1>1. CASE TimerFires
  BY <1>1, UnchangedAnnounced DEF Connecting, TimerFires, CreateSocket, session
<1>2. CASE ChallengeOk
  BY <1>2, UnchangedAnnounced DEF Connecting, ChallengeOk, CreateSocket, session
<1>3. CASE ChallengeFails
  BY <1>3, UnchangedAnnounced DEF Connecting, ChallengeFails, session
<1>4. CASE Close
  BY <1>4 DEF Close, Announced, Events
<1>5. CASE MenuEvent
  <2>1. "menu" \in Events \ {"session"}
    BY DEF Events
  <2>2. IsOpen /\ down # <<>> /\ Head(down) = "menu" /\ down' = Tail(down)
        /\ UNCHANGED <<dir, opens>>
    BY <1>5 DEF MenuEvent, Connecting
  <2>3. QED
    BY <2>1, <2>2, OtherEvent
<1>6. ASSUME NEW s \in Socket, Errored(s) PROVE Announced'
  BY <1>6, UnchangedAnnounced DEF Connecting, Errored, session
<1>7. ASSUME NEW s \in Socket, Closed(s) PROVE Announced'
  <2>1. CASE ws = s
    BY <1>7, <2>1 DEF Closed, Announced, Connecting
  <2>2. CASE ws # s
    BY <1>7, <2>2, UnchangedAnnounced DEF Closed, Connecting
  <2>3. QED
    BY <2>1, <2>2
<1>8. QED
  BY <1>1, <1>2, <1>3, <1>4, <1>5, <1>6, <1>7 DEF Connecting

-----------------------------------------------------------------------------
(* The steps.                                                              *)

LEMMA ServerStep ==
    ASSUME IInv, NEW n \in Sessions, ServerCloses(n) \/ ServerReads(n) \/ CommandEnds(n)
    PROVE  IInv'
<1>1. UNCHANGED <<connection, dir, opens>>
  BY DEF ServerCloses, ServerReads, CommandEnds, FileopsFrame, InitFrame, ResultFrame,
         CommandFrame, CommandRefused, Take, session
<1>2. ConnectionInv' /\ IsOpen' = IsOpen
  BY <1>1, UnchangedConnection DEF IInv
<1>3. \/ down' = down
      \/ \E events \in Seq(Events) : Send(n, events)
  <2>1. <<"menu">> \in Seq(Events) /\ <<"init">> \in Seq(Events)
        /\ <<"fileop", "init">> \in Seq(Events)
    BY DEF Events
  <2>2. CASE ServerReads(n) \/ CommandEnds(n)
    BY <2>1, <2>2 DEF ServerReads, CommandEnds, FileopsFrame, InitFrame, ResultFrame,
                      CommandFrame, CommandRefused
  <2>3. CASE ServerCloses(n)
    BY <2>3 DEF ServerCloses, session
  <2>4. QED
    BY <2>2, <2>3
<1>4. Announced'
  BY <1>1, <1>2, <1>3, SentEvents, UnchangedAnnounced DEF IInv
<1>5. QED
  BY <1>2, <1>4 DEF IInv

LEMMA ClientStep ==
    ASSUME IInv, ClientReads \/ HandleAnswer \/ PromptFails
    PROVE  IInv'
<1>1. UNCHANGED <<connection, opens>>
  BY DEF ClientReads, HandleSession, SessionEvent, HandleInit, HandleFileop, DropFileop,
         Event, HandleAnswer, Answer, PromptFails
<1>2. ConnectionInv' /\ IsOpen' = IsOpen
  BY <1>1, UnchangedConnection DEF IInv
<1>3. CASE HandleSession
  <2>1. dir' = opens' /\ down' = Tail(down) /\ down # <<>>
    BY <1>1, <1>3 DEF HandleSession, SetSession, SessionEvent
  <2>2. QED
    BY <2>1, <1>2 DEF IInv, Announced
<1>4. CASE HandleInit \/ HandleFileop \/ DropFileop
  <2>1. PICK e \in {"init", "fileop"} : Event(e)
    BY <1>4 DEF HandleInit, HandleFileop, DropFileop
  <2>2. QED
    BY <1>2, <2>1, OtherEvent DEF IInv, Event, Events
<1>5. CASE HandleAnswer \/ PromptFails
  <2>1. UNCHANGED <<down, dir, opens>>
    BY <1>5 DEF HandleAnswer, Answer, PromptFails
  <2>2. QED
    BY <1>2, <2>1, UnchangedAnnounced DEF IInv
<1>6. QED
  BY <1>2, <1>3, <1>4, <1>5 DEF ClientReads, IInv

LEMMA NextIInv == IInv /\ [SessionNext]_allVars => IInv'
<1> SUFFICES ASSUME IInv, [SessionNext]_allVars PROVE IInv'
  OBVIOUS
<1>1. CASE Connecting
  <2>1. ConnectionInv'
    BY <1>1, ConnectingStep, SocketStep, UnchangedConnection DEF Connecting, IInv, MenuEvent
  <2>2. QED
    BY <1>1, <2>1, ConnectingAnnounced DEF IInv
<1>2. CASE Open
  <2>1. PICK s \in Socket : Opened(s)
    BY <1>2 DEF Open
  <2>2. ConnectionInv'
    BY <2>1, SocketStep DEF IInv
  <2>3. down' = <<"session", "menu">>
    BY <2>1 DEF Opened
  <2>4. Announced'
    BY <2>3 DEF Announced, Events
  <2>5. QED
    BY <2>2, <2>4 DEF IInv
<1>3. CASE UNCHANGED allVars
  BY <1>3, UnchangedConnection, UnchangedAnnounced DEF allVars, vars, session, IInv
<1>4. QED
  BY <1>1, <1>2, <1>3, ServerStep, ClientStep DEF SessionNext

-----------------------------------------------------------------------------
\* Until it is closed or gives up, the client has exactly one attempt to be connected
\* under way, and shows the state of its socket, whatever the sessions do.
THEOREM OneAttemptCorrect == SessionSpec => []OneAttempt
<1>1. IInv => OneAttempt
  BY DEF IInv, ConnectionInv
<1>2. QED
  BY InitIInv, NextIInv, <1>1, PTL DEF SessionSpec

\* A file operation is executed in the directory of the session that asked for it.
THEOREM FilesCorrect == SessionSpec => []FilesInOwnSession
<1>1. IInv => FilesInOwnSession
  BY DEF IInv, Announced, FilesInOwnSession
<1>2. QED
  BY InitIInv, NextIInv, <1>1, PTL DEF SessionSpec

-----------------------------------------------------------------------------
(* The commands in the outbox.                                             *)

\* The attempts end: when they are spent, nothing is under way any more.
Spent ==
    /\ attempts \in 0 .. MaxAttempts + 1
    /\ attempts = MaxAttempts + 1 => challenges = 0 /\ timers = 0 /\ ws = NoSocket

FrameTypes ==
    /\ outbox \in Seq(Frames) /\ Len(outbox) <= MaxOutbox
    /\ wire \in Seq(Frames)
    /\ emitted \in Nat /\ sent \in Nat

SentInv == FrameTypes /\ SentOnceInOrder

CommandFrames == [kind : {"command"}, nr : Nat]

LEMMA FrameKinds ==
    /\ FileOps \in Frames \ CommandFrames
    /\ [kind |-> "init", nr |-> 0] \in Frames \ CommandFrames
    /\ [kind |-> "result", nr |-> 0] \in Frames \ CommandFrames
    /\ \A n \in Nat : Command(n) \in Frames \cap CommandFrames
BY DEF Frames, CommandFrames, FileOps, Command

\* With one attempt at most, whatever takes part in it takes part alone.
LEMMA AloneUnderWay ==
    ASSUME ConnectionInv
    PROVE  /\ challenges > 0 => ws = NoSocket /\ timers = 0
           /\ timers > 0 => ws = NoSocket /\ challenges = 0
           /\ ws # NoSocket => challenges = 0 /\ timers = 0
BY DEF ConnectionInv, ConnectionType, OneAttempt

LEMMA SpentStep ==
    ASSUME ConnectionInv, Spent, [SessionNext]_allVars
    PROVE  Spent'
<1> USE ClientAssumption DEF Spent
<1>1. /\ challenges \in Nat /\ timers \in Nat /\ ws \in Socket \cup {NoSocket}
      /\ MaxAttempts \in Nat
  BY DEF ConnectionInv, ConnectionType
<1>2. CASE TimerFires
  BY <1>1, <1>2 DEF TimerFires
<1>3. CASE ChallengeOk
  BY <1>1, <1>3 DEF ChallengeOk
<1>4. CASE ChallengeFails
  <2>1. /\ challenges > 0 /\ challenges' = challenges - 1 /\ ws' = ws
        /\ ScheduleReconnect
    BY <1>4 DEF ChallengeFails
  <2>2. ws = NoSocket /\ timers = 0 /\ challenges = 1 /\ attempts <= MaxAttempts
    <3>1. challenges + timers <= 1
      BY <1>1 DEF ConnectionInv, OneAttempt
    <3> QED  BY <1>1, <2>1, <3>1, AloneUnderWay
  <2> QED  BY <1>1, <2>1, <2>2 DEF ScheduleReconnect
<1>5. CASE Close
  BY <1>1, <1>5 DEF Close
<1>6. ASSUME NEW s \in Socket, Opened(s) PROVE Spent'
  BY <1>1, <1>6 DEF Opened
<1>7. ASSUME NEW s \in Socket, Errored(s) PROVE Spent'
  BY <1>1, <1>7 DEF Errored
<1>8. ASSUME NEW s \in Socket, Closed(s) PROVE Spent'
  <2>1. CASE ws = s /\ ~closing
    <3>1. /\ ws' = NoSocket /\ UNCHANGED challenges /\ ScheduleReconnect
          /\ ws # NoSocket
      BY <1>8, <2>1 DEF Closed
    <3>2. challenges = 0 /\ timers = 0 /\ attempts <= MaxAttempts
      BY <1>1, <3>1, AloneUnderWay
    <3> QED  BY <1>1, <3>1, <3>2 DEF ScheduleReconnect
  <2>2. CASE ~(ws = s /\ ~closing)
    BY <1>1, <1>8, <2>2 DEF Closed
  <2> QED  BY <2>1, <2>2
<1>9. CASE UNCHANGED connection
  BY <1>9 DEF connection
<1> QED
  BY <1>2, <1>3, <1>4, <1>5, <1>6, <1>7, <1>8, <1>9
     DEF SessionNext, Connecting, Open, ClientReads, HandleSession, SessionEvent,
         HandleInit, HandleFileop, DropFileop, Event, HandleAnswer, Answer, PromptFails,
         ServerCloses, ServerReads, CommandEnds, FileopsFrame, InitFrame, ResultFrame,
         CommandFrame, CommandRefused, Take, MenuEvent, allVars, vars

\* How many commands wait.
LEMMA Unsent ==
    ASSUME SentInv
    PROVE  /\ Len(CommandsIn(outbox)) = emitted - sent
           /\ outbox = <<>> => emitted = sent
<1>1. /\ CommandsIn(outbox) = [i \in 1 .. (emitted - sent) |-> Command(sent + i)]
      /\ emitted - sent \in Nat /\ emitted \in Nat /\ sent \in Nat
  BY DEF SentInv, FrameTypes, SentOnceInOrder
<1>2. Len(CommandsIn(outbox)) = emitted - sent
  <2>1. Len([i \in 1 .. (emitted - sent) |-> Command(sent + i)]) = emitted - sent
    BY <1>1
  <2> QED  BY <1>1, <2>1
<1>3. Len(CommandsIn(<<>>)) = 0
  BY OnlyEmpty DEF CommandsIn
<1> QED  BY <1>1, <1>2, <1>3

\* A frame that is no command is written without counting as one.
LEMMA WrittenOther ==
    ASSUME FrameTypes, NEW f \in Frames, Written(<<f>>)
    PROVE  /\ wire' = wire \o <<f>> /\ wire' \in Seq(Frames)
           /\ sent' = sent + (IF f \in CommandFrames THEN 1 ELSE 0)
<1>1. Len(CommandsIn(<<f>>)) = IF f \in CommandFrames THEN 1 ELSE 0
  BY OnlyCount DEF CommandsIn, CommandFrames
<1>2. wire' = wire \o <<f>> /\ sent' = sent + Len(CommandsIn(<<f>>))
  BY DEF Written
<1>3. wire \o <<f>> \in Seq(Frames)
  BY DEF FrameTypes
<1> QED  BY <1>1, <1>2, <1>3

LEMMA WrittenNothing ==
    ASSUME FrameTypes, Written(<<>>)
    PROVE  wire' = wire /\ sent' = sent
<1>1. Len(CommandsIn(<<>>)) = 0
  BY OnlyEmpty DEF CommandsIn
<1>2. wire \o <<>> = wire
  BY DEF FrameTypes
<1> QED  BY <1>1, <1>2 DEF Written, FrameTypes

\* Nothing changes for the outbox while the connection is not opened by it.
LEMMA UnchangedSent ==
    ASSUME SentInv, UNCHANGED <<outbox, emitted, sent>>, wire' \in Seq(Frames),
           IsOpen' => IsOpen
    PROVE  SentInv'
BY DEF SentInv, FrameTypes, SentOnceInOrder, CommandsIn, Command

\* onopen writes all that waits.
LEMMA OpenedSent ==
    ASSUME SentInv, NEW s \in Socket, Opened(s)
    PROVE  SentInv'
<1>1. /\ wire' = outbox /\ outbox' = <<>> /\ emitted' = emitted
      /\ sent' = sent + Len(CommandsIn(outbox))
  BY DEF Opened, Flush
<1>2. sent' = emitted /\ emitted \in Nat
  BY <1>1, Unsent DEF SentInv, FrameTypes
<1>3. FrameTypes'
  BY <1>1, <1>2, ClientAssumption DEF SentInv, FrameTypes
<1>4. CommandsIn(outbox)' = <<>>
  BY <1>1, OnlyEmpty DEF CommandsIn
<1>5. emitted' - sent' = 0
  BY <1>1, <1>2
<1>6. SentOnceInOrder'
  <2>1. [i \in 1 .. (emitted' - sent') |-> Command(sent' + i)] = <<>>
    BY <1>5
  <2>2. sent' <= emitted' /\ outbox' = <<>>
    BY <1>1, <1>2
  <2> QED  BY <1>4, <2>1, <2>2, Zenon DEF SentOnceInOrder, Command
<1> QED  BY <1>3, <1>6 DEF SentInv

\* An answer is written, or waits behind the others.
LEMMA AnswerSent ==
    ASSUME SentInv, HandleAnswer
    PROVE  SentInv'
<1> DEFINE f == Command(emitted + 1)
<1>1. emitted \in Nat /\ f \in Frames /\ f \in CommandFrames /\ sent \in Nat /\ sent <= emitted
  BY FrameKinds DEF SentInv, FrameTypes, SentOnceInOrder
<1>2. IsOpen' = IsOpen
  BY DEF HandleAnswer, Answer, connection, IsOpen
<1>3. CASE UNCHANGED frames
  BY <1>2, <1>3, UnchangedSent DEF frames, SentInv, FrameTypes
<1>4. CASE SendOrQueue(f) /\ emitted' = emitted + 1 /\ IsOpen
  <2>1. Written(<<f>>) /\ outbox' = outbox
    BY <1>4 DEF SendOrQueue
  <2>2. wire' \in Seq(Frames) /\ sent' = sent + 1
    BY <1>1, <2>1, WrittenOther DEF SentInv
  <2>3. outbox = <<>> /\ emitted = sent
    BY <1>4, Unsent DEF SentInv, SentOnceInOrder
  <2>4. FrameTypes'
    BY <1>1, <1>4, <2>1, <2>2 DEF SentInv, FrameTypes
  <2>5. CommandsIn(outbox)' = <<>>
    BY <2>1, <2>3, OnlyEmpty DEF CommandsIn
  <2>6. emitted' - sent' = 0 /\ sent' <= emitted'
    BY <1>1, <1>4, <2>2, <2>3
  <2>7. SentOnceInOrder'
    <3>1. [i \in 1 .. (emitted' - sent') |-> Command(sent' + i)] = <<>>
      BY <2>6
    <3>2. outbox' = <<>>
      BY <2>1, <2>3
    <3> QED  BY <2>5, <2>6, <3>1, <3>2, Zenon DEF SentOnceInOrder, Command
  <2> QED  BY <2>4, <2>7 DEF SentInv
<1>5. CASE SendOrQueue(f) /\ emitted' = emitted + 1 /\ ~IsOpen
  <2>1. /\ Len(outbox) < MaxOutbox /\ outbox' = Append(outbox, f)
        /\ UNCHANGED <<sent, wire>>
    BY <1>5 DEF SendOrQueue
  <2>2. outbox \in Seq(Frames) /\ wire \in Seq(Frames) /\ MaxOutbox \in Nat
    BY ClientAssumption DEF SentInv, FrameTypes
  <2>3. outbox' \in Seq(Frames) /\ Len(outbox') <= MaxOutbox
    BY <1>1, <2>1, <2>2
  <2>4. FrameTypes'
    BY <1>1, <1>5, <2>1, <2>2, <2>3 DEF FrameTypes
  <2>5. CommandsIn(outbox)' = Append(CommandsIn(outbox), f)
    <3>1. Only(Append(outbox, f), CommandFrames) =
             IF f \in CommandFrames THEN Append(Only(outbox, CommandFrames), f)
                                    ELSE Only(outbox, CommandFrames)
      BY <1>1, <2>2, OnlyAppend
    <3> QED  BY <1>1, <2>1, <3>1 DEF CommandsIn, CommandFrames
  <2>6. CommandsIn(outbox) = [i \in 1 .. (emitted - sent) |-> Command(sent + i)]
    BY DEF SentInv, SentOnceInOrder
  <2>7. Append([i \in 1 .. (emitted - sent) |-> Command(sent + i)], Command(emitted + 1))
           = [i \in 1 .. (emitted + 1 - sent) |-> Command(sent + i)]
    <3> DEFINE n == emitted - sent
               a == [i \in 1 .. n |-> Command(sent + i)]
               b == [i \in 1 .. n + 1 |-> Command(sent + i)]
               c == Append(a, Command(emitted + 1))
    <3>1. n \in Nat /\ emitted + 1 - sent = n + 1 /\ sent + (n + 1) = emitted + 1
      BY <1>1
    <3> HIDE DEF n
    <3>2. a \in Seq(Frames) /\ b \in Seq(Frames) /\ Len(a) = n /\ Len(b) = n + 1
      <4>1. \A i \in 1 .. n + 1 : Command(sent + i) \in Frames
        BY <1>1, <3>1, FrameKinds
      <4> QED  BY <3>1, <4>1
    <3>3. /\ c \in Seq(Frames) /\ Len(c) = n + 1
          /\ \A i \in 1 .. n : c[i] = Command(sent + i)
          /\ c[n + 1] = Command(emitted + 1)
      <4>1. \A i \in 1 .. n : a[i] = Command(sent + i)
        OBVIOUS
      <4> HIDE DEF a
      <4> QED  BY <1>1, <3>1, <3>2, <4>1
    <3>4. \A i \in 1 .. n + 1 : b[i] = Command(sent + i)
      OBVIOUS
    <3> HIDE DEF a, b, c
    <3>5. \A i \in 1 .. n + 1 : c[i] = b[i]
      BY <3>1, <3>3, <3>4
    <3>6. c = b
      BY <3>2, <3>3, <3>5, SeqEqual
    <3> QED  BY <3>1, <3>6 DEF a, b, c, n
  <2>8. SentOnceInOrder'
    <3>1. sent' = sent /\ emitted' = emitted + 1 /\ sent' <= emitted' /\ ~IsOpen'
      BY <1>1, <1>2, <1>5, <2>1
    <3>2. CommandsIn(outbox)' = [i \in 1 .. (emitted + 1 - sent) |-> Command(sent + i)]
      BY <2>5, <2>6, <2>7
    <3>3. [i \in 1 .. (emitted' - sent') |-> Command(sent' + i)]
             = [i \in 1 .. (emitted + 1 - sent) |-> Command(sent + i)]
      <4>1. emitted' - sent' = emitted + 1 - sent /\ sent' = sent
        BY <1>1, <3>1
      <4> QED  BY <4>1, Zenon
    <3> QED  BY <3>1, <3>2, <3>3, Zenon DEF SentOnceInOrder, Command
  <2> QED  BY <2>4, <2>8 DEF SentInv
<1> QED  BY <1>3, <1>4, <1>5 DEF HandleAnswer, Answer

\* A frame that is read leaves the others.
LEMMA TakenFrames ==
    ASSUME NEW n \in Sessions, wire \in Seq(Frames), Take(n, "fileops") \/ Take(n, "init")
              \/ Take(n, "result") \/ Take(n, "command")
    PROVE  /\ wire' \in Seq(Frames)
           /\ UNCHANGED <<connection, outbox, emitted, sent, menus, opens>>
<1>1. UNCHANGED <<connection, outbox, emitted, sent, menus, opens>>
  BY DEF Take
<1>2. wire' = wire \/ (wire # <<>> /\ wire' = Tail(wire))
  BY DEF Take, Inbox
<1> QED  BY <1>1, <1>2

LEMMA SentStep ==
    ASSUME ConnectionInv, SentInv, [SessionNext]_allVars
    PROVE  SentInv'
<1> USE ClientAssumption
<1>1. /\ FrameTypes /\ wire \in Seq(Frames)
      /\ socket \in [Socket -> {"free", "connecting", "open", "closing", "failed"}]
      /\ ws \in Socket \cup {NoSocket}
  BY DEF SentInv, FrameTypes, ConnectionInv, ConnectionType
<1>2. CASE TimerFires \/ ChallengeOk \/ ChallengeFails \/ Close \/ MenuEvent
  <2>1. UNCHANGED frames
    BY <1>2 DEF TimerFires, ChallengeOk, ChallengeFails, Close, MenuEvent
  <2>2. IsOpen' => IsOpen
    BY <1>1, <1>2 DEF TimerFires, ChallengeOk, ChallengeFails, Close, MenuEvent, CreateSocket,
                     IsOpen, connection
  <2> QED  BY <1>1, <2>1, <2>2, UnchangedSent DEF frames
<1>3. ASSUME NEW s \in Socket, Errored(s) \/ Closed(s) PROVE SentInv'
  <2>1. UNCHANGED frames
    BY <1>3 DEF Errored, Closed
  <2>2. IsOpen' => IsOpen
    BY <1>1, <1>3 DEF Errored, Closed, IsOpen
  <2> QED  BY <1>1, <2>1, <2>2, UnchangedSent DEF frames
<1>4. CASE Open
  BY <1>4, OpenedSent DEF Open
<1>5. CASE HandleSession \/ HandleInit \/ HandleFileop \/ DropFileop
  <2>1. /\ IsOpen /\ UNCHANGED <<connection, outbox, emitted>>
    BY <1>5 DEF HandleSession, SessionEvent, SendOrQueue, HandleInit, HandleFileop,
                DropFileop, Event
  <2>2. \/ Written(<<>>) \/ Written(<<FileOps>>)
        \/ Written(<<[kind |-> "init", nr |-> 0]>>) \/ Written(<<[kind |-> "result", nr |-> 0]>>)
    BY <1>5 DEF HandleSession, SessionEvent, SendOrQueue, HandleInit, HandleFileop,
                DropFileop, Event
  <2>3. wire' \in Seq(Frames) /\ (sent' = sent \/ sent' = sent + 0)
    BY <1>1, <2>2, FrameKinds, WrittenOther, WrittenNothing
  <2>4. sent' = sent /\ IsOpen' = IsOpen
    BY <1>1, <2>1, <2>3 DEF FrameTypes, IsOpen, connection
  <2> QED  BY <2>1, <2>3, <2>4, UnchangedSent
<1>6. CASE HandleAnswer
  BY <1>6, AnswerSent
<1>7. ASSUME NEW n \in Sessions, ServerReads(n) PROVE SentInv'
  <2>1. /\ wire' \in Seq(Frames)
        /\ UNCHANGED <<connection, outbox, emitted, sent, menus, opens>>
    BY <1>1, <1>7, TakenFrames DEF ServerReads, FileopsFrame, InitFrame, ResultFrame, CommandFrame, CommandRefused
  <2> QED  BY <2>1, UnchangedSent DEF connection, IsOpen
<1>8. ASSUME NEW n \in Sessions, ServerCloses(n) \/ CommandEnds(n) PROVE SentInv'
  <2>1. UNCHANGED <<connection, outbox, emitted, sent>> /\ wire' \in {wire, <<>>}
    BY <1>8 DEF ServerCloses, CommandEnds, frames
  <2>2. wire' \in Seq(Frames)
    <3>1. <<>> \in Seq(Frames)
      OBVIOUS
    <3> QED  BY <1>1, <2>1, <3>1
  <2> QED  BY <2>1, <2>2, UnchangedSent DEF connection, IsOpen
<1>9. CASE PromptFails \/ UNCHANGED allVars
  <2>1. UNCHANGED <<connection, frames>>
    BY <1>9 DEF PromptFails, allVars, vars
  <2> QED  BY <1>1, <2>1, UnchangedSent DEF frames, connection, IsOpen
<1> QED
  BY <1>2, <1>3, <1>4, <1>5, <1>6, <1>7, <1>8, <1>9
     DEF SessionNext, Connecting, ClientReads

-----------------------------------------------------------------------------
(* The turns.                                                              *)

\* The rest of the type invariant.
OtherTypes ==
    /\ secret \in BOOLEAN
    /\ state \in {"connecting", "ready", "degraded", "reconnecting", "closed"}
    /\ menus \in Nat /\ opens \in 0 .. MaxOpens
    /\ dir \in 0 .. MaxOpens
    /\ late \in [Sessions -> Seq(Frames)]
    /\ gone \subseteq Sessions /\ advertised \subseteq Sessions
    /\ running \in [Sessions -> Nat]
    /\ lost \in BOOLEAN

\* A session that no connection has opened yet has nothing to read and runs nothing.
Fresh == \A n \in Sessions : n > opens => late[n] = <<>> /\ running[n] = 0

TurnInv ==
    /\ OtherTypes
    /\ Fresh
    /\ Turns <= opens
    /\ IsOpen /\ opens \notin gone /\ ~lost => Turns >= 1

\* The terms of Turns.
Asking(s) == Len(Only(s, [kind : {"command", "init"}, nr : Nat]))
Asked(s) == Len(Only(s, {"menu", "init"}))
Run(n, r) == IF n = 0 THEN 0 ELSE r[n]

LEMMA TurnsAre ==
    /\ Turns = menus + Asking(outbox) + Asking(wire) + Asked(down) + Run(opens, running)
    /\ Turns' = menus' + Asking(outbox') + Asking(wire') + Asked(down') + Run(opens', running')
BY DEF Turns, Asking, Asked, Run

LEMMA AskingCount ==
    /\ Asking(<<>>) = 0
    /\ \A s \in Seq(Frames) : Asking(s) \in Nat
    /\ \A s \in Seq(Frames), f \in Frames :
          /\ Asking(Append(s, f)) = Asking(s) + (IF f.kind \in {"command", "init"} THEN 1 ELSE 0)
          /\ Asking(s \o <<f>>) = Asking(s) + (IF f.kind \in {"command", "init"} THEN 1 ELSE 0)
    /\ \A s \in Seq(Frames) : s # <<>> =>
          Asking(s) = Asking(Tail(s)) + (IF Head(s).kind \in {"command", "init"} THEN 1 ELSE 0)
<1> DEFINE S == [kind : {"command", "init"}, nr : Nat]
<1>1. \A f \in Frames : f \in S <=> f.kind \in {"command", "init"}
  BY DEF Frames
<1> HIDE DEF S
<1>2. \A s : Asking(s) = Len(Only(s, S))
  BY DEF Asking, S
<1>3. /\ Len(Only(<<>>, S)) = 0
      /\ \A e \in Frames : Len(Only(<<e>>, S)) = IF e \in S THEN 1 ELSE 0
      /\ \A s \in Seq(Frames) : Len(Only(s, S)) \in Nat
      /\ \A s \in Seq(Frames), f \in Frames :
            Len(Only(Append(s, f), S)) = Len(Only(s, S)) + (IF f \in S THEN 1 ELSE 0)
      /\ \A s \in Seq(Frames), u \in Seq(Frames) :
            Len(Only(s \o u, S)) = Len(Only(s, S)) + Len(Only(u, S))
      /\ \A s \in Seq(Frames) : s # <<>> =>
            Len(Only(s, S)) = Len(Only(Tail(s), S)) + (IF Head(s) \in S THEN 1 ELSE 0)
  BY OnlyCount
<1>4. \A s \in Seq(Frames), f \in Frames : s \o <<f>> = Append(s, f)
  OBVIOUS
<1>5. \A s \in Seq(Frames) : s # <<>> => Head(s) \in Frames
  OBVIOUS
<1>6. ASSUME NEW s \in Seq(Frames), NEW f \in Frames
      PROVE  /\ Asking(Append(s, f)) = Asking(s) + (IF f.kind \in {"command", "init"} THEN 1 ELSE 0)
             /\ Asking(s \o <<f>>) = Asking(s) + (IF f.kind \in {"command", "init"} THEN 1 ELSE 0)
  <2>1. Asking(Append(s, f)) = Asking(s) + (IF f \in S THEN 1 ELSE 0)
    BY <1>2, <1>3, Zenon
  <2>2. f \in S <=> f.kind \in {"command", "init"}
    BY <1>1
  <2>3. s \o <<f>> = Append(s, f)
    BY <1>4
  <2> QED  BY <2>1, <2>2, <2>3, Zenon
<1>7. ASSUME NEW s \in Seq(Frames), s # <<>>
      PROVE  Asking(s) = Asking(Tail(s)) + (IF Head(s).kind \in {"command", "init"} THEN 1 ELSE 0)
  <2>1. Asking(s) = Asking(Tail(s)) + (IF Head(s) \in S THEN 1 ELSE 0)
    BY <1>2, <1>3, <1>7, Zenon
  <2>2. Head(s) \in S <=> Head(s).kind \in {"command", "init"}
    BY <1>1, <1>5, <1>7, Zenon
  <2> QED  BY <2>1, <2>2, Zenon
<1>8. Asking(<<>>) = 0 /\ \A s \in Seq(Frames) : Asking(s) \in Nat
  BY <1>2, <1>3, Zenon
<1> QED  BY <1>6, <1>7, <1>8, Zenon

LEMMA AskedCount ==
    /\ Asked(<<>>) = 0
    /\ Asked(<<"menu">>) = 1 /\ Asked(<<"init">>) = 1
    /\ Asked(<<"fileop", "init">>) = 1 /\ Asked(<<"session", "menu">>) = 1
    /\ \A s \in Seq(Events) : Asked(s) \in Nat
    /\ \A s \in Seq(Events), u \in Seq(Events) : Asked(s \o u) = Asked(s) + Asked(u)
    /\ \A s \in Seq(Events) : s # <<>> =>
          Asked(s) = Asked(Tail(s)) + (IF Head(s) \in {"menu", "init"} THEN 1 ELSE 0)
<1> DEFINE S == {"menu", "init"}
<1>1. /\ Len(Only(<<>>, S)) = 0
      /\ \A e \in Events : Len(Only(<<e>>, S)) = IF e \in S THEN 1 ELSE 0
      /\ \A s \in Seq(Events) : Len(Only(s, S)) \in Nat
      /\ \A s \in Seq(Events), e \in Events :
            Len(Only(Append(s, e), S)) = Len(Only(s, S)) + (IF e \in S THEN 1 ELSE 0)
      /\ \A s \in Seq(Events), u \in Seq(Events) :
            Len(Only(s \o u, S)) = Len(Only(s, S)) + Len(Only(u, S))
      /\ \A s \in Seq(Events) : s # <<>> =>
            Len(Only(s, S)) = Len(Only(Tail(s), S)) + (IF Head(s) \in S THEN 1 ELSE 0)
  BY OnlyCount
<1>2. /\ Len(Only(<<"menu">>, S)) = 1 /\ Len(Only(<<"init">>, S)) = 1
      /\ Len(Only(<<"fileop">>, S)) = 0 /\ Len(Only(<<"session">>, S)) = 0
  BY <1>1 DEF Events
<1>3. /\ <<"fileop", "init">> = Append(<<"fileop">>, "init")
      /\ <<"session", "menu">> = Append(<<"session">>, "menu")
      /\ <<"fileop">> \in Seq(Events) /\ <<"session">> \in Seq(Events)
      /\ "init" \in Events /\ "menu" \in Events
  BY DEF Events
<1>4. Len(Only(Append(<<"fileop">>, "init"), S)) = 1 /\ Len(Only(Append(<<"session">>, "menu"), S)) = 1
  <2>1. Len(Only(Append(<<"fileop">>, "init"), S)) = Len(Only(<<"fileop">>, S)) + 1
    BY <1>1, <1>3
  <2>2. Len(Only(Append(<<"session">>, "menu"), S)) = Len(Only(<<"session">>, S)) + 1
    BY <1>1, <1>3
  <2> QED  BY <1>2, <2>1, <2>2
<1> QED  BY <1>1, <1>2, <1>3, <1>4 DEF Asked

LEMMA TurnTypes ==
    ASSUME FrameTypes, down \in Seq(Events), OtherTypes
    PROVE  /\ menus \in Nat /\ opens \in Nat /\ Asking(outbox) \in Nat /\ Asking(wire) \in Nat
           /\ Asked(down) \in Nat /\ Run(opens, running) \in Nat
<1>1. opens \in Nat /\ (opens # 0 => opens \in Sessions)
  BY ClientAssumption DEF OtherTypes, Sessions
<1> QED  BY <1>1, AskingCount, AskedCount DEF FrameTypes, OtherTypes, Run

\* A step that opens no connection keeps the bounds if it brings no turn, and takes
\* none from a connection that is open, known to the server and without a refusal.
LEMMA NoMoreTurns ==
    ASSUME FrameTypes, down \in Seq(Events), TurnInv, OtherTypes', Fresh',
           opens' = opens, Turns' <= Turns, Turns' \in Nat,
           IsOpen' /\ opens \notin gone' /\ ~lost' =>
               IsOpen /\ opens \notin gone /\ ~lost /\ Turns' = Turns
    PROVE  TurnInv'
<1>1. Turns \in Nat /\ opens \in Nat
  BY TurnTypes, TurnsAre DEF TurnInv
<1>2. Turns <= opens /\ (IsOpen /\ opens \notin gone /\ ~lost => Turns >= 1)
  BY DEF TurnInv
<1>3. Turns' <= opens'
  BY <1>1, <1>2
<1>4. IsOpen' /\ opens' \notin gone' /\ ~lost' => Turns' >= 1
  BY <1>2
<1> QED  BY <1>3, <1>4 DEF TurnInv

LEMMA ConnectingTurns ==
    ASSUME ConnectionInv, Announced, FrameTypes, TurnInv, Connecting
    PROVE  TurnInv'
<1> USE ClientAssumption
<1>1. /\ UNCHANGED <<secret, outbox, wire, opens, dir, late, gone, advertised, running, lost>>
      /\ down \in Seq(Events) /\ OtherTypes
      /\ socket \in [Socket -> {"free", "connecting", "open", "closing", "failed"}]
      /\ ws \in Socket \cup {NoSocket}
  BY DEF Connecting, TimerFires, ChallengeOk, ChallengeFails, Close, MenuEvent, Errored, Closed,
         frames, server, session, connection, Announced, TurnInv, ConnectionInv, ConnectionType
<1>2. Fresh'
  BY <1>1 DEF TurnInv, Fresh
<1>3. /\ menus \in Nat /\ opens \in Nat /\ Asking(outbox) \in Nat /\ Asking(wire) \in Nat
      /\ Asked(down) \in Nat /\ Run(opens, running) \in Nat
  BY <1>1, TurnTypes
<1>4. Turns = menus + Asking(outbox) + Asking(wire) + Asked(down) + Run(opens, running)
  BY TurnsAre
<1>5. Turns' = menus' + Asking(outbox) + Asking(wire) + Asked(down') + Run(opens, running)
  <2>1. Turns' = menus' + Asking(outbox') + Asking(wire') + Asked(down') + Run(opens', running')
    BY TurnsAre
  <2> QED  BY <1>1, <2>1
<1>6. state' \in {"connecting", "ready", "degraded", "reconnecting", "closed"}
  BY <1>1 DEF OtherTypes, Connecting, TimerFires, ChallengeOk, ChallengeFails, Close, MenuEvent,
              Errored, Closed, ScheduleReconnect, connection
<1>7. CASE MenuEvent
  <2>1. /\ IsOpen /\ down # <<>> /\ Head(down) = "menu" /\ down' = Tail(down)
        /\ menus' = menus + 1 /\ IsOpen' = IsOpen
    BY <1>7 DEF MenuEvent, connection, IsOpen
  <2>2. Asked(down) = Asked(down') + 1 /\ Asked(down') \in Nat
    <3>1. down' \in Seq(Events)
      BY <1>1, <2>1
    <3> QED  BY <1>1, <2>1, <3>1, AskedCount
  <2>3. Turns' = Turns /\ Turns' \in Nat
    <3>1. PICK a \in Nat, b \in Nat, c \in Nat, d \in Nat, e \in Nat :
             /\ a = menus /\ b = Asking(outbox) /\ c = Asking(wire)
             /\ d = Asked(down') /\ e = Run(opens, running)
      BY <1>3, <2>2
    <3>2. Turns' = (a + 1) + b + c + d + e
      BY <1>5, <2>1, <3>1, Zenon
    <3>3. Turns = a + b + c + (d + 1) + e
      BY <1>4, <2>2, <3>1, Zenon
    <3> QED  BY <3>2, <3>3
  <2>4. OtherTypes'
    BY <1>1, <1>6, <2>1 DEF OtherTypes
  <2> QED  BY <1>1, <1>2, <1>3, <1>4, <2>1, <2>3, <2>4, NoMoreTurns
<1>8. CASE UNCHANGED <<down, menus>> /\ (IsOpen' => IsOpen)
  <2>1. Turns' = Turns /\ Turns' \in Nat
    BY <1>3, <1>4, <1>5, <1>8
  <2>2. OtherTypes'
    BY <1>1, <1>6, <1>8 DEF OtherTypes
  <2> QED  BY <1>1, <1>2, <1>3, <1>4, <1>8, <2>1, <2>2, NoMoreTurns
<1>9. CASE down' = <<>> /\ UNCHANGED menus /\ ~IsOpen'
  <2>1. Asked(down') = 0
    BY <1>9, AskedCount
  <2>2. Turns' <= Turns /\ Turns' \in Nat
    BY <1>3, <1>4, <1>5, <1>9, <2>1
  <2>3. OtherTypes'
    BY <1>1, <1>6, <1>9 DEF OtherTypes
  <2> QED  BY <1>1, <1>2, <1>9, <2>2, <2>3, NoMoreTurns
<1>10. CASE TimerFires \/ ChallengeOk \/ ChallengeFails
  <2>1. UNCHANGED <<down, menus>> /\ (IsOpen' => IsOpen)
    BY <1>1, <1>10 DEF TimerFires, ChallengeOk, ChallengeFails, CreateSocket, IsOpen, session
  <2> QED  BY <1>8, <2>1
<1>11. CASE Close
  <2>1. down' = <<>> /\ UNCHANGED menus /\ ~IsOpen'
    BY <1>11 DEF Close, IsOpen
  <2> QED  BY <1>9, <2>1
<1>12. ASSUME NEW s \in Socket, Errored(s) PROVE TurnInv'
  <2>1. UNCHANGED <<down, menus>> /\ (IsOpen' => IsOpen)
    BY <1>1, <1>12 DEF Errored, IsOpen, session
  <2> QED  BY <1>8, <2>1
<1>13. ASSUME NEW s \in Socket, Closed(s) PROVE TurnInv'
  <2>1. CASE ws = s
    <3>1. down' = <<>> /\ UNCHANGED menus /\ ~IsOpen'
      BY <1>13, <2>1 DEF Closed, IsOpen
    <3> QED  BY <1>9, <3>1
  <2>2. CASE ws # s
    <3>1. UNCHANGED <<down, menus>> /\ (IsOpen' => IsOpen)
      BY <1>1, <1>13, <2>2 DEF Closed, IsOpen
    <3> QED  BY <1>8, <3>1
  <2> QED  BY <2>1, <2>2
<1> QED
  BY <1>7, <1>10, <1>11, <1>12, <1>13 DEF Connecting

\* A connection brings one turn: the menu that its session sends.
LEMMA OpenTurns ==
    ASSUME Announced, FrameTypes, TurnInv, Open
    PROVE  TurnInv'
<1> USE ClientAssumption
<1>1. PICK s \in Socket : Opened(s)
  BY DEF Open
<1>2. /\ wire' = outbox /\ outbox' = <<>> /\ down' = <<"session", "menu">>
      /\ opens' = opens + 1 /\ opens < MaxOpens
      /\ UNCHANGED <<secret, menus, dir, gone, advertised, running>>
      /\ state' = "ready" /\ lost' = FALSE
      /\ late' = [n \in Sessions |-> IF n = opens /\ n \notin gone THEN wire ELSE late[n]]
  BY <1>1 DEF Open, Opened, Flush
<1>3. /\ menus \in Nat /\ opens \in Nat /\ Asking(outbox) \in Nat /\ Asking(wire) \in Nat
      /\ Asked(down) \in Nat /\ Run(opens, running) \in Nat /\ MaxOpens \in Nat
  BY TurnTypes DEF Announced, TurnInv
<1>4. opens' \in Sessions /\ running[opens'] = 0
  BY <1>2, <1>3 DEF TurnInv, Fresh, Sessions
<1>5. /\ Turns = menus + Asking(outbox) + Asking(wire) + Asked(down) + Run(opens, running)
      /\ Turns <= opens
  BY TurnsAre DEF TurnInv
<1>6. Turns' = menus + Asking(outbox) + 1
  <2>1. Turns' = menus' + Asking(outbox') + Asking(wire') + Asked(down') + Run(opens', running')
    BY TurnsAre
  <2>2. Asking(outbox') = 0 /\ Asked(down') = 1 /\ Asking(wire') = Asking(outbox)
    BY <1>2, AskingCount, AskedCount
  <2>3. Run(opens', running') = 0
    BY <1>2, <1>4 DEF Run
  <2> QED  BY <1>2, <1>3, <2>1, <2>2, <2>3
<1>7. Turns' <= opens' /\ Turns' >= 1
  BY <1>2, <1>3, <1>5, <1>6
<1>8. OtherTypes'
  <2>1. late' \in [Sessions -> Seq(Frames)]
    BY <1>2 DEF TurnInv, OtherTypes, FrameTypes
  <2>2. opens' \in 0 .. MaxOpens
    BY <1>2, <1>3
  <2> QED  BY <1>2, <2>1, <2>2 DEF TurnInv, OtherTypes
<1>9. Fresh'
  BY <1>2, <1>3 DEF TurnInv, Fresh, OtherTypes, Sessions
<1> QED  BY <1>7, <1>8, <1>9 DEF TurnInv

\* What reading a frame does to the turns on their way to the server.
LEMMA TakenTurns ==
    ASSUME FrameTypes, OtherTypes, Fresh, NEW n \in Sessions,
           NEW kind \in {"fileops", "init", "result", "command"}, Take(n, kind)
    PROVE  /\ n \notin gone /\ n <= opens
           /\ wire' \in Seq(Frames) /\ late' \in [Sessions -> Seq(Frames)]
           /\ \A m \in Sessions : m > opens => late'[m] = <<>>
           /\ n # opens => wire' = wire
           /\ n = opens => Asking(wire) = Asking(wire') +
                                (IF kind \in {"command", "init"} THEN 1 ELSE 0)
           /\ UNCHANGED <<secret, connection, outbox, menus, opens, dir, gone>>
<1>1. /\ n \notin gone /\ Inbox(n) # <<>> /\ Head(Inbox(n)).kind = kind
      /\ IF n = opens THEN wire' = Tail(wire) /\ UNCHANGED late
                      ELSE late' = [late EXCEPT ![n] = Tail(@)] /\ UNCHANGED wire
      /\ UNCHANGED <<secret, connection, outbox, menus, opens, dir, gone>>
  BY DEF Take
<1>2. opens \in Nat /\ n \in Nat /\ wire \in Seq(Frames) /\ late \in [Sessions -> Seq(Frames)]
  BY ClientAssumption DEF OtherTypes, FrameTypes, Sessions
<1>3. n <= opens
  <2>1. n # opens => late[n] # <<>>
    BY <1>1 DEF Inbox
  <2> QED  BY <1>2, <2>1 DEF Fresh
<1>4. CASE n = opens
  <2>1. wire # <<>> /\ Head(wire).kind = kind /\ wire' = Tail(wire) /\ late' = late
    BY <1>1, <1>4 DEF Inbox
  <2>2. wire' \in Seq(Frames)
    BY <1>2, <2>1
  <2>3. Asking(wire) = Asking(wire') + (IF kind \in {"command", "init"} THEN 1 ELSE 0)
    BY <1>2, <2>1, AskingCount
  <2> QED  BY <1>1, <1>2, <1>3, <1>4, <2>1, <2>2, <2>3 DEF Fresh
<1>5. CASE n # opens
  <2>1. late[n] # <<>> /\ late' = [late EXCEPT ![n] = Tail(@)] /\ wire' = wire
    BY <1>1, <1>5 DEF Inbox
  <2>2. Tail(late[n]) \in Seq(Frames)
    BY <1>2, <2>1
  <2>3. late' \in [Sessions -> Seq(Frames)]
    BY <1>2, <2>1, <2>2
  <2>4. \A m \in Sessions : m > opens => late'[m] = <<>>
    <3>1. \A m \in Sessions : m > opens => m # n
      BY <1>2, <1>3
    <3> QED  BY <1>2, <2>1, <3>1 DEF Fresh
  <2> QED  BY <1>1, <1>2, <1>3, <1>5, <2>1, <2>3, <2>4
<1> QED  BY <1>4, <1>5

LEMMA SentTurns ==
    ASSUME down \in Seq(Events), NEW n, NEW events \in Seq(Events), Send(n, events)
    PROVE  /\ down' \in Seq(Events)
           /\ Asked(down') = Asked(down) +
                 (IF n = opens /\ IsOpen /\ n \notin gone THEN Asked(events) ELSE 0)
<1>1. CASE n = opens /\ IsOpen /\ n \notin gone
  <2>1. down' = down \o events
    BY <1>1 DEF Send
  <2>2. Asked(down \o events) = Asked(down) + Asked(events)
    BY AskedCount
  <2>3. down \o events \in Seq(Events)
    OBVIOUS
  <2> QED  BY <1>1, <2>1, <2>2, <2>3
<1>2. CASE ~(n = opens /\ IsOpen /\ n \notin gone)
  <2>1. down' = down /\ Asked(down) \in Nat
    BY <1>2, AskedCount DEF Send
  <2> QED  BY <1>2, <2>1
<1> QED  BY <1>1, <1>2

\* A frame that the server reads turns a turn into another, or refuses it.
LEMMA ReadTurns ==
    ASSUME Announced, FrameTypes, TurnInv, NEW n \in Sessions, ServerReads(n)
    PROVE  TurnInv'
<1> USE ClientAssumption
<1>1. /\ menus \in Nat /\ opens \in Nat /\ Asking(outbox) \in Nat /\ Asking(wire) \in Nat
      /\ Asked(down) \in Nat /\ Run(opens, running) \in Nat
  BY TurnTypes DEF Announced, TurnInv
<1>2. /\ n \in Nat /\ n # 0 /\ opens \in Nat
      /\ down \in Seq(Events) /\ OtherTypes /\ Fresh
  BY <1>1 DEF Announced, TurnInv, Sessions
<1>3. PICK kind \in {"fileops", "init", "result", "command"} : Take(n, kind)
  BY DEF ServerReads, FileopsFrame, InitFrame, ResultFrame, CommandFrame, CommandRefused
<1>4. /\ n \notin gone /\ n <= opens
      /\ wire' \in Seq(Frames) /\ late' \in [Sessions -> Seq(Frames)]
      /\ \A m \in Sessions : m > opens => late'[m] = <<>>
      /\ UNCHANGED <<secret, connection, outbox, menus, opens, dir, gone>>
  BY <1>2, <1>3, TakenTurns
<1>5. IsOpen' = IsOpen /\ state' = state
  BY <1>4 DEF IsOpen, connection
<1>6. /\ Turns = menus + Asking(outbox) + Asking(wire) + Asked(down) + Run(opens, running)
      /\ Turns' = menus + Asking(outbox) + Asking(wire') + Asked(down') + Run(opens, running')
  <2>1. menus' = menus /\ outbox' = outbox /\ opens' = opens
    BY <1>4
  <2>2. Turns' = menus' + Asking(outbox') + Asking(wire') + Asked(down') + Run(opens', running')
    BY TurnsAre
  <2> QED  BY <2>1, <2>2, TurnsAre
<1>7. Asking(wire') \in Nat
  BY <1>4, AskingCount
<1>8. ASSUME OtherTypes', Fresh', Turns' <= Turns, Turns' \in Nat,
             IsOpen' /\ opens \notin gone' /\ ~lost' =>
                IsOpen /\ opens \notin gone /\ ~lost /\ Turns' = Turns
      PROVE  TurnInv'
  BY <1>2, <1>4, <1>8, NoMoreTurns
<1>9. CASE FileopsFrame(n) \/ ResultFrame(n)
  <2>1. \/ Take(n, "fileops") \/ Take(n, "result")
    BY <1>9 DEF FileopsFrame, ResultFrame
  <2>2. /\ advertised' \subseteq Sessions /\ UNCHANGED <<down, running, lost>>
    BY <1>2, <1>9 DEF FileopsFrame, ResultFrame, OtherTypes
  <2>3. Asking(wire') = Asking(wire)
    BY <1>2, <1>7, <2>1, TakenTurns
  <2>4. Turns' = Turns /\ Turns' \in Nat
    <3>1. down' = down /\ running' = running
      BY <2>2
    <3> QED  BY <1>1, <1>6, <2>3, <3>1, SMTT(60)
  <2>5. OtherTypes' /\ Fresh'
    BY <1>2, <1>4, <1>5, <2>2 DEF OtherTypes, Fresh
  <2> QED  BY <1>4, <1>5, <1>8, <2>2, <2>4, <2>5
<1>10. CASE InitFrame(n)
  <2>1. Take(n, "init") /\ Send(n, <<"menu">>) /\ UNCHANGED <<advertised, running, lost>>
    BY <1>10 DEF InitFrame
  <2>2. <<"menu">> \in Seq(Events)
    BY DEF Events
  <2>3. Asked(down') = Asked(down) + (IF n = opens /\ IsOpen THEN 1 ELSE 0)
    <3>1. Asked(down') = Asked(down) +
             (IF n = opens /\ IsOpen /\ n \notin gone THEN Asked(<<"menu">>) ELSE 0)
      BY <1>2, <2>1, <2>2, SentTurns
    <3> QED  BY <1>4, <3>1, AskedCount
  <2>4. Asking(wire) = Asking(wire') + (IF n = opens THEN 1 ELSE 0)
    <3>1. IF n = opens THEN Asking(wire) = Asking(wire') + 1 ELSE wire' = wire
      BY <1>2, <2>1, TakenTurns
    <3> QED  BY <1>1, <3>1
  <2>5. Turns' <= Turns /\ Turns' \in Nat /\ (IsOpen => Turns' = Turns)
    <3>1. running' = running
      BY <2>1
    <3> QED  BY <1>1, <1>6, <1>7, <2>3, <2>4, <3>1, SMTT(60)
  <2>6. OtherTypes' /\ Fresh'
    BY <1>2, <1>4, <1>5, <2>1 DEF OtherTypes, Fresh
  <2> QED  BY <1>4, <1>5, <1>8, <2>1, <2>5, <2>6
<1>11. CASE CommandFrame(n)
  <2>1. /\ Take(n, "command") /\ running' = [running EXCEPT ![n] = @ + 1]
        /\ UNCHANGED <<down, advertised, lost>>
    BY <1>11 DEF CommandFrame
  <2>2. Asking(wire) = Asking(wire') + (IF n = opens THEN 1 ELSE 0)
    <3>1. IF n = opens THEN Asking(wire) = Asking(wire') + 1 ELSE wire' = wire
      BY <1>2, <2>1, TakenTurns
    <3> QED  BY <1>1, <3>1
  <2>3. running' \in [Sessions -> Nat] /\ \A m \in Sessions \ {n} : running'[m] = running[m]
    BY <1>2, <2>1 DEF OtherTypes
  <2>4. Run(opens, running') = Run(opens, running) + (IF n = opens THEN 1 ELSE 0)
    <3>1. opens # 0 => opens \in Sessions
      BY <1>2 DEF OtherTypes, Sessions
    <3> QED  BY <1>2, <2>1, <2>3, <3>1 DEF Run, OtherTypes
  <2>5. Turns' = Turns /\ Turns' \in Nat
    <3>1. down' = down
      BY <2>1
    <3> QED  BY <1>1, <1>6, <1>7, <2>2, <2>4, <3>1, SMTT(60)
  <2>6. OtherTypes'
    BY <1>2, <1>4, <1>5, <2>1, <2>3 DEF OtherTypes
  <2>7. Fresh'
    <3>1. \A m \in Sessions : m > opens => m # n
      BY <1>2, <1>4
    <3> QED  BY <1>2, <1>4, <2>3, <3>1 DEF Fresh
  <2> QED  BY <1>4, <1>5, <1>8, <2>1, <2>5, <2>6, <2>7
<1>12. CASE CommandRefused(n)
  <2>1. /\ Take(n, "command") /\ lost' = (lost \/ n = opens)
        /\ UNCHANGED <<down, advertised, running>>
    BY <1>12 DEF CommandRefused
  <2>2. Asking(wire) = Asking(wire') + (IF n = opens THEN 1 ELSE 0)
    <3>1. IF n = opens THEN Asking(wire) = Asking(wire') + 1 ELSE wire' = wire
      BY <1>2, <2>1, TakenTurns
    <3> QED  BY <1>1, <3>1
  <2>3. Turns' <= Turns /\ Turns' \in Nat /\ (n # opens => Turns' = Turns)
    <3>1. down' = down /\ running' = running
      BY <2>1
    <3> QED  BY <1>1, <1>6, <1>7, <2>2, <3>1, SMTT(60)
  <2>4. lost' \in BOOLEAN /\ (~lost' => ~lost /\ n # opens)
    BY <1>2, <2>1 DEF OtherTypes
  <2>5. OtherTypes' /\ Fresh'
    BY <1>2, <1>4, <1>5, <2>1, <2>4 DEF OtherTypes, Fresh
  <2> QED  BY <1>4, <1>5, <1>8, <2>3, <2>4, <2>5
<1> QED  BY <1>9, <1>10, <1>11, <1>12 DEF ServerReads

\* A connection that ends takes its turns with it.
LEMMA CloseTurns ==
    ASSUME Announced, FrameTypes, TurnInv, NEW n \in Sessions, ServerCloses(n)
    PROVE  TurnInv'
<1> USE ClientAssumption
<1>1. /\ menus \in Nat /\ opens \in Nat /\ Asking(outbox) \in Nat /\ Asking(wire) \in Nat
      /\ Asked(down) \in Nat /\ Run(opens, running) \in Nat
  BY TurnTypes DEF Announced, TurnInv
<1>2. /\ n \in Nat /\ down \in Seq(Events) /\ OtherTypes /\ Fresh
  BY <1>1 DEF Announced, TurnInv, Sessions
<1>3. /\ gone' = gone \cup {n} /\ advertised' = advertised \ {n}
      /\ running' = [running EXCEPT ![n] = 0] /\ late' = [late EXCEPT ![n] = <<>>]
      /\ wire' = (IF n = opens THEN <<>> ELSE wire)
      /\ UNCHANGED <<secret, connection, outbox, down, menus, opens, dir, lost>>
  BY DEF ServerCloses, session
<1>4. IsOpen' = IsOpen /\ state' = state
  BY <1>3 DEF IsOpen, connection
<1>5. /\ Turns = menus + Asking(outbox) + Asking(wire) + Asked(down) + Run(opens, running)
      /\ Turns' = menus + Asking(outbox) + Asking(wire') + Asked(down) + Run(opens, running')
  <2>1. menus' = menus /\ outbox' = outbox /\ opens' = opens /\ down' = down
    BY <1>3
  <2>2. Turns' = menus' + Asking(outbox') + Asking(wire') + Asked(down') + Run(opens', running')
    BY TurnsAre
  <2> QED  BY <2>1, <2>2, TurnsAre
<1>6. OtherTypes'
  <2>1. <<>> \in Seq(Frames)
    OBVIOUS
  <2>2. late' \in [Sessions -> Seq(Frames)]
    BY <1>2, <1>3, <2>1 DEF OtherTypes
  <2> QED  BY <1>2, <1>3, <1>4, <2>2 DEF OtherTypes
<1>7. Fresh'
  BY <1>2, <1>3 DEF Fresh, OtherTypes
<1>8. \A m \in Sessions \ {n} : running'[m] = running[m]
  BY <1>2, <1>3 DEF OtherTypes
<1>9. opens # 0 => opens \in Sessions
  BY <1>2 DEF OtherTypes, Sessions
<1>10. CASE n = opens
  <2>1. Asking(wire') = 0
    BY <1>3, <1>10, AskingCount
  <2>2. Run(opens, running') = 0
    BY <1>2, <1>3, <1>10 DEF Run, OtherTypes
  <2>3. Turns' <= Turns /\ Turns' \in Nat
    BY <1>1, <1>5, <2>1, <2>2
  <2>4. opens \in gone'
    BY <1>3, <1>10
  <2> QED  BY <1>2, <1>3, <1>6, <1>7, <2>3, <2>4, NoMoreTurns
<1>11. CASE n # opens
  <2>1. wire' = wire
    BY <1>3, <1>11
  <2>2. Run(opens, running') = Run(opens, running)
    BY <1>8, <1>9, <1>11 DEF Run
  <2>3. Turns' = Turns /\ Turns' \in Nat
    BY <1>1, <1>5, <2>1, <2>2
  <2>4. opens \notin gone' => opens \notin gone
    BY <1>3
  <2> QED  BY <1>1, <1>2, <1>3, <1>4, <1>6, <1>7, <2>3, <2>4, NoMoreTurns
<1> QED  BY <1>10, <1>11

\* A command of an open connection turns into one `init`, also when its artifacts come
\* first.
LEMMA EndTurns ==
    ASSUME Announced, FrameTypes, TurnInv, NEW n \in Sessions, CommandEnds(n)
    PROVE  TurnInv'
<1> USE ClientAssumption
<1>1. /\ menus \in Nat /\ opens \in Nat /\ Asking(outbox) \in Nat /\ Asking(wire) \in Nat
      /\ Asked(down) \in Nat /\ Run(opens, running) \in Nat
  BY TurnTypes DEF Announced, TurnInv
<1>2. /\ n \in Nat /\ n # 0 /\ down \in Seq(Events) /\ OtherTypes /\ Fresh
  BY <1>1 DEF Announced, TurnInv, Sessions
<1>3. /\ running[n] > 0 /\ running' = [running EXCEPT ![n] = @ - 1]
      /\ UNCHANGED <<secret, connection, outbox, wire, menus, opens, dir, late, gone, advertised,
                     lost>>
  BY DEF CommandEnds, frames
<1>4. IsOpen' = IsOpen /\ state' = state
  BY <1>3 DEF IsOpen, connection
<1>5. PICK events \in {<<"fileop", "init">>, <<"init">>} : Send(n, events)
  BY DEF CommandEnds
<1>6. events \in Seq(Events) /\ Asked(events) = 1
  <2>1. <<"fileop", "init">> \in Seq(Events) /\ <<"init">> \in Seq(Events)
    BY DEF Events
  <2> QED  BY <1>5, <2>1, AskedCount
<1>7. Asked(down') = Asked(down) + (IF n = opens /\ IsOpen /\ n \notin gone THEN 1 ELSE 0)
  BY <1>2, <1>5, <1>6, SentTurns
<1>8. /\ running' \in [Sessions -> Nat] /\ running'[n] = running[n] - 1
      /\ \A m \in Sessions \ {n} : running'[m] = running[m]
  BY <1>2, <1>3 DEF OtherTypes
<1>9. Run(opens, running) = Run(opens, running') + (IF n = opens THEN 1 ELSE 0)
  <2>1. opens # 0 => opens \in Sessions
    BY <1>2 DEF OtherTypes, Sessions
  <2>2. running[n] \in Nat
    BY <1>2 DEF OtherTypes
  <2> QED  BY <1>2, <1>8, <2>1, <2>2 DEF Run, OtherTypes
<1>10. Run(opens, running') \in Nat
  <2>1. opens # 0 => opens \in Sessions
    BY <1>2 DEF OtherTypes, Sessions
  <2> QED  BY <1>8, <2>1 DEF Run
<1>11. /\ Turns = menus + Asking(outbox) + Asking(wire) + Asked(down) + Run(opens, running)
       /\ Turns' = menus + Asking(outbox) + Asking(wire) + Asked(down') + Run(opens, running')
  <2>1. menus' = menus /\ outbox' = outbox /\ opens' = opens /\ wire' = wire
    BY <1>3
  <2>2. Turns' = menus' + Asking(outbox') + Asking(wire') + Asked(down') + Run(opens', running')
    BY TurnsAre
  <2> QED  BY <2>1, <2>2, TurnsAre
<1>12. Turns' <= Turns /\ Turns' \in Nat /\ (IsOpen /\ opens \notin gone => Turns' = Turns)
  BY <1>1, <1>7, <1>9, <1>10, <1>11, SMTT(60)
<1>13. OtherTypes'
  BY <1>2, <1>3, <1>4, <1>8 DEF OtherTypes
<1>14. Fresh'
  BY <1>2, <1>3, <1>8 DEF Fresh
<1> QED  BY <1>2, <1>3, <1>4, <1>12, <1>13, <1>14, NoMoreTurns

\* A frame that is written brings a turn if it is a command or the echo of `init`.
LEMMA WrittenTurns ==
    ASSUME wire \in Seq(Frames)
    PROVE  /\ Written(<<>>) => Asking(wire') = Asking(wire)
           /\ \A f \in Frames : Written(<<f>>) =>
                 Asking(wire') = Asking(wire) + (IF f.kind \in {"command", "init"} THEN 1 ELSE 0)
<1>1. wire \o <<>> = wire
  OBVIOUS
<1> QED  BY <1>1, AskingCount DEF Written

\* An event that the client reads turns a turn into another, or is none.
LEMMA EventTurns ==
    ASSUME Announced, FrameTypes, TurnInv, ClientReads
    PROVE  TurnInv'
<1> USE ClientAssumption
<1>1. /\ menus \in Nat /\ opens \in Nat /\ Asking(outbox) \in Nat /\ Asking(wire) \in Nat
      /\ Asked(down) \in Nat /\ Run(opens, running) \in Nat
  BY TurnTypes DEF Announced, TurnInv
<1>2. down \in Seq(Events) /\ wire \in Seq(Frames) /\ OtherTypes /\ Fresh
  BY DEF Announced, TurnInv, FrameTypes
<1>3. /\ IsOpen /\ down # <<>> /\ down' = Tail(down) /\ dir' \in {dir, opens}
      /\ UNCHANGED <<secret, connection, outbox, menus, opens, server, lost>>
  BY DEF ClientReads, HandleSession, SessionEvent, SetSession, SendOrQueue, HandleInit,
         HandleFileop, DropFileop, Event
<1>4. IsOpen' = IsOpen /\ state' = state
  BY <1>3 DEF IsOpen, connection
<1>5. /\ Turns = menus + Asking(outbox) + Asking(wire) + Asked(down) + Run(opens, running)
      /\ Turns' = menus + Asking(outbox) + Asking(wire') + Asked(down') + Run(opens, running)
  <2>1. menus' = menus /\ outbox' = outbox /\ opens' = opens /\ running' = running
    BY <1>3 DEF server
  <2>2. Turns' = menus' + Asking(outbox') + Asking(wire') + Asked(down') + Run(opens', running')
    BY TurnsAre
  <2> QED  BY <2>1, <2>2, TurnsAre
<1>6. OtherTypes' /\ Fresh'
  BY <1>1, <1>2, <1>3, <1>4 DEF OtherTypes, Fresh, server
<1>7. /\ Asked(down) = Asked(down') + (IF Head(down) \in {"menu", "init"} THEN 1 ELSE 0)
      /\ Asked(down') \in Nat
  <2>1. down' \in Seq(Events)
    BY <1>2, <1>3
  <2> QED  BY <1>2, <1>3, <2>1, AskedCount
<1>8. Asking(wire') = Asking(wire) + (IF Head(down) \in {"menu", "init"} THEN 1 ELSE 0)
  <2>1. CASE HandleSession
    <3>1. Head(down) = "session" /\ Written(<<FileOps>>)
      BY <2>1 DEF HandleSession, SessionEvent, SendOrQueue
    <3>2. FileOps \in Frames /\ FileOps.kind = "fileops"
      BY DEF FileOps, Frames
    <3>3. Asking(wire') = Asking(wire) + (IF FileOps.kind \in {"command", "init"} THEN 1 ELSE 0)
      BY <1>2, <3>1, <3>2, WrittenTurns
    <3> QED  BY <1>1, <3>1, <3>2, <3>3
  <2>2. CASE HandleInit
    <3> DEFINE echo == [kind |-> "init", nr |-> 0]
    <3>1. Head(down) = "init" /\ Written(<<echo>>)
      BY <2>2 DEF HandleInit, Event
    <3>2. echo \in Frames /\ echo.kind = "init"
      BY DEF Frames
    <3>3. Asking(wire') = Asking(wire) + (IF echo.kind \in {"command", "init"} THEN 1 ELSE 0)
      BY <1>2, <3>1, <3>2, WrittenTurns
    <3> QED  BY <1>1, <3>1, <3>2, <3>3
  <2>3. CASE HandleFileop \/ DropFileop
    <3> DEFINE result == [kind |-> "result", nr |-> 0]
    <3>1. Head(down) = "fileop" /\ (Written(<<>>) \/ Written(<<result>>))
      BY <2>3 DEF HandleFileop, DropFileop, Event
    <3>2. result \in Frames /\ result.kind = "result"
      BY DEF Frames
    <3>3. Written(<<result>>) =>
             Asking(wire') = Asking(wire) + (IF result.kind \in {"command", "init"} THEN 1 ELSE 0)
      BY <1>2, <3>2, WrittenTurns
    <3>4. Written(<<>>) => Asking(wire') = Asking(wire)
      BY <1>2, WrittenTurns
    <3> QED  BY <1>1, <3>1, <3>2, <3>3, <3>4
  <2> QED  BY <2>1, <2>2, <2>3 DEF ClientReads
<1>9. Turns' = Turns /\ Turns' \in Nat
  BY <1>1, <1>5, <1>7, <1>8, SMTT(60)
<1>10. gone' = gone /\ lost' = lost
  BY <1>3 DEF server
<1> QED  BY <1>2, <1>3, <1>4, <1>6, <1>9, <1>10, NoMoreTurns

\* The answer to a menu becomes a command, on the wire or in the outbox; a full outbox
\* refuses it only while no connection is open.
LEMMA AnswerTurns ==
    ASSUME Announced, FrameTypes, TurnInv, HandleAnswer \/ PromptFails
    PROVE  TurnInv'
<1> USE ClientAssumption
<1>1. /\ menus \in Nat /\ opens \in Nat /\ Asking(outbox) \in Nat /\ Asking(wire) \in Nat
      /\ Asked(down) \in Nat /\ Run(opens, running) \in Nat
  BY TurnTypes DEF Announced, TurnInv
<1>2. /\ down \in Seq(Events) /\ wire \in Seq(Frames) /\ outbox \in Seq(Frames)
      /\ emitted \in Nat /\ OtherTypes /\ Fresh
  BY DEF Announced, TurnInv, FrameTypes
<1>3. /\ menus > 0 /\ menus' = menus - 1 /\ lost' \in {lost, TRUE}
      /\ UNCHANGED <<secret, connection, down, opens, dir, server>>
  BY DEF HandleAnswer, Answer, PromptFails
<1>4. IsOpen' = IsOpen /\ state' = state
  BY <1>3 DEF IsOpen, connection
<1>5. /\ Turns = menus + Asking(outbox) + Asking(wire) + Asked(down) + Run(opens, running)
      /\ Turns' = menus' + Asking(outbox') + Asking(wire') + Asked(down) + Run(opens, running)
  <2>1. down' = down /\ opens' = opens /\ running' = running
    BY <1>3 DEF server
  <2>2. Turns' = menus' + Asking(outbox') + Asking(wire') + Asked(down') + Run(opens', running')
    BY TurnsAre
  <2> QED  BY <2>1, <2>2, TurnsAre
<1>6. OtherTypes' /\ Fresh'
  <2>1. menus' \in Nat
    BY <1>1, <1>3
  <2> QED  BY <1>2, <1>3, <1>4, <2>1 DEF OtherTypes, Fresh, server
<1>7. ASSUME Asking(outbox') = Asking(outbox), Asking(wire') = Asking(wire), lost' \/ ~IsOpen
      PROVE  TurnInv'
  <2>1. Turns' <= Turns /\ Turns' \in Nat
    BY <1>1, <1>3, <1>5, <1>7
  <2> QED  BY <1>2, <1>3, <1>4, <1>6, <1>7, <2>1, NoMoreTurns
<1>8. ASSUME Asking(outbox') + Asking(wire') = Asking(outbox) + Asking(wire) + 1,
             Asking(outbox') \in Nat, Asking(wire') \in Nat, lost' = lost
      PROVE  TurnInv'
  <2>1. Turns' = Turns /\ Turns' \in Nat
    BY <1>1, <1>3, <1>5, <1>8
  <2>2. gone' = gone
    BY <1>3 DEF server
  <2> QED  BY <1>2, <1>3, <1>4, <1>6, <1>8, <2>1, <2>2, NoMoreTurns
<1>9. CASE PromptFails
  <2>1. lost' = TRUE /\ outbox' = outbox /\ wire' = wire
    BY <1>9 DEF PromptFails, frames
  <2> QED  BY <1>7, <2>1
<1>10. CASE HandleAnswer
  <2> DEFINE f == Command(emitted + 1)
  <2>1. f \in Frames /\ f.kind \in {"command", "init"}
    BY <1>2 DEF Command, Frames
  <2> HIDE DEF f
  <2>2. lost' = lost
    BY <1>10 DEF HandleAnswer
  <2>3. \/ IsOpen /\ Written(<<f>>) /\ outbox' = outbox
        \/ outbox' = Append(outbox, f) /\ wire' = wire
        \/ ~IsOpen /\ outbox' = outbox /\ wire' = wire
    BY <1>10 DEF HandleAnswer, Answer, SendOrQueue, frames, f
  <2>4. CASE IsOpen /\ Written(<<f>>) /\ outbox' = outbox
    <3>1. Asking(wire') = Asking(wire) + 1 /\ Asking(outbox') = Asking(outbox)
      <4>1. Asking(wire') = Asking(wire) + (IF f.kind \in {"command", "init"} THEN 1 ELSE 0)
        BY <1>2, <2>1, <2>4, WrittenTurns
      <4> QED  BY <2>1, <2>4, <4>1
    <3> QED  BY <1>1, <1>8, <2>2, <3>1
  <2>5. CASE outbox' = Append(outbox, f) /\ wire' = wire
    <3>1. Asking(outbox') = Asking(outbox) + 1 /\ Asking(wire') = Asking(wire)
      <4>1. Asking(Append(outbox, f)) =
               Asking(outbox) + (IF f.kind \in {"command", "init"} THEN 1 ELSE 0)
        BY <1>2, <2>1, AskingCount
      <4> QED  BY <2>1, <2>5, <4>1
    <3> QED  BY <1>1, <1>8, <2>2, <3>1
  <2>6. CASE ~IsOpen /\ outbox' = outbox /\ wire' = wire
    BY <1>7, <2>6
  <2> QED  BY <2>3, <2>4, <2>5, <2>6
<1> QED  BY <1>9, <1>10

LEMMA TurnStep ==
    ASSUME ConnectionInv, Announced, SentInv, TurnInv, [SessionNext]_allVars
    PROVE  TurnInv'
<1>1. FrameTypes /\ down \in Seq(Events) /\ OtherTypes
  BY DEF SentInv, Announced, TurnInv
<1>2. CASE UNCHANGED allVars
  <2>1. /\ UNCHANGED <<secret, connection, menus, opens, down, outbox, wire>>
        /\ UNCHANGED <<dir, late, gone, advertised, running, lost>>
    BY <1>2 DEF allVars, vars, session, frames, server
  <2>2. IsOpen' = IsOpen /\ state' = state
    BY <2>1 DEF IsOpen, connection
  <2>3. OtherTypes' /\ Fresh'
    BY <1>1, <2>1, <2>2 DEF OtherTypes, Fresh, TurnInv
  <2>4. Turns' = Turns
    BY <2>1, TurnsAre
  <2> QED  BY <2>1, <2>2, <2>3, <2>4 DEF TurnInv
<1>3. CASE Connecting
  BY <1>1, <1>3, ConnectingTurns
<1>4. CASE Open
  BY <1>1, <1>4, OpenTurns
<1>5. CASE ClientReads
  BY <1>1, <1>5, EventTurns
<1>6. CASE HandleAnswer \/ PromptFails
  BY <1>1, <1>6, AnswerTurns
<1>7. ASSUME NEW n \in Sessions, ServerCloses(n) \/ ServerReads(n) \/ CommandEnds(n)
      PROVE  TurnInv'
  BY <1>1, <1>7, CloseTurns, ReadTurns, EndTurns
<1> QED  BY <1>2, <1>3, <1>4, <1>5, <1>6, <1>7 DEF SessionNext

-----------------------------------------------------------------------------
TurnsInv == IInv /\ Spent /\ SentInv /\ TurnInv

LEMMA InitTurnsInv == SessionInit => TurnsInv
<1> SUFFICES ASSUME SessionInit PROVE TurnsInv
  OBVIOUS
<1> USE ClientAssumption
<1>1. IInv
  BY InitIInv
<1>2. /\ secret \in BOOLEAN /\ state = "connecting" /\ attempts = 0 /\ closing = FALSE
      /\ outbox = <<>> /\ wire = <<>>
      /\ down = <<>> /\ emitted = 0 /\ sent = 0 /\ menus = 0 /\ opens = 0 /\ dir = 0
      /\ late = [n \in Sessions |-> <<>>] /\ gone = {} /\ advertised = {}
      /\ running = [n \in Sessions |-> 0] /\ lost = FALSE
  BY DEF SessionInit, Init
<1>3. Spent
  BY <1>2 DEF Spent
<1>4. <<>> \in Seq(Frames)
  OBVIOUS
<1>5. FrameTypes
  BY <1>2, <1>4 DEF FrameTypes
<1>6. SentOnceInOrder
  <2>1. CommandsIn(outbox) = <<>>
    BY <1>2, OnlyEmpty DEF CommandsIn
  <2>2. <<>> = [i \in 1 .. 0 |-> Command(sent + i)]
    OBVIOUS
  <2>3. emitted - sent = 0
    BY <1>2
  <2> QED  BY <1>2, <2>1, <2>2, <2>3 DEF SentOnceInOrder
<1>7. OtherTypes /\ Fresh
  <2>1. late \in [Sessions -> Seq(Frames)]
    BY <1>2, <1>4
  <2>2. \A n \in Sessions : late[n] = <<>> /\ running[n] = 0
    BY <1>2
  <2>3. running \in [Sessions -> Nat]
    BY <1>2
  <2>4. opens \in 0 .. MaxOpens /\ dir \in 0 .. MaxOpens
    BY <1>2
  <2> QED  BY <1>2, <2>1, <2>2, <2>3, <2>4 DEF OtherTypes, Fresh
<1>8. Turns = 0
  BY <1>2, TurnsAre, AskingCount, AskedCount DEF Run
<1>9. ~IsOpen
  BY <1>2, <1>1 DEF IInv, ConnectionInv, OneAttempt
<1> QED  BY <1>1, <1>2, <1>3, <1>5, <1>6, <1>7, <1>8, <1>9 DEF TurnsInv, SentInv, TurnInv

LEMMA NextTurnsInv == TurnsInv /\ [SessionNext]_allVars => TurnsInv'
<1> SUFFICES ASSUME TurnsInv, [SessionNext]_allVars PROVE TurnsInv'
  OBVIOUS
<1>1. IInv /\ Spent /\ SentInv /\ TurnInv /\ ConnectionInv /\ Announced
  BY DEF TurnsInv, IInv
<1> QED
  BY <1>1, NextIInv, SpentStep, SentStep, TurnStep DEF TurnsInv

-----------------------------------------------------------------------------
\* Every accepted command is written once, in order, or still waits in the outbox, and
\* waits only while no socket is open (sendOrQueue, onopen).
THEOREM SentCorrect == SessionSpec => []SentOnceInOrder
<1>1. TurnsInv => SentOnceInOrder
  BY DEF TurnsInv, SentInv
<1> QED  BY InitTurnsInv, NextTurnsInv, <1>1, PTL DEF SessionSpec

\* Every connection brings one turn of the menu, which no hop loses or multiplies, and the
\* client and its sessions keep their types: the attempts are bounded, and so is the outbox.
THEOREM TurnsCorrect == SessionSpec => []TurnsKept
<1>1. TurnsInv => TurnsKept
  <2> SUFFICES ASSUME TurnsInv PROVE TurnsKept
    OBVIOUS
  <2>1. IInv /\ Spent /\ SentInv /\ TurnInv
    BY DEF TurnsInv
  <2>2. TypeOK
    BY <2>1 DEF TypeOK, IInv, ConnectionInv, ConnectionType, Announced, Spent, SentInv,
                FrameTypes, TurnInv, OtherTypes
  <2>3. SessionTypeOK
    BY <2>1, <2>2 DEF SessionTypeOK, TurnInv, OtherTypes
  <2> QED  BY <2>1, <2>3 DEF TurnsKept, TurnInv
<1> QED  BY InitTurnsInv, NextTurnsInv, <1>1, PTL DEF SessionSpec
=============================================================================
