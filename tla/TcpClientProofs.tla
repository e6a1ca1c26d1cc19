--------------------------- MODULE TcpClientProofs ---------------------------
(***************************************************************************)
(* Proofs about TcpClient for every number of lines, endings and answers:  *)
(* types, that no edge is lost and no event outlives its connection, and   *)
(* that the startup event comes first on every connection.                 *)
(***************************************************************************)
EXTENDS TcpClient, TLAPS

(* Commands come from lines, and lines are bounded. *)
CountInv ==
  /\ cmd_pending \in Nat /\ frames_processed \in Nat /\ typed \in Nat /\ endings \in Nat
  /\ typed <= MaxLines
  /\ cmd_pending + frames_processed <= typed
  /\ line = "defect" => cmd_pending + frames_processed < typed

(* Events exist only while they are handled; of a socket there is one at   *)
(* most, and it is about the connection that is open.                      *)
BatchInv ==
  /\ at \notin {"events", "read"} => events = {}
  /\ ~("in" \in events /\ "hup" \in events)
  /\ at = "read" => "in" \notin events /\ "hup" \notin events
  /\ "in" \in events \/ "hup" \in events \/ at = "read" => open

(* What is unread or unseen is announced by an edge, by an event, or is    *)
(* being read.  Only a batch that "quit" cut short may drop it.            *)
EdgeInv ==
  inbox > 0 \/ conn \in Ended =>
    \/ edge \/ "in" \in events \/ "hup" \in events \/ at = "read"
    \/ ~g_running /\ at \in {"defects", "loop", "leave", "done"}

(* The number of the descriptor is known as long as it is open; nothing is *)
(* read from a closed one; a connection that was not greeted is new.       *)
GreetInv ==
  /\ open => sock_fd
  /\ conn = "none" => inbox = 0
  /\ at = "connect" => ~sock_fd
  /\ greeted \in {"nothing", "startup"}
  /\ conn = "up" /\ greeted = "nothing" => at = "startup"

IInv == TypeOK /\ CountInv /\ BatchInv /\ EdgeInv /\ GreetInv

-----------------------------------------------------------------------------
LEMMA InitIInv == Init => IInv
<1> SUFFICES ASSUME Init PROVE IInv
  OBVIOUS
<1> USE DEF Init
<1>1. MaxLines \in Nat /\ MaxAnswers \in Nat
  BY BoundAssumption
<1>2. TypeOK
  <2>1. {g_running, killed, sock_fd, open, edge} \subseteq BOOLEAN
    OBVIOUS
  <2>2. open <=> conn # "none"
    OBVIOUS
  <2>3. /\ asked \in Nat /\ inbox \in Nat /\ asked + inbox <= MaxAnswers
        /\ cmd_pending + frames_processed \in 0 .. MaxLines
    BY <1>1
  <2> QED BY <2>1, <2>2, <2>3 DEF TypeOK, Ended, Lines
<1>3. CountInv
  BY <1>1 DEF CountInv
<1>4. BatchInv /\ EdgeInv /\ GreetInv
  BY DEF BatchInv, EdgeInv, GreetInv, Ended
<1> QED BY <1>2, <1>3, <1>4 DEF IInv

(* main(), the connection: no event is at hand. *)
LEMMA ConnectionIInv ==
  ASSUME IInv, Loop \/ ConnectFailed \/ Connected \/ NoHeartbeat \/ Leave
  PROVE  IInv'
<1> USE BoundAssumption
    DEF IInv, TypeOK, CountInv, BatchInv, EdgeInv, GreetInv, Ended, Lines,
        Goto, Closed, sockVars, cmdVars, envVars
<1>1. CASE Loop
  BY <1>1 DEF Loop
<1>2. CASE ConnectFailed
  BY <1>2 DEF ConnectFailed
<1>3. CASE Connected
  <2>1. TypeOK'
    <3>1. {g_running, killed, sock_fd, open, edge}' \subseteq BOOLEAN
      BY <1>3 DEF Connected
    <3>2. open' <=> conn' # "none"
      BY <1>3 DEF Connected
    <3>3. /\ at' \in {"loop", "connect", "startup", "heartbeat", "wait", "events", "read",
                     "defects", "leave", "done"}
          /\ conn' \in {"none", "up"} \cup Ended
          /\ events' \subseteq {"stdin", "in", "hup"}
          /\ line' \in Lines \cup {"none"}
      BY <1>3 DEF Connected
    <3>4. /\ asked' \in Nat /\ inbox' \in Nat /\ asked' + inbox' <= MaxAnswers
          /\ (cmd_pending + frames_processed)' \in 0 .. MaxLines
      BY <1>3 DEF Connected
    <3> QED BY <3>1, <3>2, <3>3, <3>4
  <2>2. CountInv'
    BY <1>3 DEF Connected
  <2>3. BatchInv'
    BY <1>3 DEF Connected
  <2>4. EdgeInv'
    BY <1>3 DEF Connected
  <2>5. GreetInv'
    BY <1>3 DEF Connected
  <2> QED BY <2>1, <2>2, <2>3, <2>4, <2>5
<1>4. CASE NoHeartbeat
  BY <1>4 DEF NoHeartbeat
<1>5. CASE Leave
  <2>1. TypeOK'
    <3>1. {g_running, killed, sock_fd, open, edge}' \subseteq BOOLEAN
      BY <1>5 DEF Leave
    <3>2. open' <=> conn' # "none"
      BY <1>5 DEF Leave
    <3>3. /\ at' \in {"loop", "connect", "startup", "heartbeat", "wait", "events", "read",
                     "defects", "leave", "done"}
          /\ conn' \in {"none", "up"} \cup Ended
          /\ events' \subseteq {"stdin", "in", "hup"}
          /\ line' \in Lines \cup {"none"}
      BY <1>5 DEF Leave
    <3>4. /\ asked' \in Nat /\ inbox' \in Nat /\ asked' + inbox' <= MaxAnswers
          /\ (cmd_pending + frames_processed)' \in 0 .. MaxLines
      BY <1>5 DEF Leave
    <3> QED BY <3>1, <3>2, <3>3, <3>4
  <2>2. CountInv'
    BY <1>5 DEF Leave
  <2>3. BatchInv'
    BY <1>5 DEF Leave
  <2>4. EdgeInv'
    BY <1>5 DEF Leave
  <2>5. GreetInv'
    BY <1>5 DEF Leave
  <2> QED BY <2>1, <2>2, <2>3, <2>4, <2>5
<1> QED BY <1>1, <1>2, <1>3, <1>4, <1>5

(* Every message: startup, heartbeat and defect. *)
LEMMA SendIInv ==
  ASSUME IInv, SendStartup \/ SendHeartbeat \/ SendDefect \/ SentDefects
  PROVE  IInv'
<1> USE BoundAssumption
    DEF IInv, TypeOK, CountInv, BatchInv, EdgeInv, GreetInv, Ended, Lines,
        Goto, Write, sockVars, cmdVars, envVars
<1>1. CASE SendStartup
  BY <1>1 DEF SendStartup
<1>2. CASE SendHeartbeat
  BY <1>2 DEF SendHeartbeat
<1>3. CASE SendDefect
  BY <1>3 DEF SendDefect
<1>4. CASE SentDefects
  BY <1>4 DEF SentDefects
<1> QED BY <1>1, <1>2, <1>3, <1>4

(* The batch of events. *)
LEMMA EventsIInv ==
  ASSUME IInv, Wait \/ HandleStdin \/ HandleHangUp \/ HandleReadable \/ HandledAll
  PROVE  IInv'
<1> USE BoundAssumption
    DEF IInv, TypeOK, CountInv, BatchInv, EdgeInv, GreetInv, Ended, Lines,
        Goto, Closed, sockVars, cmdVars, envVars
<1>1. CASE Wait
  <2>1. TypeOK'
    BY <1>1 DEF Wait, Ready
  <2>2. CountInv'
    BY <1>1 DEF Wait, Ready
  <2>3. BatchInv'
    BY <1>1 DEF Wait, Ready
  <2>4. EdgeInv'
    <3>1. SUFFICES ASSUME inbox > 0 \/ conn \in Ended PROVE "in" \in events' \/ "hup" \in events'
      BY <1>1 DEF Wait
    <3>2. edge
      BY <1>1, <3>1 DEF Wait
    <3>3. open
      BY <3>1
    <3>4. events' = Ready
      BY <1>1 DEF Wait
    <3> QED BY <3>2, <3>3, <3>4 DEF Ready
  <2>5. GreetInv'
    BY <1>1 DEF Wait, Ready
  <2> QED BY <2>1, <2>2, <2>3, <2>4, <2>5
<1>2. CASE HandleStdin
  <2>1. TypeOK'
    <3>1. {g_running, killed, sock_fd, open, edge}' \subseteq BOOLEAN
      BY <1>2 DEF HandleStdin
    <3>2. open' <=> conn' # "none"
      BY <1>2 DEF HandleStdin
    <3>3. /\ at' \in {"loop", "connect", "startup", "heartbeat", "wait", "events", "read",
                     "defects", "leave", "done"}
          /\ conn' \in {"none", "up"} \cup Ended
          /\ events' \subseteq {"stdin", "in", "hup"}
          /\ line' \in Lines \cup {"none"}
      BY <1>2 DEF HandleStdin
    <3>4. /\ asked' \in Nat /\ inbox' \in Nat /\ asked' + inbox' <= MaxAnswers
          /\ (cmd_pending + frames_processed)' \in 0 .. MaxLines
      BY <1>2 DEF HandleStdin
    <3> QED BY <3>1, <3>2, <3>3, <3>4
  <2>2. CountInv'
    BY <1>2 DEF HandleStdin
  <2>3. BatchInv'
    BY <1>2 DEF HandleStdin
  <2>4. EdgeInv'
    BY <1>2 DEF HandleStdin
  <2>5. GreetInv'
    BY <1>2 DEF HandleStdin
  <2> QED BY <2>1, <2>2, <2>3, <2>4, <2>5
<1>3. CASE HandleHangUp
  <2>1. TypeOK'
    <3>1. {g_running, killed, sock_fd, open, edge}' \subseteq BOOLEAN
      BY <1>3 DEF HandleHangUp
    <3>2. open' <=> conn' # "none"
      BY <1>3 DEF HandleHangUp
    <3>3. /\ at' \in {"loop", "connect", "startup", "heartbeat", "wait", "events", "read",
                     "defects", "leave", "done"}
          /\ conn' \in {"none", "up"} \cup Ended
          /\ events' \subseteq {"stdin", "in", "hup"}
          /\ line' \in Lines \cup {"none"}
      BY <1>3 DEF HandleHangUp
    <3>4. /\ asked' \in Nat /\ inbox' \in Nat /\ asked' + inbox' <= MaxAnswers
          /\ (cmd_pending + frames_processed)' \in 0 .. MaxLines
      BY <1>3 DEF HandleHangUp
    <3> QED BY <3>1, <3>2, <3>3, <3>4
  <2>2. CountInv'
    BY <1>3 DEF HandleHangUp
  <2>3. BatchInv'
    BY <1>3 DEF HandleHangUp
  <2>4. EdgeInv'
    BY <1>3 DEF HandleHangUp
  <2>5. GreetInv'
    BY <1>3 DEF HandleHangUp
  <2> QED BY <2>1, <2>2, <2>3, <2>4, <2>5
<1>4. CASE HandleReadable
  BY <1>4 DEF HandleReadable
<1>5. CASE HandledAll
  BY <1>5 DEF HandledAll
<1> QED BY <1>1, <1>2, <1>3, <1>4, <1>5

(* handle_response() *)
LEMMA ReadIInv ==
  ASSUME IInv, ReadData \/ ReadNothing \/ ReadEnd
  PROVE  IInv'
<1> USE BoundAssumption
    DEF IInv, TypeOK, CountInv, BatchInv, EdgeInv, GreetInv, Ended, Lines,
        Goto, Closed, sockVars, cmdVars, envVars
<1>1. CASE ReadData
  BY <1>1 DEF ReadData
<1>2. CASE ReadNothing
  BY <1>2 DEF ReadNothing
<1>3. CASE ReadEnd
  <2>1. TypeOK'
    <3>1. {g_running, killed, sock_fd, open, edge}' \subseteq BOOLEAN
      BY <1>3 DEF ReadEnd
    <3>2. open' <=> conn' # "none"
      BY <1>3 DEF ReadEnd
    <3>3. /\ at' \in {"loop", "connect", "startup", "heartbeat", "wait", "events", "read",
                     "defects", "leave", "done"}
          /\ conn' \in {"none", "up"} \cup Ended
          /\ events' \subseteq {"stdin", "in", "hup"}
          /\ line' \in Lines \cup {"none"}
      BY <1>3 DEF ReadEnd
    <3>4. /\ asked' \in Nat /\ inbox' \in Nat /\ asked' + inbox' <= MaxAnswers
          /\ (cmd_pending + frames_processed)' \in 0 .. MaxLines
      BY <1>3 DEF ReadEnd
    <3> QED BY <3>1, <3>2, <3>3, <3>4
  <2>2. CountInv'
    BY <1>3 DEF ReadEnd
  <2>3. BatchInv'
    BY <1>3 DEF ReadEnd
  <2>4. EdgeInv'
    BY <1>3 DEF ReadEnd
  <2>5. GreetInv'
    BY <1>3 DEF ReadEnd
  <2> QED BY <2>1, <2>2, <2>3, <2>4, <2>5
<1> QED BY <1>1, <1>2, <1>3

LEMMA EnvironmentIInv ==
  ASSUME IInv, Environment
  PROVE  IInv'
<1> USE BoundAssumption
    DEF IInv, TypeOK, CountInv, BatchInv, EdgeInv, GreetInv, Ended, Lines,
        Stopped, sockVars, cmdVars, envVars
<1>1. ASSUME NEW l \in Lines, Type(l) PROVE IInv'
  <2>1. TypeOK'
    BY <1>1 DEF Type
  <2>2. CountInv'
    BY <1>1 DEF Type
  <2>3. BatchInv'
    BY <1>1 DEF Type
  <2>4. EdgeInv'
    BY <1>1 DEF Type
  <2>5. GreetInv'
    BY <1>1 DEF Type
  <2> QED BY <2>1, <2>2, <2>3, <2>4, <2>5
<1>2. CASE Signal
  <2>1. TypeOK'
    BY <1>2 DEF Signal
  <2>2. CountInv' /\ BatchInv' /\ GreetInv'
    BY <1>2 DEF Signal
  <2>3. EdgeInv'
    BY <1>2 DEF Signal
  <2> QED BY <2>1, <2>2, <2>3
<1>3. CASE Answer
  BY <1>3 DEF Answer
<1>4. CASE ServerCloses
  BY <1>4 DEF ServerCloses, Ending
<1>5. CASE ServerResets
  BY <1>5 DEF ServerResets, Ending
<1>6. CASE ResetAfterWrite
  BY <1>6 DEF ResetAfterWrite, Ending
<1> QED BY <1>1, <1>2, <1>3, <1>4, <1>5, <1>6 DEF Environment

LEMMA NextIInv == IInv /\ [Next]_vars => IInv'
<1> SUFFICES ASSUME IInv, [Next]_vars PROVE IInv'
  OBVIOUS
<1>1. CASE Client
  BY <1>1, ConnectionIInv, SendIInv, EventsIInv, ReadIInv DEF Client
<1>2. CASE Environment
  BY <1>2, EnvironmentIInv
<1>3. CASE UNCHANGED vars
  BY <1>3 DEF vars, sockVars, cmdVars, envVars, IInv, TypeOK, CountInv, BatchInv, EdgeInv, GreetInv
<1> QED BY <1>1, <1>2, <1>3 DEF Next

THEOREM Invariance == Spec => []IInv
BY InitIInv, NextIInv, PTL DEF Spec

-----------------------------------------------------------------------------
(* The types of tcp_client.c's state, and that no command is counted twice *)
(* or lost: pending and sent together never exceed what was typed.         *)
THEOREM TypeCorrect == Spec => []TypeOK
<1>1. IInv => TypeOK
  BY DEF IInv
<1> QED BY <1>1, Invariance, PTL

(* Edge-triggered epoll with one connection after another: when the client *)
(* goes to wait nothing has been missed, and no event of a batch is about  *)
(* a connection that an earlier event of the batch closed.                 *)
THEOREM NothingMissed == Spec => []EventsExact
<1>1. IInv => EventsExact
  BY DEF IInv, TypeOK, BatchInv, EdgeInv, EventsExact
<1> QED BY <1>1, Invariance, PTL

(* On every connection the server reads the startup event first, however   *)
(* often the connection was lost and made again, and whatever commands and *)
(* heartbeats were due meanwhile.                                          *)
THEOREM StartupComesFirst == Spec => []StartupFirst
<1>1. IInv => StartupFirst
  BY DEF IInv, GreetInv, StartupFirst
<1> QED BY <1>1, Invariance, PTL

=============================================================================
