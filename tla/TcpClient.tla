------------------------------ MODULE TcpClient ------------------------------
(***************************************************************************)
(* The MES client of tcp_client.c: one thread, stdin and one TCP socket    *)
(* under epoll, the socket edge-triggered.                                 *)
(*                                                                         *)
(* The server and the network are choices: they answer, close in order     *)
(* (the client sees end of file), or reset.  A write to a connection that  *)
(* the server has closed is accepted and answered with a reset; a write to *)
(* one that is reset fails once with ECONNRESET and then raises SIGPIPE,   *)
(* at once when end of file came first.  The program leaves SIGPIPE to     *)
(* its default.                                                            *)
(***************************************************************************)
EXTENDS Integers

CONSTANTS
  MaxLines,     \* bound: lines typed
  MaxEndings,   \* bound: connections that the server ends
  MaxAnswers    \* bound: answers under way or waiting to be read

ASSUME BoundAssumption == {MaxLines, MaxEndings, MaxAnswers} \subseteq Nat

VARIABLES
  g_running,
  at,                 \* where main() is
  killed,             \* SIGPIPE ended the process
  sock_fd,            \* sock_fd >= 0
  open,               \* that descriptor is open, and under epoll
  conn,               \* what the kernel knows of the connection
  asked,              \* messages the server has not answered yet
  inbox,              \* answers that have not been read
  edge,               \* an edge is queued on the socket
  events,             \* what epoll_wait reported and is not handled yet
  line,               \* the line the terminal holds
  cmd_pending,
  frames_processed,
  greeted,            \* the server knows the client by its startup event
  typed, endings      \* how often the bounded choices were taken

sockVars == <<sock_fd, open, conn, asked, inbox, edge, greeted>>
cmdVars == <<cmd_pending, frames_processed>>
envVars == <<line, typed, endings>>
vars == <<g_running, at, killed, sockVars, events, cmdVars, envVars>>

Ended == {"fin", "dead", "reset", "broken"}
Lines == {"defect", "quit", "other"}

Init ==
  /\ g_running = TRUE /\ at = "loop" /\ killed = FALSE
  /\ sock_fd = FALSE /\ open = FALSE /\ conn = "none"
  /\ asked = 0 /\ inbox = 0 /\ edge = FALSE /\ greeted = "nothing"
  /\ events = {}
  /\ line = "none"
  /\ cmd_pending = 0 /\ frames_processed = 0
  /\ typed = 0 /\ endings = 0

Stopped == at = "done" \/ killed

Goto(from, to) ==
  /\ ~killed
  /\ at = from
  /\ at' = to

-----------------------------------------------------------------------------
(* main(), the connection.                                                 *)

(* Mutant: the client connects once. *)
LoopConnectingOnce ==
  /\ Goto("loop", IF ~g_running THEN "leave"
                  ELSE IF sock_fd \/ endings > 0 THEN "heartbeat" ELSE "connect")
  /\ UNCHANGED <<g_running, killed, sockVars, events, cmdVars, envVars>>

(* Mutant: the outer loop does not look at g_running. *)
LoopForever ==
  /\ Goto("loop", IF sock_fd THEN "heartbeat" ELSE "connect")
  /\ UNCHANGED <<g_running, killed, sockVars, events, cmdVars, envVars>>

Loop ==
  /\ Goto("loop", IF ~g_running THEN "leave" ELSE IF sock_fd THEN "heartbeat" ELSE "connect")
  /\ UNCHANGED <<g_running, killed, sockVars, events, cmdVars, envVars>>

(* connect_server() failed, the client sleeps and tries again. *)
ConnectFailed ==
  /\ Goto("connect", "loop")
  /\ UNCHANGED <<g_running, killed, sockVars, events, cmdVars, envVars>>

(* Mutant: a connection that was lost before is not announced. *)
ConnectedAgain ==
  /\ Goto("connect", IF endings = 0 THEN "startup" ELSE "wait")
  /\ sock_fd' = TRUE /\ open' = TRUE
  /\ conn' = "up" /\ asked' = 0 /\ inbox' = 0 /\ edge' = FALSE /\ greeted' = "nothing"
  /\ UNCHANGED <<g_running, killed, events, cmdVars, envVars>>

Connected ==
  /\ Goto("connect", "startup")
  /\ sock_fd' = TRUE /\ open' = TRUE
  /\ conn' = "up" /\ asked' = 0 /\ inbox' = 0 /\ edge' = FALSE /\ greeted' = "nothing"
  /\ UNCHANGED <<g_running, killed, events, cmdVars, envVars>>

(* send_all() with one message; its result is ignored everywhere.  On a    *)
(* descriptor that is closed it fails.  Answers beyond MaxAnswers are not  *)
(* followed.                                                               *)
Write(message) ==
  /\ conn' = CASE conn = "fin" -> "dead"
               [] conn = "reset" -> "broken"
               [] OTHER -> conn
  /\ greeted' = IF conn = "up" /\ greeted = "nothing" THEN message ELSE greeted
  /\ asked' = IF conn = "up" /\ asked + inbox < MaxAnswers THEN asked + 1 ELSE asked
  /\ killed' = (conn = "broken")
  /\ UNCHANGED <<sock_fd, open, inbox, edge>>

(* last_hb was set just now: no heartbeat is due.                          *)
SendStartup ==
  /\ Goto("startup", "wait")
  /\ Write("startup")
  /\ UNCHANGED <<g_running, events, cmdVars, envVars>>

(* Five seconds have passed since the last one, or not. *)
SendHeartbeat ==
  /\ Goto("heartbeat", "wait")
  /\ Write("heartbeat")
  /\ UNCHANGED <<g_running, events, cmdVars, envVars>>

NoHeartbeat ==
  /\ Goto("heartbeat", "wait")
  /\ UNCHANGED <<g_running, killed, sockVars, events, cmdVars, envVars>>

-----------------------------------------------------------------------------
(* main(), the events.                                                     *)

Ready ==
  (IF line # "none" THEN {"stdin"} ELSE {})
    \cup (IF open /\ edge THEN {IF conn \in {"reset", "broken"} THEN "hup" ELSE "in"} ELSE {})

(* epoll_wait() reports what is ready, or times out; an edge is reported   *)
(* once.                                                                   *)
Wait ==
  /\ Goto("wait", "events")
  /\ events' = Ready
  /\ edge' = FALSE
  /\ UNCHANGED <<g_running, killed, sock_fd, open, conn, asked, inbox, greeted, cmdVars, envVars>>

Closed ==
  /\ open' = FALSE
  /\ conn' = "none" /\ asked' = 0 /\ inbox' = 0 /\ edge' = FALSE /\ greeted' = "nothing"

(* A line of the terminal; "quit" stands for end of file as well and       *)
(* leaves the for loop.                                                    *)
HandleStdin ==
  /\ "stdin" \in events
  /\ Goto("events", IF line = "quit" THEN "defects" ELSE "events")
  /\ g_running' = (g_running /\ line # "quit")
  /\ cmd_pending' = IF line = "defect" THEN cmd_pending + 1 ELSE cmd_pending
  /\ events' = IF line = "quit" THEN {} ELSE events \ {"stdin"}
  /\ line' = "none"
  /\ UNCHANGED <<killed, sockVars, frames_processed, typed, endings>>

(* EPOLLHUP or EPOLLERR: this is where the client gives up a connection. *)
HandleHangUp ==
  /\ "hup" \in events
  /\ Goto("events", "events")
  /\ events' = events \ {"hup"}
  /\ Closed
  /\ sock_fd' = FALSE
  /\ UNCHANGED <<g_running, killed, cmdVars, envVars>>

HandleReadable ==
  /\ "in" \in events
  /\ Goto("events", "read")
  /\ events' = events \ {"in"}
  /\ UNCHANGED <<g_running, killed, sockVars, cmdVars, envVars>>

(* Mutant: handle_response() reads once, as handle_ai_result() does. *)
ReadDataOnce ==
  /\ inbox > 0
  /\ Goto("read", "events")
  /\ inbox' = 0
  /\ UNCHANGED <<g_running, killed, sock_fd, open, conn, asked, edge, greeted, events, cmdVars, envVars>>

(* handle_response() reads until there is nothing. *)
ReadData ==
  /\ inbox > 0
  /\ Goto("read", "read")
  /\ inbox' = 0
  /\ UNCHANGED <<g_running, killed, sock_fd, open, conn, asked, edge, greeted, events, cmdVars, envVars>>

ReadNothing ==
  /\ inbox = 0 /\ conn = "up"
  /\ Goto("read", "events")
  /\ UNCHANGED <<g_running, killed, sockVars, events, cmdVars, envVars>>

(* End of file, or an error: handle_response() closes the descriptor, of   *)
(* which main() keeps the number.                                          *)
ReadEnd ==
  /\ inbox = 0 /\ conn \in Ended
  /\ Goto("read", "events")
  /\ Closed
  /\ UNCHANGED <<g_running, killed, sock_fd, events, cmdVars, envVars>>

HandledAll ==
  /\ events = {}
  /\ Goto("events", "defects")
  /\ UNCHANGED <<g_running, killed, sockVars, events, cmdVars, envVars>>

(* Mutant: the command stays on the list. *)
SendDefectKept ==
  /\ cmd_pending > 0 /\ sock_fd
  /\ Goto("defects", "defects")
  /\ Write("defect")
  /\ frames_processed' = frames_processed + 1
  /\ UNCHANGED <<g_running, events, cmd_pending, envVars>>

SendDefect ==
  /\ cmd_pending > 0 /\ sock_fd
  /\ Goto("defects", "defects")
  /\ Write("defect")
  /\ frames_processed' = frames_processed + 1
  /\ cmd_pending' = cmd_pending - 1
  /\ UNCHANGED <<g_running, events, envVars>>

SentDefects ==
  /\ cmd_pending = 0 \/ ~sock_fd
  /\ Goto("defects", "loop")
  /\ UNCHANGED <<g_running, killed, sockVars, events, cmdVars, envVars>>

Leave ==
  /\ Goto("leave", "done")
  /\ Closed
  /\ UNCHANGED <<g_running, killed, sock_fd, events, cmdVars, envVars>>

-----------------------------------------------------------------------------
(* The user, the server, signals. *)

Type(l) ==
  /\ ~Stopped
  /\ line = "none" /\ typed < MaxLines
  /\ line' = l
  /\ typed' = typed + 1
  /\ UNCHANGED <<g_running, at, killed, sockVars, events, cmdVars, endings>>

(* SIGINT or SIGTERM; epoll_wait() is interrupted. *)
Signal ==
  /\ ~Stopped
  /\ g_running
  /\ g_running' = FALSE
  /\ at' = IF at = "wait" THEN "loop" ELSE at
  /\ UNCHANGED <<killed, sockVars, events, cmdVars, envVars>>

Answer ==
  /\ ~Stopped
  /\ conn = "up" /\ asked > 0
  /\ asked' = asked - 1
  /\ inbox' = inbox + 1
  /\ edge' = TRUE
  /\ UNCHANGED <<g_running, at, killed, sock_fd, open, conn, greeted, events, cmdVars, envVars>>

Ending(state) ==
  /\ ~Stopped
  /\ conn' = state
  /\ edge' = TRUE
  /\ UNCHANGED <<g_running, at, killed, sock_fd, open, asked, inbox, greeted, events, cmdVars, line, typed>>

ServerCloses == conn = "up" /\ endings < MaxEndings /\ Ending("fin") /\ endings' = endings + 1
ServerResets == conn = "up" /\ endings < MaxEndings /\ Ending("reset") /\ endings' = endings + 1

(* The answer to a write after end of file. *)
ResetAfterWrite == conn = "dead" /\ Ending("broken") /\ UNCHANGED endings

Client ==
  \/ Loop \/ ConnectFailed \/ Connected
  \/ SendStartup \/ SendHeartbeat \/ NoHeartbeat
  \/ Wait \/ HandleStdin \/ HandleHangUp \/ HandleReadable \/ HandledAll
  \/ ReadData \/ ReadNothing \/ ReadEnd
  \/ SendDefect \/ SentDefects \/ Leave

Environment ==
  \/ \E l \in Lines : Type(l)
  \/ Signal
  \/ Answer
  \/ ServerCloses \/ ServerResets \/ ResetAfterWrite

Next == Client \/ Environment

Spec == Init /\ [][Next]_vars

(* The process runs, the network answers a stray packet, and a client that *)
(* keeps trying connects in the end.                                       *)
FairSpec ==
  /\ Spec
  /\ WF_vars(Client)
  /\ WF_vars(ResetAfterWrite)
  /\ SF_vars(Connected)

-----------------------------------------------------------------------------
(* Properties *)

TypeOK ==
  /\ {g_running, killed, sock_fd, open, edge} \subseteq BOOLEAN
  /\ at \in {"loop", "connect", "startup", "heartbeat", "wait", "events", "read",
             "defects", "leave", "done"}
  /\ conn \in {"none", "up"} \cup Ended
  /\ open <=> conn # "none"
  /\ asked \in Nat /\ inbox \in Nat /\ asked + inbox <= MaxAnswers
  /\ events \subseteq {"stdin", "in", "hup"}
  /\ line \in Lines \cup {"none"}
  /\ cmd_pending + frames_processed \in 0 .. MaxLines

(* Edge-triggered epoll reports a change once.  When the client goes to    *)
(* wait, nothing is unread and no ending unseen unless an edge says so, and*)
(* an event that is about to be handled still concerns the connection it   *)
(* was reported for: no handler of the same batch closed it before.        *)
EventsExact ==
  /\ at = "wait" /\ (inbox > 0 \/ conn \in Ended) => edge
  /\ events \cap {"in", "hup"} # {} \/ at = "read" => open

(* A server sees the startup event before anything else on a connection.   *)
StartupFirst == greeted \in {"nothing", "startup"}

(* A defect command is taken off the list sooner or later, also when it    *)
(* was given while there was no connection.                                *)
CommandsServed == cmd_pending > 0 ~> (cmd_pending = 0 \/ Stopped)

(* "q", end of file or a signal ends the client.                           *)
QuitQuits == ~g_running ~> Stopped

(* tcp_client.c:4 and README.md:62 promise automatic reconnection.         *)
AutoReconnect == conn \in Ended ~> (conn = "up" \/ ~g_running \/ killed)

=============================================================================
