------------------------------- MODULE Gateway -------------------------------
(***************************************************************************)
(* The process of gateway/src/gateway_app.cpp: the capture thread fills    *)
(* the ring buffer, the network thread sends what is in it and serves the  *)
(* alarm, the main thread talks to the MES and to stdin.  SIGINT and       *)
(* SIGTERM run sig_handler() on top of whatever thread they interrupt.     *)
(*                                                                         *)
(* at[t] is where thread t is in its function; while it is inside a method *)
(* of the ring buffer, pc[t] of RingBuffer says where.  The kernel, the    *)
(* camera and the peers are choices: a connect succeeds or not, a grab     *)
(* returns a frame, nothing or an error, a send returns (after as many     *)
(* EAGAIN as it takes), fails, or raises SIGPIPE, which nobody handles.    *)
(***************************************************************************)
EXTENDS Integers, Sequences

CONSTANTS
  cap, net, main,  \* the capture, network and main thread
  SIGINT, SIGTERM, \* runs of the handler that may go on at once, by their signal
  Frames,          \* the contents of frames
  RING_BUF_COUNT,  \* slots of the ring buffer
  MaxFrames,       \* bound: frames the camera delivers
  MaxInputs,       \* bound: defect commands on stdin and signals delivered
  NoOwner, NoFrame,
  Nobody           \* what a handler that does not run is on top of

Threads == {cap, net, main}
Signals == SIGINT \cup SIGTERM

ASSUME ThreadAssumption ==
  /\ cap # net /\ cap # main /\ net # main
  /\ Threads \cap Signals = {} /\ SIGINT \cap SIGTERM = {}
  /\ Nobody \notin Threads \cup Signals

(* What RingBuffer assumes, and that the bounds are numbers. *)
ASSUME RingAssumption ==
  /\ RING_BUF_COUNT \in Nat \ {0}
  /\ NoOwner \notin Threads \cup Signals
  /\ NoFrame \notin Frames

ASSUME BoundAssumption ==
  MaxFrames \in Nat /\ MaxInputs \in Nat

VARIABLES
  mutex_, head_, tail_, count_, closed_, buf_, data, pc, accepted, delivered,
  g_running,     \* the loops go on
  at,            \* where each thread is
  on,            \* whom each run of the handler interrupted
  signalled,     \* how many signals were delivered
  killed,        \* SIGPIPE or std::terminate ended the process
  camera,        \* the camera is open
  sock,          \* the network thread's socket is open
  taken,         \* history: frames that were sent, or that a failed send lost
  alarm,         \* relay, buzzer and red light are on
  mes_fd,        \* the main thread's socket is open
  events,        \* what epoll_wait reported and is not handled yet
  cmd_pending,   \* defect commands not reported yet
  defect_count   \* defects reported

(* capture and main close the buffer, and so does a handler. *)
Ring == INSTANCE RingBuffer WITH
  Producers <- {cap}, Consumers <- {net}, Closers <- {cap, main} \cup Signals

ringVars ==
  <<mutex_, head_, tail_, count_, closed_, buf_, data, pc, accepted, delivered>>
netVars  == <<sock, taken, alarm>>
mainVars == <<mes_fd, events, cmd_pending, defect_count>>
sigVars  == <<on, signalled>>
vars == <<ringVars, g_running, at, sigVars, killed, camera, netVars, mainVars>>

Init ==
  /\ Ring!Init
  /\ g_running = TRUE
  /\ at = [t \in Threads |-> CASE t = cap -> "open" [] t = net -> "check" [] t = main -> "boot"]
  /\ on = [s \in Signals |-> Nobody]
  /\ signalled = 0
  /\ killed = FALSE
  /\ camera = FALSE
  /\ sock = FALSE
  /\ taken = <<>>
  /\ alarm = FALSE
  /\ mes_fd = FALSE
  /\ events = {}
  /\ cmd_pending = 0
  /\ defect_count = 0

Exited == at[main] = "exited"
Stopped == Exited \/ killed
MoreInput == signalled + cmd_pending + defect_count < MaxInputs

(* x is not interrupted, and the process lives. *)
Runs(x) == ~Stopped /\ \A s \in Signals : on[s] # x

(* Thread t goes from one place to another. *)
Step(t, from, to) ==
  /\ Runs(t)
  /\ at[t] = from
  /\ at' = [at EXCEPT ![t] = to]

(* A step of a thread or a handler inside the ring buffer. *)
RingStep(x) ==
  /\ Runs(x)
  /\ Ring!MethodStep(x)
  /\ UNCHANGED <<g_running, at, sigVars, killed, camera, netVars, mainVars>>

RingSpuriousWake(t) ==
  /\ ~Stopped
  /\ Ring!SpuriousWake(t)
  /\ UNCHANGED <<g_running, at, sigVars, killed, camera, netVars, mainVars>>

-----------------------------------------------------------------------------
(* The capture thread. *)

capOthers == <<sigVars, killed, netVars, mainVars>>

CapOpened ==
  /\ Step(cap, "open", "start")
  /\ camera' = TRUE
  /\ UNCHANGED <<ringVars, g_running, capOthers>>

(* vcap_open() or vcap_start() failed: stop the gateway. *)
CapFailed ==
  /\ Step(cap, "open", "failed") \/ Step(cap, "start", "failed")
  /\ camera' = FALSE
  /\ g_running' = FALSE
  /\ Ring!CallClose(cap)
  /\ UNCHANGED capOthers

CapFailedReturn ==
  /\ pc[cap] = "true"
  /\ Step(cap, "failed", "done")
  /\ UNCHANGED <<ringVars, g_running, camera, capOthers>>

CapStarted ==
  /\ Step(cap, "start", "loop")
  /\ UNCHANGED <<ringVars, g_running, camera, capOthers>>

CapLoop ==
  /\ Step(cap, "loop", IF g_running THEN "grab" ELSE "leave")
  /\ UNCHANGED <<ringVars, g_running, camera, capOthers>>

CapGrabbed(f) ==
  /\ Step(cap, "grab", "push")
  /\ Ring!CallPush(cap, f)
  /\ UNCHANGED <<g_running, camera, capOthers>>

(* A grab that a signal interrupted or that brought no bytes is repeated;  *)
(* one that failed ends the loop, and only the loop.                       *)
CapGrabbedNothing ==
  /\ Step(cap, "grab", "loop") \/ Step(cap, "grab", "leave")
  /\ UNCHANGED <<ringVars, g_running, camera, capOthers>>

CapPushed ==
  /\ Ring!Returned(cap)
  /\ Step(cap, "push", IF pc[cap] = "true" THEN "loop" ELSE "leave")
  /\ UNCHANGED <<ringVars, g_running, camera, capOthers>>

CapLeave ==
  /\ Step(cap, "leave", "done")
  /\ camera' = FALSE
  /\ UNCHANGED <<ringVars, g_running, capOthers>>

CapStep ==
  \/ CapOpened \/ CapFailed \/ CapFailedReturn \/ CapStarted \/ CapLoop
  \/ (\E f \in Frames : CapGrabbed(f)) \/ CapGrabbedNothing \/ CapPushed
  \/ CapLeave

-----------------------------------------------------------------------------
(* The network thread.  It dials until it is connected, before the first   *)
(* frame ("check", "dial") and after a failed send ("recheck", "redial").  *)

netOthers == <<g_running, sigVars, killed, camera, mainVars>>

NetCheck ==
  /\ \/ Step(net, "check", IF g_running THEN "dial" ELSE "done")
     \/ Step(net, "recheck", IF g_running THEN "redial" ELSE "leave")
  /\ UNCHANGED <<ringVars, netVars, netOthers>>

NetConnected ==
  /\ Step(net, "dial", "loop") \/ Step(net, "redial", "ai")
  /\ sock' = TRUE
  /\ UNCHANGED <<ringVars, taken, alarm, netOthers>>

NetRefused ==
  /\ Step(net, "dial", "check") \/ Step(net, "redial", "recheck")
  /\ UNCHANGED <<ringVars, netVars, netOthers>>

NetLoop ==
  /\ \/ g_running /\ Step(net, "loop", "pop") /\ Ring!CallPop(net)
     \/ ~g_running /\ Step(net, "loop", "leave") /\ UNCHANGED ringVars
  /\ UNCHANGED <<netVars, netOthers>>

NetPopped ==
  /\ Ring!Returned(net)
  /\ Step(net, "pop", IF pc[net] = "true" THEN "send" ELSE "leave")
  /\ UNCHANGED <<ringVars, netVars, netOthers>>

(* Mutant: a frame is started over when the socket was full. *)
NetSentTwice ==
  /\ Step(net, "send", "send") \/ Step(net, "send", "ai")
  /\ Len(taken) < MaxFrames + 1
  /\ taken' = Append(taken, data[net])
  /\ UNCHANGED <<ringVars, sock, alarm, netOthers>>

NetSent ==
  /\ Step(net, "send", "ai")
  /\ taken' = Append(taken, data[net])
  /\ UNCHANGED <<ringVars, sock, alarm, netOthers>>

(* Mutants: the broken socket is not closed; the thread gives up. *)
NetSendFailedOpen ==
  /\ Step(net, "send", "recheck")
  /\ taken' = Append(taken, data[net])
  /\ UNCHANGED <<ringVars, sock, alarm, netOthers>>

NetSendFailedForGood ==
  /\ Step(net, "send", "leave")
  /\ taken' = Append(taken, data[net])
  /\ sock' = FALSE
  /\ UNCHANGED <<ringVars, alarm, netOthers>>

NetSendFailed ==
  /\ Step(net, "send", "recheck")
  /\ taken' = Append(taken, data[net])
  /\ sock' = FALSE
  /\ UNCHANGED <<ringVars, alarm, netOthers>>

(* handle_ai_result(): one read; each defect in it sounds the alarm. *)
NetAlarmOn ==
  /\ Step(net, "ai", "alarm")
  /\ alarm' = TRUE
  /\ UNCHANGED <<ringVars, sock, taken, netOthers>>

NetAlarmOff ==
  /\ Step(net, "alarm", "ai")
  /\ alarm' = FALSE
  /\ UNCHANGED <<ringVars, sock, taken, netOthers>>

NetReadEnd ==
  /\ Step(net, "ai", "loop")
  /\ UNCHANGED <<ringVars, netVars, netOthers>>

NetLeave ==
  /\ Step(net, "leave", "done")
  /\ sock' = FALSE
  /\ UNCHANGED <<ringVars, taken, alarm, netOthers>>

NetStep ==
  \/ NetCheck \/ NetConnected \/ NetRefused \/ NetLoop \/ NetPopped
  \/ NetAlarmOn \/ NetAlarmOff \/ NetReadEnd \/ NetLeave

-----------------------------------------------------------------------------
(* The main thread. *)

mainOthers == <<sigVars, camera, netVars>>

(* connect_server(), before the loop ("boot") and in it ("redial"); a new  *)
(* connection is greeted with the startup event.                           *)
MainConnected ==
  /\ Step(main, "boot", "greet_boot") \/ Step(main, "redial", "greet")
  /\ mes_fd' = TRUE
  /\ UNCHANGED <<ringVars, g_running, killed, events, cmd_pending, defect_count, mainOthers>>

MainRefused ==
  /\ Step(main, "boot", "loop") \/ Step(main, "redial", "heartbeat")
  /\ UNCHANGED <<ringVars, g_running, killed, mainVars, mainOthers>>

(* epoll_create1() failed: main returns while the threads are joinable,    *)
(* and their destructors call std::terminate.                              *)
MainTerminated ==
  /\ Runs(main)
  /\ at[main] = "boot"
  /\ killed' = TRUE
  /\ UNCHANGED <<ringVars, g_running, at, mainVars, mainOthers>>

MainLoop ==
  /\ Step(main, "loop", IF ~g_running THEN "leave" ELSE IF mes_fd THEN "heartbeat" ELSE "redial")
  /\ UNCHANGED <<ringVars, g_running, killed, mainVars, mainOthers>>

(* The heartbeat may be due. *)
MainHeartbeat ==
  /\ Step(main, "heartbeat", "wait") \/ (mes_fd /\ Step(main, "heartbeat", "beat"))
  /\ UNCHANGED <<ringVars, g_running, killed, mainVars, mainOthers>>

(* epoll_wait() reports any of its descriptors or none, is interrupted, or *)
(* fails.                                                                  *)
MainWait ==
  /\ \/ /\ Step(main, "wait", "events")
        /\ events' \in SUBSET (IF mes_fd THEN {"stdin", "mes"} ELSE {"stdin"})
     \/ (Step(main, "wait", "loop") \/ Step(main, "wait", "leave")) /\ UNCHANGED events
  /\ UNCHANGED <<ringVars, g_running, killed, mes_fd, cmd_pending, defect_count, mainOthers>>

(* A line of stdin: a defect command, or one without effect. *)
MainCommand ==
  /\ "stdin" \in events
  /\ Step(main, "events", "events")
  /\ events' = events \ {"stdin"}
  /\ \/ MoreInput /\ cmd_pending' = cmd_pending + 1
     \/ UNCHANGED cmd_pending
  /\ UNCHANGED <<ringVars, g_running, killed, mes_fd, defect_count, mainOthers>>

(* "q" or the end of stdin: the remaining events are skipped. *)
MainQuit ==
  /\ "stdin" \in events
  /\ Step(main, "events", "defects")
  /\ events' = {}
  /\ g_running' = FALSE
  /\ UNCHANGED <<ringVars, killed, mes_fd, cmd_pending, defect_count, mainOthers>>

(* The MES socket was hung up: the next round dials. *)
MainHangup ==
  /\ "mes" \in events
  /\ Step(main, "events", "events")
  /\ events' = events \ {"mes"}
  /\ mes_fd' = FALSE
  /\ UNCHANGED <<ringVars, g_running, killed, cmd_pending, defect_count, mainOthers>>

(* handle_response(): the responses are read and printed; the end of the   *)
(* stream and a read error leave the socket as it is.                      *)
MainResponses ==
  /\ "mes" \in events
  /\ Step(main, "events", "events")
  /\ events' = events \ {"mes"}
  /\ UNCHANGED <<ringVars, g_running, killed, mes_fd, cmd_pending, defect_count, mainOthers>>

MainEventsDone ==
  /\ events = {}
  /\ Step(main, "events", "defects")
  /\ UNCHANGED <<ringVars, g_running, killed, mainVars, mainOthers>>

(* Mutant: >= for >. *)
MainDefectsOneMore ==
  /\ Step(main, "defects", IF cmd_pending >= 0 /\ mes_fd THEN "defect" ELSE "loop")
  /\ UNCHANGED <<ringVars, g_running, killed, mainVars, mainOthers>>

MainDefects ==
  /\ Step(main, "defects", IF cmd_pending > 0 /\ mes_fd THEN "defect" ELSE "loop")
  /\ UNCHANGED <<ringVars, g_running, killed, mainVars, mainOthers>>

(* send_all() returned; whether it succeeded is ignored. *)
AfterSend ==
  [greet_boot |-> "loop", greet |-> "heartbeat", beat |-> "wait", defect |-> "defects"]

MainSent ==
  /\ \E place \in DOMAIN AfterSend : Step(main, place, AfterSend[place])
  /\ IF at[main] = "defect"
       THEN defect_count' = defect_count + 1 /\ cmd_pending' = cmd_pending - 1
       ELSE UNCHANGED <<defect_count, cmd_pending>>
  /\ UNCHANGED <<ringVars, g_running, killed, mes_fd, events, mainOthers>>

(* Mutant: the buffer is not closed. *)
MainLeaveOpen ==
  /\ Step(main, "leave", "join")
  /\ g_running' = FALSE
  /\ mes_fd' = FALSE
  /\ UNCHANGED <<ringVars, killed, events, cmd_pending, defect_count, mainOthers>>

MainLeave ==
  /\ Step(main, "leave", "closing")
  /\ g_running' = FALSE
  /\ Ring!CallClose(main)
  /\ UNCHANGED <<killed, mainVars, mainOthers>>

MainClosed ==
  /\ pc[main] = "true"
  /\ Step(main, "closing", "join")
  /\ mes_fd' = FALSE
  /\ UNCHANGED <<ringVars, g_running, killed, events, cmd_pending, defect_count, mainOthers>>

(* Mutant: only the capture thread is joined. *)
MainJoinedEarly ==
  /\ at[cap] = "done"
  /\ Step(main, "join", "exited")
  /\ UNCHANGED <<ringVars, g_running, killed, mainVars, mainOthers>>

MainJoined ==
  /\ at[cap] = "done" /\ at[net] = "done"
  /\ Step(main, "join", "exited")
  /\ UNCHANGED <<ringVars, g_running, killed, mainVars, mainOthers>>

MainStep ==
  \/ MainConnected \/ MainRefused \/ MainTerminated \/ MainLoop \/ MainHeartbeat
  \/ MainWait \/ MainCommand \/ MainQuit \/ MainHangup \/ MainResponses
  \/ MainEventsDone \/ MainDefects \/ MainLeave \/ MainClosed \/ MainJoined

(* A write to a connection that the peer has reset after closing it raises *)
(* SIGPIPE; its default action ends the process.                           *)
SigPipe ==
  /\ \/ Runs(net) /\ at[net] = "send"
     \/ Runs(main) /\ at[main] \in DOMAIN AfterSend
  /\ killed' = TRUE
  /\ UNCHANGED <<ringVars, g_running, at, sigVars, camera, netVars, mainVars>>

-----------------------------------------------------------------------------
(* Signals.  A run s of the handler interrupts a thread, or another run.   *)
(* The thread below blocks the signal until its handler returns, so that   *)
(* at most two are on top of one thread; another thread takes it at once.  *)

Below(x) == {on[x]} \cup (IF on[x] \in Signals THEN {on[on[x]]} ELSE {})
Blocked(s, x) ==
  x \in Signals /\ \E t \in Signals \cap ({x} \cup Below(x)) : t \in SIGINT <=> s \in SIGINT

Active(x) == IF x \in Threads THEN at[x] # "done" ELSE on[x] # Nobody

Deliver(s, x) ==
  /\ on[s] = Nobody
  /\ MoreInput
  /\ x # s /\ Active(x) /\ Runs(x) /\ ~Blocked(s, x)
  /\ on' = [on EXCEPT ![s] = x]
  /\ signalled' = signalled + 1
  /\ g_running' = FALSE
  /\ Ring!CallClose(s)
  /\ UNCHANGED <<at, killed, camera, netVars, mainVars>>

HandlerReturn(s) ==
  /\ on[s] # Nobody /\ Runs(s)
  /\ Ring!Returned(s)
  /\ on' = [on EXCEPT ![s] = Nobody]
  /\ UNCHANGED <<ringVars, g_running, at, signalled, killed, camera, netVars, mainVars>>

-----------------------------------------------------------------------------
NetSend  == NetSent \/ NetSendFailed

Next ==
  \/ CapStep \/ NetStep \/ NetSend \/ MainStep \/ MainSent
  \/ SigPipe
  \/ \E x \in Ring!Callers : RingStep(x)
  \/ \E t \in Threads : RingSpuriousWake(t)
  \/ \E s \in Signals : HandlerReturn(s) \/ \E x \in Threads \cup Signals : Deliver(s, x)

Spec == Init /\ [][Next]_vars

(* The scheduler runs every thread and handler that is not interrupted or  *)
(* blocked, and what a thread asks of the kernel comes: connect() succeeds *)
(* or fails, sleep() and epoll_wait() end, the camera delivers, and a read *)
(* ends after finitely many results.  Main and the handlers, which close   *)
(* the buffer, get the mutex if it is free again and again.  The main      *)
(* thread's small sends fit into the socket buffer.                        *)
ThreadFairness ==
  /\ WF_vars(CapStep \/ RingStep(cap))
  /\ WF_vars(NetStep \/ RingStep(net))
  /\ SF_vars(MainStep \/ MainSent \/ RingStep(main))
  /\ \A s \in Signals : SF_vars(HandlerReturn(s) \/ RingStep(s))
  /\ SF_vars(NetReadEnd)

(* The peer takes the frames that are sent, or the connection breaks: a    *)
(* send ends.  fs_send_all() itself retries EAGAIN without a limit, so     *)
(* without NetSend here a peer that stops reading keeps the gateway from   *)
(* ending.                                                                 *)
FairSpec == Spec /\ ThreadFairness /\ WF_vars(NetSend)

(* Every thread gets the mutex if it is free again and again. *)
LockFairSpec ==
  /\ FairSpec
  /\ SF_vars(CapStep \/ RingStep(cap))
  /\ SF_vars(NetStep \/ RingStep(net))

-----------------------------------------------------------------------------
(* Properties *)

Places ==
  {"open", "start", "loop", "grab", "push", "failed", "leave", "done",
   "check", "dial", "recheck", "redial", "pop", "send", "ai", "alarm",
   "boot", "greet_boot", "greet", "heartbeat", "beat", "wait", "events",
   "defects", "defect", "closing", "join", "exited"}

TypeOK ==
  /\ Ring!TypeOK
  /\ g_running \in BOOLEAN
  /\ at \in [Threads -> Places]
  /\ on \in [Signals -> Threads \cup Signals \cup {Nobody}]
  /\ signalled \in 0 .. MaxInputs
  /\ {killed, camera, sock, alarm, mes_fd} \subseteq BOOLEAN
  /\ taken \in Seq(Frames)
  /\ events \subseteq {"stdin", "mes"}
  /\ cmd_pending \in 0 .. MaxInputs
  /\ defect_count \in 0 .. MaxInputs

(* A handler waits for the mutex while whoever holds it is underneath it:  *)
(* sig_handler() calls close() in a signal context.                        *)
HandlerStuck == \E s \in Signals : pc[s] = "close_lock" /\ mutex_ \in Below(s)

(* Whichever way the gateway is left, normal exit leaves nothing behind:   *)
(* both threads have ended, camera and sockets are closed, the alarm is    *)
(* off, the buffer is closed and unlocked, no handler is half way.         *)
CleanExit ==
  Exited =>
    /\ at[cap] = "done" /\ at[net] = "done"
    /\ ~camera /\ ~sock /\ ~mes_fd /\ ~alarm
    /\ closed_ /\ mutex_ = NoOwner
    /\ \A s \in Signals : on[s] = Nobody

(* The network thread works on one socket at a time and only while it has  *)
(* one: it never sends or reads without a connection, nor dials on top of  *)
(* one.                                                                    *)
SocketDiscipline ==
  /\ at[net] \in {"loop", "pop", "send", "ai", "alarm"} => sock
  /\ at[net] \in {"check", "dial", "recheck", "redial", "done"} => ~sock
  /\ at[main] \in DOMAIN AfterSend => mes_fd

(* Nothing is sent twice, out of order or invented: the frames sent and    *)
(* lost are together those taken from the buffer, except the one in hand.  *)
FramesAccounted ==
  /\ \A i \in 1 .. Len(taken) : i <= Len(delivered) => taken[i] = delivered[i]
  /\ Len(taken) <= Len(delivered)
  /\ Len(delivered) <= Len(taken) + 1
  /\ Len(delivered) = Len(taken) + 1 <=>
       at[net] = "send" \/ (at[net] = "pop" /\ pc[net] \in {"unlock_true", "true"})

(* Once the gateway is told to stop, by a command, the end of stdin, a     *)
(* camera that does not start or a signal, the process ends: no thread     *)
(* stays asleep in the full or empty buffer, in its dialling or in an      *)
(* alarm, and main is not stuck in join().  The one way to miss it is a    *)
(* handler that interrupted the holder of the mutex.                       *)
ShutdownCompletes == ~g_running ~> Stopped \/ HandlerStuck

(* No frame that was put into the buffer stays there: as long as the       *)
(* gateway runs, either there is again and again nothing left, or one      *)
(* frame after the other is sent or lost to a broken connection.  The      *)
(* network thread must get the mutex in the end and not dial for ever.     *)
Served ==
  /\ SF_vars(NetStep \/ RingStep(net))
  /\ []<>(at[net] \notin {"check", "dial", "recheck", "redial"})
Backlog == Len(taken) < Len(accepted) /\ g_running /\ ~killed
FramesFlow == Served => []<>~Backlog \/ []<><<NetSend>>_vars

(* ring_buffer.h:53 says that close() wakes all waiting threads: after a   *)
(* call to close() nobody goes on waiting in the buffer.                   *)
Waiting == \E t \in Threads : pc[t] \in {"push_wait", "pop_wait"}
CloseWakesEverybody ==
  (\E x \in Ring!Callers : pc[x] = "close_lock") ~> (~Waiting \/ Stopped)

=============================================================================
