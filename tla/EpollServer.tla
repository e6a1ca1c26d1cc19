----------------------------- MODULE EpollServer -----------------------------
(***************************************************************************)
(* The two servers written in C: tcp_server.c, which plays the MES, and    *)
(* frame_receiver.c, which plays the PC.  They share one construction: a   *)
(* single thread, a non-blocking listening socket and its clients under    *)
(* edge-triggered epoll, and a table g_clients[] indexed by descriptor     *)
(* that holds the TLV reader of each client.  They differ in what they do  *)
(* with a packet; of that, only whether they write an answer matters here. *)
(*                                                                         *)
(* A request arrives in two parts, the first of them at most its header,   *)
(* which the reader keeps in the table (requests that are cut later are    *)
(* the subject of TlvReader).  The frame that frame_receiver.c assembles   *)
(* is kept and reset with the reader; what is in it, FrameTransfer models. *)
(*                                                                         *)
(* Clients and network are choices.  A client may send, close or reset     *)
(* before it is accepted.  A write to a connection that its client closed  *)
(* is accepted and answered with a reset; a write to one that was reset    *)
(* fails once and raises SIGPIPE the next time, at once when end of file   *)
(* came first.  Neither program handles SIGPIPE.                           *)
(***************************************************************************)
EXTENDS Integers, Sequences, FiniteSets, SequencesExt

CONSTANTS
  Clients,      \* connections, each opened at most once
  MAX_CLIENTS,  \* descriptors below this number have a place in the table
  MAX_EVENTS,   \* events epoll_wait() reports at most
  Answers,      \* whether requests may be answered
  MaxParts,     \* bound: parts of requests sent on a connection
  None          \* what a free descriptor refers to

ASSUME TableAssumption == MAX_CLIENTS \in Nat \ {0} /\ MAX_EVENTS \in Nat \ {0}
ASSUME AnswersAssumption == Answers \subseteq BOOLEAN /\ Answers # {}
ASSUME BoundAssumption == MaxParts \in Nat
ASSUME NoneAssumption == None \notin Clients

(* Descriptors are numbered from 1, the listening socket counts as 0.  One *)
(* number beyond the table is enough: it is closed at once.                *)
Fds == 1 .. MAX_CLIENTS
listen_fd == 0

VARIABLES
  g_running, killed,  \* killed: SIGPIPE ended the process
  at,                 \* where the thread is
  events,             \* what epoll_wait() reported and is not handled yet
  ready,              \* epoll's list of edges, oldest first
  backlog,            \* connections that wait for accept()
  failed,             \* the last accept loop ended on an error
  file,               \* the connection behind each open descriptor
  slot,               \* g_clients[fd].fd is fd and not -1
  reader,             \* g_clients[fd].reader: the part of a request it holds
  place,              \* where each connection is
  peer,               \* what its client and the network did to it
  arrived, got,       \* parts that arrived, parts that were read
  handled             \* requests that were taken from the stream intact

tableVars == <<file, slot, reader>>
dataVars == <<arrived, got, handled>>
netVars == <<place, peer, backlog, failed, ready>>
vars == <<g_running, killed, at, events, tableVars, netVars, dataVars>>

Init ==
  /\ g_running = TRUE /\ killed = FALSE
  /\ at = <<"loop">> /\ events = <<>>
  /\ ready = <<>> /\ backlog = <<>> /\ failed = FALSE
  /\ file = [fd \in Fds |-> None]
  /\ slot = [fd \in Fds |-> FALSE]
  /\ reader = [fd \in Fds |-> <<>>]
  /\ place = [c \in Clients |-> "new"]
  /\ peer = [c \in Clients |-> "up"]
  /\ arrived = [c \in Clients |-> 0]
  /\ got = [c \in Clients |-> 0]
  /\ handled = [c \in Clients |-> 0]

Stopped == at = <<"done">> \/ killed

Goto(from, to) ==
  /\ ~killed
  /\ at = from
  /\ at' = to

-----------------------------------------------------------------------------
(* epoll *)

(* An edge on a descriptor that is listed already changes nothing. *)
WithEdge(list, fd) == IF Contains(list, fd) THEN list ELSE Append(list, fd)

FdOf(c) == CHOOSE fd \in Fds : file[fd] = c

Edge(c) == ready' = IF place[c] = "open" THEN WithEdge(ready, FdOf(c)) ELSE ready

Readable(c) == got[c] < arrived[c] \/ peer[c] # "up"

Pending(fd) == IF fd = listen_fd THEN backlog # <<>> ELSE Readable(file[fd])

(* The elements of s that are in S, in their order.  (SelectSeq, as a      *)
(* recursive function that can be reasoned about.)                         *)
Keep(s, S) ==
  LET kept[i \in 0 .. Len(s)] ==
        IF i = 0 THEN <<>>
        ELSE IF s[i] \in S THEN Append(kept[i - 1], s[i]) ELSE kept[i - 1]
  IN  kept[Len(s)]

Listed == {ready[i] : i \in 1 .. Len(ready)}

Due == Keep(ready, {fd \in Listed : Pending(fd)})

Event(fd) == [fd |-> fd, client |-> IF fd = listen_fd THEN None ELSE file[fd]]

Loop ==
  /\ Goto(<<"loop">>, IF g_running THEN <<"wait">> ELSE <<"leave">>)
  /\ UNCHANGED <<g_running, killed, events, tableVars, netVars, dataVars>>

(* Mutant: epoll_wait() may report more events than the array holds. *)
WaitOverflowing ==
  /\ Goto(<<"wait">>, <<"events">>)
  /\ events' = [i \in 1 .. Len(Due) |-> Event(Due[i])]
  /\ ready' = <<>>
  /\ UNCHANGED <<g_running, killed, tableVars, place, peer, backlog, failed, dataVars>>

(* epoll_wait() reports the listed descriptors that are still ready, the   *)
(* oldest first, or times out.                                             *)
Wait ==
  LET n == IF Len(Due) < MAX_EVENTS THEN Len(Due) ELSE MAX_EVENTS
  IN  /\ Goto(<<"wait">>, <<"events">>)
      /\ events' = [i \in 1 .. n |-> Event(Due[i])]
      /\ ready' = SubSeq(Due, n + 1, Len(Due))
      /\ UNCHANGED <<g_running, killed, tableVars, place, peer, backlog, failed, dataVars>>

Dispatch ==
  /\ events # <<>>
  /\ Goto(<<"events">>, IF Head(events).fd = listen_fd THEN <<"accept">>
                        ELSE <<"read", Head(events).fd>>)
  /\ events' = Tail(events)
  /\ UNCHANGED <<g_running, killed, tableVars, netVars, dataVars>>

HandledAll ==
  /\ events = <<>>
  /\ Goto(<<"events">>, <<"loop">>)
  /\ UNCHANGED <<g_running, killed, events, tableVars, netVars, dataVars>>

-----------------------------------------------------------------------------
(* do_accept() *)

(* The kernel gives out the lowest free number. *)
FreeFd == CHOOSE fd \in Fds : file[fd] = None /\ \A other \in 1 .. fd - 1 : file[other] # None

Accepted(c, fd) ==
  /\ place' = [place EXCEPT ![c] = "open"]
  /\ file' = [file EXCEPT ![fd] = c]
  /\ slot' = [slot EXCEPT ![fd] = TRUE]
  /\ ready' = IF Readable(c) THEN WithEdge(ready, fd) ELSE ready

(* Mutants: the reader of the place is not initialised; a descriptor      *)
(* beyond the table is not closed.                                         *)
AcceptNoInit ==
  /\ backlog # <<>>
  /\ Goto(<<"accept">>, <<"accept">>)
  /\ backlog' = Tail(backlog)
  /\ IF FreeFd < MAX_CLIENTS
     THEN Accepted(Head(backlog), FreeFd)
     ELSE /\ place' = [place EXCEPT ![Head(backlog)] = "rejected"]
          /\ UNCHANGED <<file, slot, ready>>
  /\ UNCHANGED <<g_running, killed, events, reader, peer, failed, dataVars>>

AcceptLeaking ==
  /\ backlog # <<>>
  /\ Goto(<<"accept">>, <<"accept">>)
  /\ backlog' = Tail(backlog)
  /\ IF FreeFd < MAX_CLIENTS
     THEN Accepted(Head(backlog), FreeFd) /\ reader' = [reader EXCEPT ![FreeFd] = <<>>]
     ELSE /\ place' = [place EXCEPT ![Head(backlog)] = "rejected"]
          /\ file' = [file EXCEPT ![FreeFd] = Head(backlog)]
          /\ UNCHANGED <<slot, reader, ready>>
  /\ UNCHANGED <<g_running, killed, events, peer, failed, dataVars>>

Accept ==
  /\ backlog # <<>>
  /\ Goto(<<"accept">>, <<"accept">>)
  /\ backlog' = Tail(backlog)
  /\ IF FreeFd < MAX_CLIENTS
     THEN Accepted(Head(backlog), FreeFd) /\ reader' = [reader EXCEPT ![FreeFd] = <<>>]
     ELSE /\ place' = [place EXCEPT ![Head(backlog)] = "rejected"]
          /\ UNCHANGED <<tableVars, ready>>
  /\ UNCHANGED <<g_running, killed, events, peer, failed, dataVars>>

AcceptedAll ==
  /\ backlog = <<>>
  /\ Goto(<<"accept">>, <<"events">>)
  /\ failed' = FALSE
  /\ UNCHANGED <<g_running, killed, events, tableVars, place, peer, backlog, ready, dataVars>>

(* accept() fails for another reason than EAGAIN, for want of memory, say, *)
(* and the loop ends with connections still waiting.                       *)
AcceptFails ==
  /\ backlog # <<>>
  /\ Goto(<<"accept">>, <<"events">>)
  /\ failed' = TRUE
  /\ UNCHANGED <<g_running, killed, events, tableVars, place, peer, backlog, ready, dataVars>>

-----------------------------------------------------------------------------
(* do_read() *)

(* A write() of an answer.  Its result is ignored; whether the answer fits *)
(* into the send buffer of the socket is not followed.                     *)
Write(c) ==
  /\ peer' = [peer EXCEPT ![c] = CASE @ = "fin" -> "dead" [] @ = "reset" -> "broken" [] OTHER -> @]
  /\ killed' = (peer[c] = "broken")

Part(c, i) == <<c, i>>

(* Two parts make a request if they are the two parts of one. *)
IsRequest(first, second) ==
  first[1] = second[1] /\ first[2] % 2 = 1 /\ second[2] = first[2] + 1

(* Mutant: do_read() reads once. *)
ReadPartOnce(fd) ==
  LET c == file[fd]
      part == Part(c, got[c] + 1)
  IN  /\ Goto(<<"read", fd>>, <<"events">>)
      /\ got[c] < arrived[c]
      /\ got' = [got EXCEPT ![c] = @ + 1]
      /\ reader' = [reader EXCEPT ![fd] = IF @ = <<>> THEN <<part>> ELSE <<>>]
      /\ IF reader[fd] # <<>> /\ IsRequest(reader[fd][1], part)
         THEN /\ handled' = [handled EXCEPT ![c] = @ + 1]
              /\ \E answer \in Answers :
                   IF answer THEN Write(c) ELSE UNCHANGED <<peer, killed>>
         ELSE UNCHANGED <<handled, peer, killed>>
      /\ UNCHANGED <<g_running, events, file, slot, place, backlog, failed, ready, arrived>>

ReadPart(fd) ==
  LET c == file[fd]
      part == Part(c, got[c] + 1)
  IN  /\ Goto(<<"read", fd>>, <<"read", fd>>)
      /\ got[c] < arrived[c]
      /\ got' = [got EXCEPT ![c] = @ + 1]
      /\ reader' = [reader EXCEPT ![fd] = IF @ = <<>> THEN <<part>> ELSE <<>>]
      /\ IF reader[fd] # <<>> /\ IsRequest(reader[fd][1], part)
         THEN /\ handled' = [handled EXCEPT ![c] = @ + 1]
              /\ \E answer \in Answers :
                   IF answer THEN Write(c) ELSE UNCHANGED <<peer, killed>>
         ELSE UNCHANGED <<handled, peer, killed>>
      /\ UNCHANGED <<g_running, events, file, slot, place, backlog, failed, ready, arrived>>

ReadNothing(fd) ==
  /\ Goto(<<"read", fd>>, <<"events">>)
  /\ ~Readable(file[fd])
  /\ UNCHANGED <<g_running, killed, events, tableVars, netVars, dataVars>>

(* End of file or an error, after all that had arrived.  The reader stays  *)
(* as it is.                                                               *)
ReadEnd(fd) ==
  LET c == file[fd]
  IN  /\ Goto(<<"read", fd>>, <<"events">>)
      /\ got[c] = arrived[c] /\ peer[c] # "up"
      /\ place' = [place EXCEPT ![c] = "gone"]
      /\ file' = [file EXCEPT ![fd] = None]
      /\ slot' = [slot EXCEPT ![fd] = FALSE]
      /\ ready' = Keep(ready, Listed \ {fd})
      /\ UNCHANGED <<g_running, killed, events, reader, peer, backlog, failed, dataVars>>

(* The end of main(): every descriptor that the table knows is closed. *)
Leave ==
  /\ Goto(<<"leave">>, <<"done">>)
  /\ file' = [fd \in Fds |-> IF slot[fd] THEN None ELSE file[fd]]
  /\ backlog' = <<>> /\ ready' = <<>>
  /\ place' = [c \in Clients |->
                 IF place[c] = "backlog" \/ \E fd \in Fds : slot[fd] /\ file[fd] = c
                 THEN "gone" ELSE place[c]]
  /\ UNCHANGED <<g_running, killed, events, slot, reader, peer, failed, dataVars>>

-----------------------------------------------------------------------------
(* The clients, the network, signals. *)

Connect(c) ==
  /\ ~Stopped
  /\ place[c] = "new"
  /\ place' = [place EXCEPT ![c] = "backlog"]
  /\ backlog' = Append(backlog, c)
  /\ ready' = WithEdge(ready, listen_fd)
  /\ UNCHANGED <<g_running, killed, at, events, tableVars, peer, failed, dataVars>>

Connected(c) == ~Stopped /\ place[c] \in {"backlog", "open"}

Send(c) ==
  /\ Connected(c)
  /\ peer[c] = "up" /\ arrived[c] < MaxParts
  /\ arrived' = [arrived EXCEPT ![c] = @ + 1]
  /\ Edge(c)
  /\ UNCHANGED <<g_running, killed, at, events, tableVars, place, peer, backlog, failed, got, handled>>

Ending(c, from, to) ==
  /\ Connected(c)
  /\ peer[c] = from
  /\ peer' = [peer EXCEPT ![c] = to]
  /\ Edge(c)
  /\ UNCHANGED <<g_running, killed, at, events, tableVars, place, backlog, failed, dataVars>>

Close(c) == Ending(c, "up", "fin")
Reset(c) == Ending(c, "up", "reset")
ResetAfterWrite(c) == Ending(c, "dead", "broken")

(* SIGINT or SIGTERM; epoll_wait() is interrupted. *)
Signal ==
  /\ ~Stopped
  /\ g_running
  /\ g_running' = FALSE
  /\ at' = IF at = <<"wait">> THEN <<"loop">> ELSE at
  /\ UNCHANGED <<killed, events, tableVars, netVars, dataVars>>

Server ==
  \/ Loop \/ Wait \/ Dispatch \/ HandledAll
  \/ Accept \/ AcceptedAll \/ AcceptFails
  \/ \E fd \in Fds : ReadPart(fd) \/ ReadNothing(fd) \/ ReadEnd(fd)
  \/ Leave

Environment ==
  \/ \E c \in Clients : Connect(c) \/ Send(c) \/ Close(c) \/ Reset(c) \/ ResetAfterWrite(c)
  \/ Signal

Next == Server \/ Environment

Spec == Init /\ [][Next]_vars

-----------------------------------------------------------------------------
(* Properties *)

TypeOK ==
  /\ {g_running, killed, failed} \subseteq BOOLEAN
  /\ at \in {<<p>> : p \in {"loop", "wait", "events", "accept", "leave", "done"}}
            \cup {<<"read", fd>> : fd \in Fds}
  /\ Len(events) <= MAX_EVENTS
  /\ \A i \in 1 .. Len(ready) : ready[i] \in Fds \cup {listen_fd}
  /\ IsInjective(ready) /\ IsInjective(backlog)
  /\ file \in [Fds -> Clients \cup {None}]
  /\ slot \in [Fds -> BOOLEAN]
  /\ \A fd \in Fds : Len(reader[fd]) <= 1
  /\ place \in [Clients -> {"new", "backlog", "open", "rejected", "gone"}]
  /\ peer \in [Clients -> {"up", "fin", "dead", "reset", "broken"}]
  /\ \A c \in Clients : handled[c] <= got[c] /\ got[c] <= arrived[c] /\ arrived[c] <= MaxParts

(* Edge-triggered epoll reports a change once: when the server goes to     *)
(* wait, whatever came in while it was accepting, reading or writing is    *)
(* either handled or listed.  The exception is a backlog that a failing    *)
(* accept() left behind.  A descriptor may be closed and given out again   *)
(* while a batch of events is handled; yet an event that is still to be    *)
(* handled concerns the connection it was reported for.                    *)
EventsExact ==
  /\ at = <<"wait">> =>
       /\ \A fd \in Fds : file[fd] # None /\ Readable(file[fd]) => Contains(ready, fd)
       /\ backlog # <<>> /\ ~failed => Contains(ready, listen_fd)
  /\ \A i \in 1 .. Len(events) :
       events[i].fd # listen_fd => file[events[i].fd] = events[i].client
  /\ \A fd \in Fds : at = <<"read", fd>> => file[fd] # None

(* The table and the kernel agree on which descriptors are open, none is   *)
(* lost to a client that was turned away, and at the end all are closed.   *)
NoLeak ==
  /\ \A fd \in Fds : at # <<"done">> => (slot[fd] <=> file[fd] # None)
  /\ \A c \in Clients : place[c] = "open" <=> \E fd \in Fds : file[fd] = c
  /\ at = <<"done">> => \A fd \in Fds : file[fd] = None

(* Every request that was read has been taken from the stream, also on a   *)
(* descriptor whose previous connection broke off inside a request.        *)
RequestsIntact == \A c \in Clients : handled[c] = got[c] \div 2

=============================================================================
