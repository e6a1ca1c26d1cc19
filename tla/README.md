# Verification of the edge gateway

TLA+ models, TLC runs and TLAPS proofs for the industrial edge gateway under
`src/gateway`. `src/gateway_vm_backup` holds an earlier copy of the same
program (`tcp_client.c`, `tcp_server.c`, `frame_receiver.c`, `frame_sender.c`,
`tlv_protocol.c`, `peripheral_ctrl.c` and the test programs are identical); the
models follow `src/gateway`, except for the checksum of the earlier
`ai_receiver.py`, which tells why the two versions do not understand each other.
`build/`, `build_arm/` and `frames/` are generated.

## The system

An i.MX6ULL board captures video frames, sends them over TCP to a PC that runs a
detector, and drives a relay, a buzzer and an LED when the PC reports a defect.

| Component | Source (`src/gateway/src` unless noted) | State | Operations | Module |
|---|---|---|---|---|
| Ring buffer | `ring_buffer.h` | mutex, two condition variables, `head_`, `tail_`, `count_`, `closed_`, slots | `push`, `pop`, `close`, `is_closed` (no caller) | `FrameQueue`, `RingBuffer` |
| Gateway process | `gateway_app.cpp` | `g_running`, positions of three threads, two sockets, `cmd_pending`, `defect_count` | capture, network and main loop, signal handler, shutdown | `Gateway` |
| TLV codec | `tlv_protocol.c/.h` | reader: `state`, `header`, `body_pos`, `tag`, `len` | `tlv_pack`, `tlv_reader_init`, `tlv_reader_feed`, `tlv_checksum` | `TlvReader` |
| Frame sender | `frame_sender.c` | offset in the frame | `fs_send_frame`, `fs_send_all` | `FrameTransfer`, `Gateway` |
| Frame receiver | `frame_receiver.c` | per client: reader, frame assembly | accept, read, assemble, answer | `EpollServer`, `FrameTransfer` |
| MES client | `tcp_client.c` | `sock_fd`, reader, `cmd_pending` | connect, heartbeat, defect, answer, reconnect | `TcpClient` |
| MES server | `tcp_server.c` | table of clients with a reader each | accept, read, answer, close | `EpollServer` |
| AI receiver | `ai_receiver.py` | TLV reader, frame reassembler per thread | accept, decode, detect, answer | `AiReader`, reassembler in `FrameTransfer` |
| MES messages | `mes_handler.c` | none | pack and parse JSON payloads | none |
| Video capture | `video_capture.c` | V4L2 buffer queue | open, start, grab, close | `FrameSource`, `VideoCapture`, `Board`; outcomes in `Gateway` |
| GPIO, peripheral tool | `gpio_ops.c`, `peripheral_ctrl.c` | direction and level of the pins | export, write, LED, alarm, demo | `Gpio`, `Board`; alarm in `Gateway` |
| Light sensor driver | `driver/virtual_bh1750.c` | registrations, `light_value` | probe, read, write, remove | none |

How they interact:

- The **capture thread** pushes grabbed frames into the **ring buffer**; the
  **network thread** pops them, sends each with the **frame sender** over its own
  socket, reads what the PC answers and calls `trigger_alarm()` when it says
  "defect". The two threads share nothing but the buffer and `g_running`.
- The **main thread** has a second connection (events, heartbeats) and stdin
  under epoll. It ends the program by `g_running = false`, `close()` on the
  buffer and `join()`.
- SIGINT and SIGTERM run `sig_handler()` on top of whatever thread the kernel
  picks; the handler sets `g_running` and calls `close()` as well.
- Every byte between two programs goes through the **TLV codec**. The C readers
  keep their state in a long-lived structure and the bytes of the body in a
  buffer on the stack of the call.
- The **peripheral tool** writes the same pins through sysfs as the gateway does,
  with no lock between them; the pins outlive both processes.
- **MES client**, **MES server** and **frame receiver** are programs of their
  own, single threads around an edge-triggered epoll.

What is hard in it, and where it is modelled:

- three threads and nested signal handlers around one mutex (`RingBuffer`, `Gateway`);
- shutdown from many places while others sleep, send, redial or sound the alarm (`Gateway`);
- connections that end in order, are reset, or raise SIGPIPE, at any step (`Gateway`, `TcpClient`, `EpollServer`);
- TCP cutting the stream anywhere, losses by failed checksums, reconnects in the
  middle of a frame (`TlvReader`, `FrameTransfer`);
- two programs that pack with different checksums and two readers that differ
  at the empty packet (`TlvReader`, `AiReader`);
- buffers that change hands with the driver, and every failure half way (`VideoCapture`);
- processes killed between two writes to a relay (`Gpio`, `Board`);
- edge-triggered notification, batches of events, reuse of descriptors (`TcpClient`, `EpollServer`).

What makes each component correct:

| Component | Correct when |
|---|---|
| Ring buffer | FIFO under any interleaving; nobody sleeps beside a slot or a frame; closing releases everybody, accepts nothing more and hands out what is left |
| Gateway | every decision to stop ends the process with everything closed; every frame in the buffer is sent or lost once |
| TLV codec | the reader never loses its place; what it delivers is what was packed |
| Frame transfer | a saved frame is one that was sent, damage stays local, both receivers agree |
| MES client | no edge lost; commands survive an outage; startup comes first; it reconnects; it can be quit |
| Servers | no edge lost; nothing of one connection meets another on a reused descriptor; no descriptor leaks |
| AI receiver | it returns what was packed, and packs what the C readers accept |
| Video capture | a buffer is the driver's or the program's, never both; every way out gives back what was taken; a grab brings data of one frame, and of a newer one |
| GPIO | an alarm ends with relay and buzzer off; what is left on was asked for, or is switched off by the next start |

## The modules

Each module describes in its header what it leaves out. `PROJECT.json` maps
every definition to the lines it stands for.

### FrameQueue and RingBuffer

`FrameQueue` is the promise: a closable bounded FIFO whose `Put`, `Take` and
`Close` are atomic. `RingBuffer` is `ring_buffer.h` with one action between two
points where another thread may run: `Lock`, the evaluation of the wait
predicate (`PushWait`, `PushRefuse`, `PushCopy`), the copy, the update of the
indices with `notify_one()` (`PushCommit`), `Unlock`, and likewise for `pop()`
and `close()`. `pc[c]` is the position of caller `c`; a thread sleeps in a
condition variable exactly if its position is `push_wait` or `pop_wait`.
`SpuriousWake` is the licence the standard gives to `wait()`. `QueueSpec`
instantiates `FrameQueue` with `accepted` and `delivered`, which record the
commits.

### Gateway

Composes the three threads and the handlers with an instance of `RingBuffer`
(one producer, one consumer; capture thread, main thread and each handler may
close). `at[t]` is where a thread is in its function; inside the buffer `pc[t]`
takes over. A handler is a further caller of `close()` for whose duration the
thread below it does not run (`Runs`). `SIGINT` and `SIGTERM` are the runs of the
handler that either signal can cause: a signal is blocked in the thread whose
handler it runs (`Blocked`), so that on top of one thread there are at most two,
while another thread may take the same signal at once. Frames are
opaque; connect, grab, send, stdin and the peers are choices. `killed` is the
end by SIGPIPE or by `std::terminate` (main returns while threads are joinable).

### TlvReader and AiReader

`tlv_pack()` on one end, `tlv_reader_feed()` on the other, byte by byte (`Feed`
= `FeedHeader`, `FeedBody` or `FeedCrc`). Three programs pack and differ in the
checksum: the C programs and the earlier `ai_receiver.py` take an exclusive or,
the present one a CRC-8 (`Checksum`). `NewCall` replaces the content of the
caller's value buffer by anything, which is what a new stack frame may hold.
`Reconnect` loses what was under way and initialises the reader. `Base` is the
number of values of a byte: 256, or 4 to make the second byte of the length
matter for short values. `AiReader` extends it by the class `TLVReader` of
`ai_receiver.py`, which is fed the same bytes: it keeps the body in the object,
returns a packet whatever the checksum is, and expects a body of at least one
byte. `PyReaderExact` says what it returns of connections without an empty packet
and that it invents nothing on the others; `ReadersConsistent`, what its comment
promises of all.

### FrameTransfer

The packets of `fs_send_frame()` through a stream that may lose any of them,
into the assembly of `frame_receiver.c` and the `FrameReassembler` of
`ai_receiver.py` side by side. A byte of a frame is `<<frame, position>>`, so
that a byte in the wrong frame or place is seen. A loss is the loss of a packet: one
that is damaged and passes the checksum all the same, as a packet that straddles
two calls may (`tlv_stream`), is delivered with other content by the code and has no
counterpart here.

### TcpClient

`tcp_client.c`: `at` is the position in `main()` and `handle_response()`. The
kernel's view of the connection (`conn`) distinguishes end of file, end of file
after which something was written, reset, and reset with the error already
reported, because `write()` behaves differently in each. `sock_fd` is what
`main()` believes, `open` what is true. The terminal hands out one line per
read; answers are counted; right after connecting no heartbeat is due.

### EpollServer

`tcp_server.c` and `frame_receiver.c`, which share their event loop. `ready` is
epoll's list of edges, `events` the batch being handled (each event remembers,
for the properties only, which connection it was reported for), `file` the
kernel's descriptor table with lowest-number allocation, `slot` and `reader` the
table `g_clients[]`. The descriptor equal to `MAX_CLIENTS` stands for all that
have no place in the table. `AcceptFails` is the `perror("accept"); break;` path.
A request comes in two parts (`Part`), and the table keeps the first.

### VideoCapture and FrameSource

`FrameSource` is what the capture thread needs of a camera: what one grab hands out
is data of a single frame, made while the stream was on, and of a later one than
the grab before. `video_capture.h` itself promises a frame and its size only.
Every grab is a step of `FrameSource` (`grabs` counts them), so that handing out
the same frame twice is an error and no stutter, and `frame` tells for each part of
the data which frame it is of, so that a mixture is one too.

`VideoCapture` is `video_capture.c` in the order of the capture thread's calls, `at`
the position: `vcap_open()` (open, negotiate, request, map, queue), `vcap_start()`,
the grab (`Dequeue`, `Copy` part by part as `memcpy()` does, `Requeue`, which also
returns) and `vcap_close()`; each call to the kernel may fail. The driver reports
how much it left in a buffer: nothing (the grab returns 0, which the caller takes
for a signal), a part, all, or more than `VCAP_FRAME_SIZE`, of which the rest is cut.
The code does not look at `V4L2_BUF_FLAG_ERROR`: data that the driver calls damaged
is handed out like any other. The driver is external: `Fill` puts a newer frame into
the oldest queued buffer, `Drop` loses one. `VIDIOC_REQBUFS` may grant any number up
to `MaxGranted`; the code indexes arrays of `VCAP_BUF_COUNT` with it, and when the
driver grants more the model goes to `overrun` and says nothing further.

### Gpio and Board

Each function of `gpio_ops.c` and `peripheral_ctrl.c` is the sequence of file
writes it makes, each write a step (`todo` is what is left of it). What the
kernel does is external: writing "out" to a direction drives the pin low, a value
written to an input or to a pin that is not exported is refused. So every start
of either program, which sets all directions, switches everything off, a running
alarm of the other program included. Writes to exported pins succeed;
`gpio_read()` is left out. `Board` composes camera and pins over several lives of
the gateway: `EndProcess` is the end of a process anywhere, after which the
kernel has taken back the camera and left the pins as they are.

## The runs

| Run | Instance | Question |
|---|---|---|
| `ring_buffer` | 2 producers, 1 consumer, 1 closer, 2 slots, 4 frames of 2 values | FIFO, lost wake-ups, refusals, closing, refinement of `FrameQueue`, everybody returns after `close()` |
| `gateway` | 1 slot, 2 frames, 1 input: a signal or a defect command | every decision to stop ends the process; exit leaves nothing behind; sockets; frames are not sent twice and flow while the gateway runs |
| `gateway_signal` | the same | *violated*: the handler deadlocks in `close()` |
| `tlv_readers` | 3 packets of 0, 1 or 4 bytes of two bits, packed by C or the earlier `ai_receiver.py` | the C reader keeps its place, verdicts fit, what is refused was damaged; what the Python reader returns |
| `tlv_stream` | 2 packets | *violated*: a call boundary in a body destroys the packet |
| `ai_reader` | 2 packets, one may be empty | *violated*: the Python reader swallows what the C reader delivers |
| `ai_checksum` | 1 packet of bytes of eight bits from `ai_receiver.py` | *violated*: the C reader refuses it |
| `frame_transfer` | 3 frames of 1, 3 or 4 bytes in chunks of 2, 3 losses, reconnects | what losses cost, order of capture, two receivers agree |
| `tcp_client` | 3 lines, 2 endings, 2 answers | edges, stale events, order, commands, quitting |
| `tcp_client_reconnect` | the same | *violated*: no reconnection after an orderly close |
| `epoll_server` | 3 clients, 2 places, batches of 2, 2 parts of a request each | edges, stale events, reused descriptors, leaks, requests in parts |
| `board` | arrays of 2, up to 3 buffers granted, 3 frames of 2 parts, sizes 0, 1 and 3, 1 tool with three commands | buffers, frames, camera after a crash; what an alarm, a start and a kill leave on the pins |

`EventsExact` of `TcpClient` and `EpollServer` says both that no edge is lost and
that no event is handled for a connection it was not reported for.

Why the bounds are enough to be of interest: two slots and four frames make both
indices wrap and the buffer be full, empty and full again; two producers let one
`notify_one()` be taken away by the other thread. `push()` and `pop()` are mirror
images, so two threads on one side show what two on the other would (and the
safety properties are proved for any number). In the gateway, two frames for one
slot put the capture thread to sleep in a full buffer while the network thread
dials, sends or sounds the alarm, and the decision to stop may come at any moment
of it; `MaxInputs` is one, so that a signal, or a defect command that is still
pending when the gateway stops, fits beside three threads and two sockets. The
buffer itself has its own run, and both inputs together, and handlers nested in any
number and order, are covered by `GatewayProofs` for everything but liveness.
Values of 0, 1 and 4 bytes with bytes of two bits exercise the
empty packet, the switch to the checksum after one byte and after more, a length
that needs the second byte of the header, and damage to one or more bytes.
Three packets are what it takes to see a packet after a reconnect after an empty
one. Frames of 1, 3 and 4 bytes in chunks of 2 give a single short packet, a
last short one and a full last one, and three frames are what it takes for bytes
of one to complete another and for the damage to end. Two endings let a client
reconnect and lose the second connection as well. Three clients for two places
give rejection, reuse of a descriptor and two open clients in one batch, and
three ready descriptors overfill a batch of two. On the board, grants of 1, 2
and 3 buffers are fewer than, as many as and more than the arrays hold; three
frames fill both buffers and overwrite one, and two parts are what it takes to mix
two frames; the sizes are nothing, a part, and more than there is room for. The
commands are one that leaves a pin on, one that sounds the alarm, and none; the
others, and any number of tools and sizes, are covered by `BoardProofs`.

`CHECK_DEADLOCK` is off where a run may stop: programs end, frames, lines and
packets are used up.

### Fairness

- `RingBuffer!FairSpec`: a thread inside a method goes on, and a thread waiting
  for the mutex gets it if it is freed again and again (`SF` on `Lock`). Calls
  and wake-ups by themselves are not assumed.
- `Gateway!ThreadFairness`: the scheduler runs every thread and handler that is
  neither blocked nor interrupted; connect, sleep and `epoll_wait` end, the
  camera delivers, reads end. The main thread and the handlers, which close the
  buffer, also get the mutex if it is free again and again (`SF`); of the capture
  and the network thread this is not assumed. `FairSpec` adds that a send ends: the
  peer takes the frame or the connection breaks. The code does not ensure it, since
  `fs_send_all()` retries EAGAIN without a limit and without a look at
  `g_running`; without that conjunct `ShutdownCompletes` fails, with the network
  thread in its send and main in `join()`. `FramesFlow` has a premise, `Served`: the
  gateway goes on, connecting succeeds in the end and the network thread gets the
  mutex. `LockFairSpec` gives the mutex to every thread in the end; under it
  `gateway_signal` shows that waiters are not woken for no lack of fairness.
- `TcpClient!FairSpec`: the process runs, the network answers a packet to a
  closed connection, and repeated connecting succeeds in the end.

### What the violations show

1. `gateway_signal`: `sig_handler()` calls `RingBuffer::close()`, which locks a
   plain mutex. A signal that interrupts the holder waits for the thread below
   it. `ShutdownCompletes` ends in the end of the process or in this
   (`HandlerStuck`), so it is the only way in which a signal fails.
2. `tlv_stream`: the body of a packet is kept in the stack frame of the caller
   (`val_buf` in `do_read`, `val` in `handle_response` and `handle_ai_result`)
   while the reader goes on from call to call. `InSync` and `VerdictsMatch` show
   that the damage is confined to that packet's content, and `UncutIsStreamed`
   that nothing else damages it.
3. `ai_checksum`: `crc8()` of `ai_receiver.py` is a CRC-8 that starts from 0xFF;
   its comment calls it compatible with `tlv_checksum()`, which is an exclusive
   or. The gateway refuses nearly every answer of the detector, so that hardly
   any detection raises the alarm. The other way round nothing shows, because
   the Python reader does not look at the checksum (`PyReaderExact`).
4. `ai_reader`: the class `TLVReader` calls itself consistent with `tlv_reader_t`
   (`ai_receiver.py:107`). After the header of an empty packet it waits for a body
   whose length becomes 0 after a byte was added, and returns nothing any more on
   that connection, while the C reader goes on with the next packet. `tlv_pack()`
   accepts empty values; at present no program sends one to the detector. (That it
   returns packets whose checksum fails is on purpose, `ai_receiver.py:138`.)
5. `tcp_client_reconnect`: `handle_response()` closes the descriptor at end of
   file, `main()` keeps its number; epoll has forgotten it, so EPOLLHUP, the one
   place where `sock_fd` becomes -1, never comes.

Paths worth knowing that contradict no document, and are hazards in
`PROJECT.json`: SIGPIPE ends gateway, client and servers on the second write
after a reset, and when that happens during an alarm the relay stays on until
somebody starts one of the programs (`StartSilences`, `NoStrayOutput`); a tool
that is started silences the gateway's alarm, even one that only reads
(`AlarmUndisturbed` is about an alarm with nobody beside it); a camera that grants
more buffers than asked for overruns the arrays, and one that reports an empty
buffer makes the grab return what a signal does; a grab that fails ends the capture
loop but not the gateway; a failing `accept()` leaves the backlog silent until the next connection; a frame
can be put together from two when the end of one and the start of the next are
lost (`TornByTwoLosses` says that it takes both).

## The proofs

`tlapm` checks every theorem for all values of the constants that satisfy the
assumptions of the module.

| Module | Theorems | Argument |
|---|---|---|
| `RingBufferProofs` | `TypeCorrect`, `FifoOrder`, `RefusalMeansDrained`, `ClosedForGood`, `ImplementsQueue` | `IInv` of `RingBuffer` |
| | `WakeupsReachSomebody` (`NoLostWakeup`) | `WakeInv` of `RingBuffer`, by counting |
| `GatewayProofs` | `TypeCorrect`, `SocketsDisciplined`, `ExitIsClean`, `FramesInOrder`, `EndToEnd`, `GatewayUsesRing` | `IInv` of `GatewayProofs` on top of the buffer's |
| `TlvReaderProofs` | `TypeCorrect`, `ReaderInSync`, `VerdictsCorrect` | `PlaceInv` |
| | `SingleDamageSeen` (`DamageDetected`) | what a single change does to a folded exclusive or |
| | `UncutIsStreamed` | `ContentInv`, under `UncutSpec` |
| `AiReaderProofs` | `LinkImplementsReader`, `PyReaderCorrect`, `LinkInSync`, `LinkVerdicts`, `LinkDamage` | `PyPlace` on top of the C reader's |
| `FrameTransferProofs` | `TypeCorrect`, `ReceiversAgree` | `Alike` |
| | `CaptureOrder` (`SavedInOrder`) | `OrderInv` |
| | `ArrivalIsEnough` (`DeliveredIsSaved`), `OneLossCostsOneFrame` (`TornByTwoLosses`) | `LossInv` |
| `TcpClientProofs` | `TypeCorrect`, `NothingMissed` (`EventsExact`), `StartupComesFirst` | `EdgeInv`, `BatchInv`, `GreetInv` |
| `EpollServerProofs` | `NothingLeaks` (`NoLeak`), `RequestsStayIntact` | `FileInv`, `PlaceInv`, `RequestInv` |
| | `NoEdgeIsLost` (`EventsExact`), `TypeCorrect` | `ListInv`, `BatchInv`, `EdgeInv`, `StateInv` |
| `BoardProofs` | `BuffersSafe`, `GrabImplementsSource` (`FramesAreNew`), `CameraAlwaysFree`, `NoStray`, `BoardTypes` | `CamInv` for the camera, `PinInv` for the pins |
| | `StartIsSilent` (`StartSilences`), `AlarmAsItShould` (`AlarmUndisturbed`) | `AloneInv` |

**Ring buffer**, for any number of threads and slots. FIFO by itself is not
inductive: that the next `pop()` returns the right frame depends on where the
frames are. `IInv` adds `MutexInv` (whoever is in a critical section holds the
mutex, hence at most one is), `WindowInv` (the `count_` slots from `head_` hold
the accepted frames not yet delivered, and `tail_` ends them), `CopyInv` (between
copy and commit the predicate still holds and the copy is the frame committed),
`ArgumentInv` (who pushes is a producer with a frame) and `RefuseInv` (a refusal
means closed and drained, for good). Assumed: at least one slot, `NoOwner` is no
caller, `NoFrame` no frame. The refinement maps `PushCommit`, `PopCommit` and the
first `CloseSet` to `Put`, `Take` and `Close`, all else to stuttering.

That no wake-up is lost is a matter of numbers: `WakeInv` says that while a
producer sleeps, the producers on their way to the predicate or past it are at
least as many as the free slots (and consumers as the frames). A thread goes to
sleep only when there is no slot at all; `PopCommit` makes one slot and wakes one
thread; `PushCommit` uses one slot up and takes one thread off the way, and
`QuietWakeInv` covers every step that does neither. Assumed besides: finitely many
threads (`ThreadAssumption`), since the argument counts them.

**Gateway**, for any set of signals, slots and frames. The buffer is an instance
of `RingBuffer`; `RingStays` carries its invariant over, and `GatewayUsesRing`
shows that every step of the gateway is one of the buffer's specification or
leaves it alone, so that the theorems above hold in it. Around it: `PcInv` (who is
inside a method called it from the place that calls it), `HolderInv` (only a
caller in its critical section holds the mutex), `ClosedInv` (main joins after it
closed), `LocalInv` (camera and alarm are on only where their thread uses them),
`FramesInv` (which frame is in hand), `ActiveInv` and `GroundedInv`: handlers
nest in any order, and what makes the thread below them well defined is that
"is on top of" has no circle, stated as: every set of running handlers has one
that is on top of something outside of the set. `EndToEnd` joins it to the
buffer: what was sent or given up is a prefix of what the capture thread pushed.

**TLV readers**, for all tags and values and `Base` 4 or 256. `PlaceInv` says what
the reader knows of the packet in each state: the header bytes it has are those
of the packet, then `len` is its length and `p` is three plus `body_pos`. Nothing
in it is about the content of the value buffer, so `NewCall` disturbs nothing.
For the Python reader `PyPlace` says the same with the bytes of the body, unless
`EmptyNow`: then it stands in a body of length zero and nothing gets it out but a
reconnect. What it has returned is then known exactly (`ReturnedExactly`), of which
`PyReaderExact` is the part to be wished for. `LinkImplementsReader` lets the C reader's theorems hold beside it.

What the checksum sees is a statement about a fold. `Xor` adds the bits of two
bytes one by one without carry (`XorIs`), so it is injective in either argument
(`XorInjective`), associative, and zero is neutral. `Folded`, the loop over the
bytes, therefore ends in different values for two sequences that differ in one
place (`OneChange`), and folding the header and the body one after the other, as
the C reader does with its two calls, is folding the packet (`HeaderFirst`). It
follows that a packet in which exactly one byte changed is refused, and one that
is as it was packed accepted, whatever the value buffer held (`CrcDetects`).

`UncutSpec` is the reader without `NewCall`: no call of the reader ends within the
body of a packet. Under it the value buffer holds what was packed (`ContentInv`),
and the promise that `tlv_stream` refutes, `StreamingParser`, holds for all
programs with the exclusive or: the boundary of a call is the only cause of the
damage. What `crc8()` computes is in no proof; TLC evaluates it.

**Frame transfer**, for all frame lengths, chunk sizes and losses. Both
receivers return the same frames because their states stay alike (`Alike`): the
Python buffer holds the same bytes while a frame is active, and what it collects
without a start never counts. That rests on `LengthAssumption`: frames are
between 1 and `MAX_FRAME` bytes, which `gateway_app.cpp:168` and the size of the
buffers ensure. With a length of zero the two would differ. For the order,
`OrderInv` keeps the frames apart although packets carry no number: what was saved
is earlier than any start on the wire (`Earlier`), and while a frame is open
earlier than all it has and may still get (`Closed`), because a start that opens
a frame closes everything before it (`StartCloses`) and data keeps it between
(`DataStaysBetween`).

What a loss costs rests on `LossInv`. Each packet has a place, its frame and its
number in it, and `WireInv` says that the wire holds consecutive places up to
the one sent next; the first of them is the `Front`. What is `Past` the front has
arrived or never will, so the open frame is one of two things (`OpenInv`): `Whole`,
its buffer holding exactly the part of the frame that is past the front, or
`Lacking`, a part of it lost and the buffer short by at least that. A `Whole` frame
is saved as it was captured when its last packet comes (`StartedInv`), which is
`DeliveredIsSaved`. A `Lacking` one can be completed only by bytes of a later
frame, whose start must then be lost as well: that is `Torn`, all that
`SavedInv` leaves besides whole frames. `LengthAssumption` is needed here too.

**MES client**, for any number of lines, endings and answers. `EdgeInv` accounts
for everything unread or unseen: it is announced by an edge, by an event at hand,
or is being read; only a batch cut short by "quit" drops it. `BatchInv` bounds the
events of a batch, `GreetInv` ties `sock_fd`, the open descriptor and the greeting.

**Servers**, for any number of clients, places and parts. `FileInv` says that a
place is taken exactly as long as its descriptor is open and that two descriptors
never share a connection, `PlaceInv` that a connection waits or is open at one
place, `RequestInv` that the reader of an open descriptor holds a part exactly if
an odd number was read from its connection. That the kernel hands out the lowest
free number is used through `LeastIs` (a well-founded minimum).

That no edge is lost needs the two lists the kernel and the loop keep. `ListInv`
says that the ready list names a descriptor at most once, and only an open or
the listening one; `BatchInv` that every event of the batch at hand belongs to the
connection now open under its number, because a descriptor is closed only by
its own event; `EdgeInv` that whatever is unread on a connection is announced by
the ready list, by an event still to be dispatched, or is being read; and
`StateInv` which descriptors can be in which state. `EventsExact` and `TypeOK`
follow. The ready list is filtered by `Keep`, whose properties (`KeepIs`: the
elements kept, in their order) are proved by induction.

**Board**, for any number of buffers, frames and tools. For the camera, `StageInv`
says what each stage of opening has acquired, `PlaceInv` that every buffer is
queued, filled or held, in one place only, and `OrderInv` that filled buffers are
in the order of their frames and later than the last one handed out, that the one
being copied comes between, and that what has been copied is all of its frame; so
what a grab hands out is of one later frame (`HandedOut`), and the refinement of
`FrameSource` follows: `Requeue` is `Take`, unless there was nothing. For the pins, `PinInv`: a pin is high only as
an output (`HighIsOutput`), so that either kind of silencing write works on it, and
on nobody's list of writes is a loud one that no later one covers (`ListsCovered`),
wherever the program is killed. For a program that nobody disturbs, `AloneInv`
follows the list itself: what is left of it is the end of the program's own
script (`OnTheirWay`), the pins it has prepared are outputs (`Prepared`) and obey
(`Obeyed`), so that the level of a pin is that of the last write to it (`Solo`).
At the end of the start's script that is low for all, at the places an alarm
stops at it is what `AlarmUndisturbed` says.

**Induction over data.** The library's induction theorems take an operator as a
parameter, which the installed provers cannot instantiate. For the two recursive
functions the theorems need, `Keep` and `Folded`, induction is done by the least
counterexample instead: `LeastIs` finds the least element of a set of numbers (the
minimum of a well-founded relation), and `SetInduction` is induction for a
*set* of numbers, which is no operator.

Every safety and action property of the passing runs is stated by a theorem. Only
model-checked is everything under fairness: `ShutdownCompletes`, `FramesFlow`,
`CloseReleasesEverybody`, `CommandsServed`, `QuitQuits`. Liveness is out of the
prover's reach.

## Not modelled

- `mes_handler.c`: formats and scans JSON, without state.
- `handle_client()` and the accept loop of `ai_receiver.py`: around the reader and
  the reassembler there is the detector, and the threads share nothing.
- The light sensor driver, which no program opens; the test programs and
  `hello_mod.c`: straight-line tools.
- `src/gateway_vm_backup`, as far as it equals `src/gateway`; its `gateway_app.cpp`
  and `mes_handler.c` are earlier versions of the modelled ones. Together with the
  generated compiler probes under the two `build_arm` directories these lines
  outnumber the program itself, so that a large part of the counted lines has
  nothing to model.
- `frame_receiver.c` has the event loop of `tcp_server.c` once more; `EpollServer`
  stands for both, and is mapped to the one it was written from.
- The fill level of send buffers: whether an answer of a server is cut. Input from
  a pipe, where `fgets()` reads ahead of epoll. Both are hazards without a property,
  as are two paths of which nothing says what should happen: a grab that fails
  leaves the gateway up without video, a failing `accept()` leaves a backlog waiting.
- The detector, the camera and the kernel, other than as choices.

## Order of the work, and what is left

`FrameQueue`, `RingBuffer`; `Gateway` (composes `RingBuffer`); `TlvReader`;
`FrameTransfer`; `TcpClient`; `EpollServer`; `AiReader` (extends `TlvReader`);
`VideoCapture` with `FrameSource`, `Gpio`, and `Board` (composes both); the proofs
of each. All of that is done. Worth doing next:

1. The send buffers: partial writes of the servers and of `sendall()` in
   `ai_receiver.py:317`, which put a client out of step.
2. A reader of frames for totals the gateway never announces (zero, or more than a
   receiver can hold), without `LengthAssumption`.
