--------------------------- MODULE GatewayProofs ---------------------------
(***************************************************************************)
(* Proofs about Gateway for every number of signals, frames and slots: its *)
(* types, the use of the sockets, what happens to the frames, what is left *)
(* at exit, and that the threads use the ring buffer as RingBuffer has it, *)
(* so that its theorems hold in the gateway.                               *)
(***************************************************************************)
EXTENDS Gateway, SequenceTheorems, FiniteSetTheorems, TLAPS

RingProofs == INSTANCE RingBufferProofs WITH
  Producers <- {cap}, Consumers <- {net}, Closers <- {cap, main} \cup Signals

(* The gateway's constants are what the theorems of RingBuffer assume. *)
LEMMA RingAssumptions ==
  /\ RING_BUF_COUNT \in Nat \ {0}
  /\ NoOwner \notin Ring!Callers
  /\ NoFrame \notin Frames
  /\ MaxFrames \in Nat
  /\ RingProofs!IsFiniteSet({cap}) /\ RingProofs!IsFiniteSet({net})
<1>1. IsFiniteSet({cap}) /\ IsFiniteSet({net})
  BY FS_Singleton
<1>2. RingProofs!IsFiniteSet({cap}) /\ RingProofs!IsFiniteSet({net})
  BY <1>1 DEF IsFiniteSet, RingProofs!IsFiniteSet
<1> QED BY <1>2, RingAssumption, BoundAssumption DEF Ring!Callers, Threads

LEMMA CallersAre == Ring!Callers = Threads \cup Signals
BY DEF Ring!Callers, Threads

-----------------------------------------------------------------------------
(* The two names of the ring buffer's definitions mean the same. *)

LEMMA SameInv == RingProofs!IInv <=> Ring!IInv
BY DEF RingProofs!IInv, Ring!IInv, RingProofs!TypeOK, Ring!TypeOK,
       RingProofs!Callers, Ring!Callers, RingProofs!Slots, Ring!Slots,
       RingProofs!Places, Ring!Places, RingProofs!MutexInv, Ring!MutexInv,
       RingProofs!Critical, Ring!Critical, RingProofs!WindowInv, Ring!WindowInv,
       RingProofs!SlotAt, Ring!SlotAt, RingProofs!CopyInv, Ring!CopyInv,
       RingProofs!ArgumentInv, Ring!ArgumentInv, RingProofs!PushPlaces, Ring!PushPlaces,
       RingProofs!RefuseInv, Ring!RefuseInv

LEMMA SameInit == RingProofs!Init <=> Ring!Init
BY DEF RingProofs!Init, Ring!Init, RingProofs!Callers, Ring!Callers, RingProofs!Slots, Ring!Slots

LEMMA SameNext == [RingProofs!Next]_(RingProofs!vars) <=> [Ring!Next]_(Ring!vars)
BY DEF RingProofs!Next, Ring!Next, RingProofs!vars, Ring!vars, RingProofs!ringVars, Ring!ringVars,
       RingProofs!CallPush, Ring!CallPush, RingProofs!CallPop, Ring!CallPop,
       RingProofs!CallClose, Ring!CallClose, RingProofs!Returned, Ring!Returned,
       RingProofs!SpuriousWake, Ring!SpuriousWake, RingProofs!MethodStep, Ring!MethodStep,
       RingProofs!PushCommit, Ring!PushCommit, RingProofs!NextSlot, Ring!NextSlot,
       RingProofs!NotifyOne, Ring!NotifyOne, RingProofs!WaitersAt, Ring!WaitersAt,
       RingProofs!Callers, Ring!Callers, RingProofs!Goto, Ring!Goto,
       RingProofs!AfterWake, Ring!AfterWake, RingProofs!AfterLock, Ring!AfterLock,
       RingProofs!AfterUnlock, Ring!AfterUnlock, RingProofs!Lock, Ring!Lock,
       RingProofs!Unlock, Ring!Unlock, RingProofs!Block, Ring!Block,
       RingProofs!PushWait, Ring!PushWait, RingProofs!PopWait, Ring!PopWait,
       RingProofs!PushRefuse, Ring!PushRefuse, RingProofs!PopRefuse, Ring!PopRefuse,
       RingProofs!PushCopy, Ring!PushCopy, RingProofs!PopCopy, Ring!PopCopy,
       RingProofs!PopCommit, Ring!PopCommit, RingProofs!CloseSet, Ring!CloseSet,
       RingProofs!NotifyEverybody, Ring!NotifyEverybody

LEMMA RingInit == Ring!Init => Ring!IInv
<1>1. RingProofs!Init => RingProofs!IInv
  BY RingAssumptions, RingProofs!InitIInv DEF Ring!Callers, RingProofs!Callers
<1> QED BY <1>1, SameInit, SameInv

LEMMA RingStays == Ring!IInv /\ [Ring!Next]_(Ring!vars) => Ring!IInv'
<1>1. RingProofs!IInv' <=> Ring!IInv'
BY DEF RingProofs!IInv, Ring!IInv, RingProofs!TypeOK, Ring!TypeOK,
       RingProofs!Callers, Ring!Callers, RingProofs!Slots, Ring!Slots,
       RingProofs!Places, Ring!Places, RingProofs!MutexInv, Ring!MutexInv,
       RingProofs!Critical, Ring!Critical, RingProofs!WindowInv, Ring!WindowInv,
       RingProofs!SlotAt, Ring!SlotAt, RingProofs!CopyInv, Ring!CopyInv,
       RingProofs!ArgumentInv, Ring!ArgumentInv, RingProofs!PushPlaces, Ring!PushPlaces,
       RingProofs!RefuseInv, Ring!RefuseInv
<1>2. RingProofs!IInv /\ [RingProofs!Next]_(RingProofs!vars) => RingProofs!IInv'
  BY RingAssumptions, RingProofs!NextIInv DEF Ring!Callers, RingProofs!Callers
<1> QED BY <1>1, <1>2, SameInv, SameNext

-----------------------------------------------------------------------------
(* The inductive invariant. *)

(* The places of a caller in each method of the ring buffer. *)
PushCall == {"push_lock", "push_wait", "push_pred", "push_commit",
             "unlock_true", "unlock_false", "true", "false"}
PopCall == {"pop_lock", "pop_wait", "pop_pred", "pop_commit",
            "unlock_true", "unlock_false", "true", "false"}
CloseCall == {"close_lock", "close_set", "unlock_true", "true"}
Outside == {"idle", "true", "false"}

(* Who is inside a method of the buffer is so by a call it makes there. *)
PcInv ==
  /\ pc[cap] \in (IF at[cap] = "push" THEN PushCall ELSE
                IF at[cap] = "failed" THEN CloseCall ELSE Outside)
  /\ pc[net] \in (IF at[net] = "pop" THEN PopCall ELSE Outside)
  /\ pc[main] \in (IF at[main] = "closing" THEN CloseCall ELSE Outside)
  /\ \A s \in Signals : pc[s] \in (IF on[s] = Nobody THEN Outside ELSE CloseCall)

(* Only a caller in its critical section holds the mutex. *)
HolderInv == mutex_ # NoOwner => pc[mutex_] \in Ring!Critical

(* main joins the threads after it has closed the buffer and its socket. *)
ClosedInv ==
  /\ at[main] = "closing" /\ pc[main] \in {"unlock_true", "true"} => closed_
  /\ at[main] \in {"join", "exited"} => closed_ /\ ~mes_fd

(* Camera and alarm are on only while the thread that owns them uses them. *)
LocalInv ==
  /\ camera => at[cap] \in {"start", "loop", "grab", "push", "leave"}
  /\ alarm => at[net] = "alarm"

(* A defect is reported for each command, and only then. *)
CommandInv ==
  /\ cmd_pending + defect_count <= MaxInputs
  /\ at[main] = "defect" => cmd_pending > 0

(* A handler runs on top of something that has not ended. *)
ActiveInv == \A s \in Signals : on[s] # Nobody => on[s] # s /\ Active(on[s])

(* Handlers are not on top of each other in a circle: among any of them    *)
(* one is on top of something else, so the lowest interrupted a thread.    *)
Handling == {s \in Signals : on[s] # Nobody}
GroundedInv == \A S \in SUBSET Handling : S # {} => \E s \in S : on[s] \notin S

(* The network thread has a frame that it took and did not send yet. *)
InHand == at[net] = "send" \/ (at[net] = "pop" /\ pc[net] \in {"unlock_true", "true"})
FramesInv ==
  /\ Len(delivered) = (IF InHand THEN Len(taken) + 1 ELSE Len(taken))
  /\ \A i \in 1 .. Len(taken) : taken[i] = delivered[i]
  /\ InHand => data[net] = delivered[Len(delivered)]

(* Everything together; the last two are the properties themselves. *)
IInv ==
  /\ Ring!IInv /\ TypeOK
  /\ PcInv /\ HolderInv /\ ClosedInv /\ LocalInv /\ CommandInv
  /\ ActiveInv /\ GroundedInv /\ FramesInv
  /\ SocketDiscipline /\ CleanExit

-----------------------------------------------------------------------------
(* What a step inside the ring buffer does to the callers and what the     *)
(* gateway sees of it.                                                     *)

(* Caller x goes to place next, and perhaps waiting callers wake up. *)
Moved(x, next) ==
  /\ pc' \in [Ring!Callers -> Ring!Places]
  /\ pc'[x] = next
  /\ \A w \in Ring!Callers \ {x} :
       \/ pc'[w] = pc[w]
       \/ pc[w] = "push_wait" /\ pc'[w] = "push_lock"
       \/ pc[w] = "pop_wait" /\ pc'[w] = "pop_lock"

LEMMA GotoMoves ==
  ASSUME pc \in [Ring!Callers -> Ring!Places], NEW x \in Ring!Callers,
         NEW next \in Ring!Places, Ring!Goto(x, next)
  PROVE  Moved(x, next)
BY DEF Ring!Goto, Moved

LEMMA NotifyOneMoves ==
  ASSUME pc \in [Ring!Callers -> Ring!Places], NEW x \in Ring!Callers,
         pc[x] \notin {"push_wait", "pop_wait"},
         NEW waitPlace \in {"push_wait", "pop_wait"}, NEW next \in Ring!Places,
         Ring!NotifyOne(x, waitPlace, next)
  PROVE  Moved(x, next)
BY DEF Ring!NotifyOne, Ring!WaitersAt, Ring!AfterWake, Ring!Goto, Ring!Places, Moved

LEMMA NotifyEverybodyMoves ==
  ASSUME pc \in [Ring!Callers -> Ring!Places], NEW x \in Ring!Callers,
         NEW next \in Ring!Places, Ring!NotifyEverybody(x, next)
  PROVE  Moved(x, next)
BY DEF Ring!NotifyEverybody, Ring!AfterWake, Ring!Places, Moved

(* The steps that take, keep and leave the mutex, and those that change    *)
(* closed_, delivered and the frame of a caller.                           *)
Locks(x) ==
  /\ \/ pc[x] = "push_lock" /\ Moved(x, "push_pred")
     \/ pc[x] = "pop_lock" /\ Moved(x, "pop_pred")
     \/ pc[x] = "close_lock" /\ Moved(x, "close_set")
  /\ mutex_' = x
  /\ UNCHANGED <<closed_, data, delivered>>

Unlocks(x) ==
  /\ \/ pc[x] = "unlock_true" /\ Moved(x, "true")
     \/ pc[x] = "unlock_false" /\ Moved(x, "false")
     \/ pc[x] = "push_pred" /\ Moved(x, "push_wait")
     \/ pc[x] = "pop_pred" /\ Moved(x, "pop_wait")
  /\ mutex_' = NoOwner
  /\ UNCHANGED <<closed_, data, delivered>>

Wakes(x) ==
  /\ \/ pc[x] = "push_wait" /\ Moved(x, "push_lock")
     \/ pc[x] = "pop_wait" /\ Moved(x, "pop_lock")
  /\ UNCHANGED <<mutex_, closed_, data, delivered>>

Works(x) ==
  /\ \/ pc[x] = "push_pred" /\ Moved(x, "unlock_false")
     \/ pc[x] = "push_pred" /\ Moved(x, "push_commit")
     \/ pc[x] = "push_commit" /\ Moved(x, "unlock_true")
     \/ pc[x] = "pop_pred" /\ Moved(x, "unlock_false")
  /\ UNCHANGED <<mutex_, closed_, data, delivered>>

Copies(x) ==
  /\ pc[x] = "pop_pred" /\ Moved(x, "pop_commit")
  /\ \A w \in Ring!Callers \ {x} : data'[w] = data[w]
  /\ UNCHANGED <<mutex_, closed_, delivered>>

Commits(x) ==
  /\ pc[x] = "pop_commit" /\ Moved(x, "unlock_true")
  /\ delivered' = Append(delivered, data[x])
  /\ UNCHANGED <<mutex_, closed_, data>>

Closes(x) ==
  /\ pc[x] = "close_set" /\ Moved(x, "unlock_true")
  /\ closed_'
  /\ UNCHANGED <<mutex_, data, delivered>>

Effect(x) ==
  \/ Locks(x) \/ Unlocks(x) \/ Wakes(x) \/ Works(x)
  \/ Copies(x) \/ Commits(x) \/ Closes(x)

LEMMA RingStepEffect ==
  ASSUME Ring!IInv, NEW x \in Ring!Callers, Ring!MethodStep(x) \/ Ring!SpuriousWake(x)
  PROVE  Effect(x)
<1> USE DEF Effect
<1>0. /\ pc \in [Ring!Callers -> Ring!Places]
      /\ {"push_lock", "push_wait", "push_pred", "push_commit", "pop_lock", "pop_wait",
          "pop_pred", "pop_commit", "close_lock", "close_set", "unlock_true",
          "unlock_false", "true", "false"} \subseteq Ring!Places
      /\ data \in [Ring!Callers -> Frames \cup {NoFrame}]
  BY DEF Ring!IInv, Ring!TypeOK, Ring!Places
<1>1. CASE Ring!Lock(x)
  BY <1>0, <1>1, GotoMoves DEF Ring!Lock, Ring!AfterLock, Locks
<1>2. CASE Ring!Unlock(x)
  BY <1>0, <1>2, GotoMoves DEF Ring!Unlock, Ring!AfterUnlock, Unlocks
<1>3. CASE Ring!PushWait(x) \/ Ring!PopWait(x)
  BY <1>0, <1>3, GotoMoves DEF Ring!PushWait, Ring!PopWait, Ring!Block, Unlocks
<1>4. CASE Ring!SpuriousWake(x)
  BY <1>0, <1>4, GotoMoves DEF Ring!SpuriousWake, Ring!AfterWake, Wakes
<1>5. CASE Ring!PushRefuse(x) \/ Ring!PushCopy(x) \/ Ring!PopRefuse(x)
  BY <1>0, <1>5, GotoMoves DEF Ring!PushRefuse, Ring!PushCopy, Ring!PopRefuse, Works
<1>6. CASE Ring!PushCommit(x)
  BY <1>0, <1>6, NotifyOneMoves DEF Ring!PushCommit, Works
<1>7. CASE Ring!PopCopy(x)
  BY <1>0, <1>7, GotoMoves DEF Ring!PopCopy, Copies
<1>8. CASE Ring!PopCommit(x)
  BY <1>0, <1>8, NotifyOneMoves DEF Ring!PopCommit, Commits
<1>9. CASE Ring!CloseSet(x)
  BY <1>0, <1>9, NotifyEverybodyMoves DEF Ring!CloseSet, Closes
<1> QED BY <1>1, <1>2, <1>3, <1>4, <1>5, <1>6, <1>7, <1>8, <1>9 DEF Ring!MethodStep

-----------------------------------------------------------------------------
(* Every step keeps the invariant.  First the ring buffer's part.          *)

LEMMA StepIsRingStep == [Next]_vars => [Ring!Next]_(Ring!vars)
<1> SUFFICES ASSUME [Next]_vars PROVE [Ring!Next]_(Ring!vars)
  OBVIOUS
<1>1. CASE UNCHANGED ringVars
  BY <1>1 DEF ringVars, Ring!vars, Ring!ringVars
<1>2. CASE \E c \in {cap, main} \cup Signals : Ring!CallClose(c)
  BY <1>2 DEF Ring!Next
<1>3. CASE \E f \in Frames : Ring!CallPush(cap, f)
  BY <1>3 DEF Ring!Next
<1>4. CASE Ring!CallPop(net)
  BY <1>4 DEF Ring!Next
<1>5. CASE \E x \in Ring!Callers : Ring!MethodStep(x) \/ Ring!SpuriousWake(x)
  BY <1>5 DEF Ring!Next
<1>6. CASE CapStep
  BY <1>1, <1>2, <1>3, <1>6
  DEF CapStep, CapOpened, CapFailed, CapFailedReturn, CapStarted, CapLoop, CapGrabbed,
      CapGrabbedNothing, CapPushed, CapLeave
<1>7. CASE NetStep \/ NetSend
  BY <1>1, <1>4, <1>7
  DEF NetStep, NetSend, NetCheck, NetConnected, NetRefused, NetLoop, NetPopped, NetSent,
      NetSendFailed, NetAlarmOn, NetAlarmOff, NetReadEnd, NetLeave
<1>8. CASE MainStep \/ MainSent
  BY <1>1, <1>2, <1>8
  DEF MainStep, MainConnected, MainRefused, MainTerminated, MainLoop, MainHeartbeat, MainWait,
      MainCommand, MainQuit, MainHangup, MainResponses, MainEventsDone, MainDefects,
      MainLeave, MainClosed, MainJoined, MainSent
<1>9. CASE \/ SigPipe
           \/ \E x \in Ring!Callers : RingStep(x)
           \/ \E t \in Threads : RingSpuriousWake(t)
           \/ \E s \in Signals : HandlerReturn(s) \/ \E x \in Threads \cup Signals : Deliver(s, x)
           \/ UNCHANGED vars
  BY <1>1, <1>2, <1>5, <1>9, CallersAre
  DEF SigPipe, RingStep, RingSpuriousWake, HandlerReturn, Deliver, vars
<1> QED BY <1>6, <1>7, <1>8, <1>9 DEF Next

(* The rest of the invariant, step by step. *)
RestInv ==
  /\ TypeOK
  /\ PcInv /\ HolderInv /\ ClosedInv /\ LocalInv /\ CommandInv
  /\ ActiveInv /\ GroundedInv /\ FramesInv
  /\ SocketDiscipline /\ CleanExit

LEMMA RingStepInv ==
  ASSUME IInv, Ring!IInv', NEW x \in Ring!Callers,
         RingStep(x) \/ (x \in Threads /\ RingSpuriousWake(x))
  PROVE  RestInv'
<1> USE DEF IInv
<1>1. /\ Effect(x) /\ ~Stopped
      /\ UNCHANGED <<g_running, at, sigVars, killed, camera, netVars, mainVars>>
  BY RingStepEffect DEF RingStep, RingSpuriousWake, Runs
<1>2. TypeOK'
  BY <1>1 DEF TypeOK, Ring!IInv, sigVars, netVars, mainVars
<1>3. PcInv'
  <2>1. ASSUME NEW w \in Ring!Callers
        PROVE  /\ pc[w] \in PushCall => pc'[w] \in PushCall
               /\ pc[w] \in PopCall => pc'[w] \in PopCall
               /\ pc[w] \in CloseCall => pc'[w] \in CloseCall
               /\ pc[w] \in Outside => pc'[w] \in Outside
    BY <1>1 DEF Effect, Locks, Unlocks, Wakes, Works, Copies, Commits, Closes, Moved,
                PushCall, PopCall, CloseCall, Outside
  <2> QED BY <1>1, <2>1, CallersAre DEF PcInv, Threads, sigVars
<1>4. HolderInv'
  BY <1>1 DEF Effect, Locks, Unlocks, Wakes, Works, Copies, Commits, Closes, Moved,
              HolderInv, Ring!Critical, Ring!IInv, Ring!TypeOK, Ring!MutexInv
<1>5. ClosedInv'
  BY <1>1, CallersAre
  DEF Effect, Locks, Unlocks, Wakes, Works, Copies, Commits, Closes, Moved,
      ClosedInv, PcInv, CloseCall, Threads, mainVars
<1>6. LocalInv' /\ CommandInv' /\ SocketDiscipline'
  BY <1>1 DEF LocalInv, CommandInv, SocketDiscipline, netVars, mainVars
<1>7. ActiveInv' /\ GroundedInv'
  BY <1>1 DEF ActiveInv, Active, GroundedInv, Handling, sigVars
<1>8. FramesInv'
  <2>0. net \in Ring!Callers
    BY CallersAre DEF Threads
  <2>1. CASE Commits(x)
    <3>1. x = net /\ at[net] = "pop"
      BY <2>1, CallersAre
      DEF Commits, PcInv, PushCall, PopCall, CloseCall, Outside, Threads
    <3>2. ~InHand /\ InHand'
      BY <1>1, <2>0, <2>1, <3>1 DEF Commits, Moved, InHand
    <3>3. /\ Len(delivered') = Len(delivered) + 1
          /\ delivered'[Len(delivered) + 1] = data[net]
          /\ \A i \in 1 .. Len(delivered) : delivered'[i] = delivered[i]
      <4>1. delivered \in Seq(Frames \cup {NoFrame}) /\ data[net] \in Frames \cup {NoFrame}
        BY <2>0 DEF Ring!IInv, Ring!TypeOK
      <4> QED BY <2>1, <3>1, <4>1, AppendProperties DEF Commits
    <3> QED BY <1>1, <2>1, <3>2, <3>3 DEF FramesInv, Commits, netVars, TypeOK
  <2>2. CASE ~Commits(x)
    <3>1. delivered' = delivered
      BY <1>1, <2>2 DEF Effect, Locks, Unlocks, Wakes, Works, Copies, Closes
    <3>2. at[net] = "pop" =>
            (pc[net] \in {"unlock_true", "true"} <=> pc'[net] \in {"unlock_true", "true"})
      BY <1>1, <2>0, <2>2
      DEF Effect, Locks, Unlocks, Wakes, Works, Copies, Closes, Moved, PcInv, PopCall
    <3>3. (at[net] = "pop" /\ pc[net] = "pop_pred") \/ data'[net] = data[net]
      BY <1>1, <2>0, <2>2
      DEF Effect, Locks, Unlocks, Wakes, Works, Copies, Closes, PcInv, Outside
    <3> QED BY <1>1, <3>1, <3>2, <3>3 DEF FramesInv, InHand, netVars
  <2> QED BY <2>1, <2>2
<1>9. CleanExit'
  BY <1>1 DEF CleanExit, Stopped, Exited
<1> QED BY <1>2, <1>3, <1>4, <1>5, <1>6, <1>7, <1>8, <1>9 DEF RestInv

LEMMA CapMoves ==
  ASSUME TypeOK, CapStep
  PROVE  at' \in [Threads -> Places] /\ \A u \in Threads \ {cap} : at'[u] = at[u]
<1> USE DEF Step, Threads, TypeOK, Places
<1>1. CASE CapOpened
  BY <1>1 DEF CapOpened
<1>2. CASE CapFailed
  BY <1>2 DEF CapFailed
<1>3. CASE CapLoop
  BY <1>3 DEF CapLoop
<1>4. CASE \E f \in Frames : CapGrabbed(f)
  BY <1>4 DEF CapGrabbed
<1>5. CASE CapPushed
  BY <1>5 DEF CapPushed
<1>6. CASE CapGrabbedNothing
  BY <1>6 DEF CapGrabbedNothing
<1>7. CASE CapFailedReturn \/ CapStarted \/ CapLeave
  BY <1>7 DEF CapFailedReturn, CapStarted, CapLeave
<1> QED BY <1>1, <1>2, <1>3, <1>4, <1>5, <1>6, <1>7 DEF CapStep

LEMMA CapInv ==
  ASSUME IInv, Ring!IInv', CapStep
  PROVE  RestInv'
<1> USE DEF IInv, CapStep, CapOpened, CapFailed, CapFailedReturn, CapStarted, CapLoop,
            CapGrabbed, CapGrabbedNothing, CapPushed, CapLeave, Step, capOthers
<1>1. /\ Runs(cap)
      /\ UNCHANGED capOthers
      /\ UNCHANGED <<mutex_, closed_, delivered>>
      /\ \A w \in Ring!Callers \ {cap} : data'[w] = data[w] /\ pc'[w] = pc[w]
      /\ at' \in [Threads -> Places] /\ \A u \in Threads \ {cap} : at'[u] = at[u]
      /\ g_running' \in BOOLEAN /\ camera' \in BOOLEAN
  <2>1. Runs(cap) /\ UNCHANGED capOthers
    OBVIOUS
  <2>2. UNCHANGED <<mutex_, closed_, delivered>>
    BY DEF Ring!CallClose, Ring!CallPush, ringVars
  <2>3. \A w \in Ring!Callers \ {cap} : data'[w] = data[w] /\ pc'[w] = pc[w]
    BY DEF Ring!IInv, Ring!TypeOK, Ring!CallClose, Ring!CallPush, Ring!Goto, ringVars
  <2>4. at' \in [Threads -> Places] /\ \A u \in Threads \ {cap} : at'[u] = at[u]
    BY ONLY CapMoves, TypeOK, CapStep
  <2>5. g_running' \in BOOLEAN /\ camera' \in BOOLEAN
    BY DEF TypeOK
  <2> QED BY <2>1, <2>2, <2>3, <2>4, <2>5
<1>2. /\ cap \in Ring!Callers /\ net \in Ring!Callers /\ main \in Ring!Callers
      /\ Signals \subseteq Ring!Callers /\ cap \notin Signals
      /\ cap # net /\ cap # main
  BY CallersAre, ThreadAssumption DEF Threads
<1>3. at'[net] = at[net] /\ at'[main] = at[main] /\ cap \in Threads
  BY <1>1, <1>2 DEF TypeOK, Threads
<1>4. TypeOK'
  BY <1>1 DEF TypeOK, Ring!IInv, sigVars, netVars, mainVars
<1>5. PcInv'
  BY <1>1, <1>2, <1>3
  DEF TypeOK, Ring!TypeOK, Ring!CallClose, Ring!CallPush, Ring!Goto, Ring!Returned, ringVars,
      PcInv, PushCall, CloseCall, Outside, sigVars
<1>6. HolderInv'
  BY <1>1, <1>2, <1>3
  DEF HolderInv, TypeOK, Ring!TypeOK, Ring!CallClose, Ring!CallPush, Ring!Goto, Ring!Returned,
      Ring!Critical, ringVars
<1>7. ClosedInv' /\ CommandInv' /\ SocketDiscipline'
  BY <1>1, <1>2, <1>3 DEF ClosedInv, CommandInv, SocketDiscipline, netVars, mainVars
<1>8. LocalInv'
  BY <1>1, <1>3 DEF LocalInv, TypeOK, netVars
<1>9. ActiveInv' /\ GroundedInv'
  BY <1>1, <1>2, <1>3 DEF ActiveInv, Active, Runs, GroundedInv, Handling, sigVars, TypeOK
<1>10. FramesInv'
  BY <1>1, <1>2, <1>3 DEF FramesInv, InHand, netVars
<1>11. CleanExit'
  BY <1>1, <1>3 DEF CleanExit, Runs, Stopped, Exited
<1> QED BY <1>4, <1>5, <1>6, <1>7, <1>8, <1>9, <1>10, <1>11 DEF RestInv

(* The network thread between its places. *)
NetGoes ==
  \/ /\ at[net] = "loop" /\ at'[net] = "pop"
     /\ pc' = [pc EXCEPT ![net] = "pop_lock"]
  \/ /\ pc' = pc
     /\ \/ at[net] = "pop" /\ pc[net] = "true" /\ at'[net] = "send"
        \/ at[net] = "pop" /\ pc[net] \in {"idle", "false"} /\ at'[net] = "leave"
        \/ at[net] = "send" /\ at'[net] \in {"ai", "recheck"}
        \/ at[net] \notin {"pop", "send"} /\ at'[net] \notin {"pop", "send"}

NetLocal ==
  /\ at[net] \in {"loop", "pop", "send", "ai", "alarm"} => sock
  /\ at[net] \in {"check", "dial", "recheck", "redial", "done"} => ~sock
  /\ alarm => at[net] = "alarm"

LEMMA NetMoves ==
  ASSUME TypeOK, NetLocal, NetStep \/ NetSend
  PROVE  /\ at' \in [Threads -> Places]
         /\ \A u \in Threads \ {net} : at'[u] = at[u]
         /\ NetGoes
         /\ NetLocal'
<1> USE DEF Step, Threads, TypeOK, Places, NetGoes, NetLocal, netVars, ringVars, Ring!CallPop, Ring!Goto
<1>1. CASE NetCheck
  BY <1>1 DEF NetCheck
<1>2. CASE NetConnected
  BY <1>2 DEF NetConnected
<1>3. CASE NetRefused
  BY <1>3 DEF NetRefused
<1>4. CASE NetLoop
  BY <1>4 DEF NetLoop
<1>5. CASE NetPopped
  BY <1>5 DEF NetPopped, Ring!Returned
<1>6. CASE NetSent \/ NetSendFailed
  BY <1>6 DEF NetSent, NetSendFailed
<1>7. CASE NetAlarmOn \/ NetAlarmOff
  BY <1>7 DEF NetAlarmOn, NetAlarmOff
<1>8. CASE NetReadEnd \/ NetLeave
  BY <1>8 DEF NetReadEnd, NetLeave
<1> QED BY <1>1, <1>2, <1>3, <1>4, <1>5, <1>6, <1>7, <1>8 DEF NetStep, NetSend

LEMMA NetInv ==
  ASSUME IInv, Ring!IInv', NetStep \/ NetSend
  PROVE  RestInv'
<1> USE DEF IInv, NetStep, NetSend, NetCheck, NetConnected, NetRefused, NetLoop, NetPopped,
            NetSent, NetSendFailed, NetAlarmOn, NetAlarmOff, NetReadEnd, NetLeave, Step, netOthers
<1>1. /\ Runs(net)
      /\ UNCHANGED netOthers
      /\ UNCHANGED <<mutex_, closed_, delivered, data>>
      /\ pc \in [Ring!Callers -> Ring!Places]
  <2>1. Runs(net) /\ UNCHANGED netOthers
    OBVIOUS
  <2>2. UNCHANGED <<mutex_, closed_, delivered, data>>
    BY DEF Ring!CallPop, ringVars
  <2>3. pc \in [Ring!Callers -> Ring!Places]
    BY DEF Ring!IInv, Ring!TypeOK
  <2> QED BY <2>1, <2>2, <2>3
<1>2. /\ cap \in Ring!Callers /\ net \in Ring!Callers /\ main \in Ring!Callers
      /\ Signals \subseteq Ring!Callers /\ net \notin Signals
      /\ cap # net /\ net # main
  BY CallersAre, ThreadAssumption DEF Threads
<1>3. /\ at' \in [Threads -> Places]
      /\ at'[cap] = at[cap] /\ at'[main] = at[main] /\ net \in Threads
      /\ NetGoes /\ NetLocal'
  <2>1. NetLocal
    BY DEF SocketDiscipline, LocalInv, NetLocal
  <2>2. at' \in [Threads -> Places] /\ (\A u \in Threads \ {net} : at'[u] = at[u]) /\ NetGoes /\ NetLocal'
    BY ONLY NetMoves, TypeOK, NetStep \/ NetSend, <2>1
  <2> QED BY <1>2, <2>2 DEF Threads
<1>4. InHand => data[net] \in Frames
  <2>1. InHand => Len(delivered) \in 1 .. Len(delivered) /\ delivered \in Seq(Frames)
    BY DEF FramesInv, TypeOK, Ring!IInv, Ring!TypeOK
  <2> QED BY <2>1, ElementOfSeq DEF FramesInv
<1>5. \/ at[net] = "send" /\ taken' = Append(taken, data[net])
      \/ at[net] # "send" /\ taken' = taken
  BY DEF netVars
<1>6. TypeOK'
  <2>1. taken' \in Seq(Frames)
    BY <1>4, <1>5 DEF InHand, TypeOK
  <2>2. sock' \in BOOLEAN /\ alarm' \in BOOLEAN
    BY DEF TypeOK, netVars
  <2> QED BY <1>1, <1>3, <2>1, <2>2 DEF TypeOK, Ring!IInv, sigVars, mainVars
<1>7. PcInv'
  <2>1. PcInv
    OBVIOUS
  <2>2. \A w \in Ring!Callers \ {net} : pc'[w] = pc[w]
    BY ONLY <1>1, <1>2, <1>3 DEF NetGoes
  <2>3. pc'[net] \in (IF at'[net] = "pop" THEN PopCall ELSE Outside)
    <3>1. pc[net] \in (IF at[net] = "pop" THEN PopCall ELSE Outside)
      BY DEF PcInv
    <3> QED BY ONLY <1>1, <1>2, <1>3, <3>1 DEF NetGoes, PopCall, Outside
  <2>4. on' = on
    BY ONLY <1>1 DEF netOthers, sigVars
  <2> QED BY ONLY <1>2, <1>3, <2>1, <2>2, <2>3, <2>4 DEF PcInv
<1>8. HolderInv'
  <2>1. \A w \in Ring!Callers \ {net} : pc'[w] = pc[w]
    BY ONLY <1>1, <1>2, <1>3 DEF NetGoes
  <2>2. pc[net] \in Ring!Critical => pc'[net] = pc[net]
    <3>1. at[net] = "pop" \/ pc[net] \in Outside
      BY DEF PcInv
    <3> QED BY ONLY <1>3, <3>1 DEF NetGoes, Outside, Ring!Critical
  <2>3. HolderInv /\ mutex_ \in Ring!Callers \cup {NoOwner}
    BY DEF TypeOK, Ring!TypeOK
  <2> QED BY ONLY <1>1, <2>1, <2>2, <2>3 DEF HolderInv
<1>9. ClosedInv' /\ CommandInv'
  <2>1. pc'[main] = pc[main]
    BY ONLY <1>1, <1>2, <1>3 DEF NetGoes
  <2>2. ClosedInv /\ CommandInv
    OBVIOUS
  <2> QED BY ONLY <1>1, <1>3, <2>1, <2>2 DEF ClosedInv, CommandInv, netOthers, mainVars
<1>10. LocalInv' /\ SocketDiscipline'
  BY <1>1, <1>3 DEF LocalInv, SocketDiscipline, mainVars, NetLocal
<1>11. ActiveInv' /\ GroundedInv'
  BY <1>1, <1>2, <1>3 DEF ActiveInv, Active, Runs, GroundedInv, Handling, sigVars, TypeOK
<1>12. FramesInv'
  <2>1. CASE at[net] = "send"
    <3>1. InHand /\ ~InHand'
      BY <1>1, <1>3, <2>1 DEF InHand, TypeOK
    <3>2. /\ Len(taken') = Len(taken) + 1
          /\ taken'[Len(taken) + 1] = data[net]
          /\ \A i \in 1 .. Len(taken) : taken'[i] = taken[i]
      BY <1>4, <1>5, <2>1, <3>1, AppendProperties DEF TypeOK
    <3>3. FramesInv /\ Len(taken) \in Nat
      BY DEF TypeOK
    <3> QED BY ONLY <1>1, <3>1, <3>2, <3>3 DEF FramesInv
  <2>2. CASE at[net] # "send"
    <3>1. net \in Ring!Callers /\ (at[net] = "pop" \/ pc[net] \in Outside)
      BY <1>2 DEF PcInv
    <3>2. InHand' <=> InHand
      BY ONLY <1>1, <1>3, <2>2, <3>1 DEF InHand, NetGoes, Outside
    <3> QED BY <1>1, <1>5, <2>2, <3>2 DEF FramesInv
  <2> QED BY <2>1, <2>2
<1>13. CleanExit'
  BY <1>1, <1>3 DEF CleanExit, Runs, Stopped, Exited
<1> QED BY <1>6, <1>7, <1>8, <1>9, <1>10, <1>11, <1>12, <1>13 DEF RestInv

(* The main thread between its places. *)
MainGoes ==
  \/ /\ at[main] = "leave" /\ at'[main] = "closing"
     /\ pc' = [pc EXCEPT ![main] = "close_lock"]
     /\ UNCHANGED mainVars
  \/ /\ at[main] = "closing" /\ at'[main] = "join" /\ pc[main] = "true"
     /\ pc' = pc
     /\ ~mes_fd'
     /\ UNCHANGED <<cmd_pending, defect_count>>
  \/ /\ at[main] = "join" /\ at'[main] = "exited"
     /\ at[cap] = "done" /\ at[net] = "done"
     /\ pc' = pc
     /\ UNCHANGED mainVars
  \/ /\ at[main] \notin {"closing", "join", "exited"}
     /\ at'[main] \notin {"closing", "join", "exited"}
     /\ pc' = pc

MainLocal ==
  /\ at[main] \in {"greet_boot", "greet", "beat", "defect"} => mes_fd
  /\ cmd_pending + defect_count <= MaxInputs
  /\ at[main] = "defect" => cmd_pending > 0

MainTypes ==
  /\ at \in [Threads -> Places]
  /\ g_running \in BOOLEAN /\ killed \in BOOLEAN /\ mes_fd \in BOOLEAN
  /\ events \subseteq {"stdin", "mes"}
  /\ cmd_pending \in Nat /\ defect_count \in Nat /\ signalled \in Nat

LEMMA MainMoves ==
  ASSUME MainTypes, MainLocal, MainStep \/ MainSent
  PROVE  /\ MainTypes'
         /\ \A u \in Threads \ {main} : at'[u] = at[u]
         /\ MainGoes
         /\ MainLocal'
         /\ UNCHANGED <<mainOthers, mutex_, closed_, data, delivered>>
         /\ Runs(main)
         /\ killed' => killed \/ at' = at
<1> USE BoundAssumption
    DEF Step, Threads, MainTypes, Places, MainGoes, MainLocal, mainVars, mainOthers, ringVars,
        Ring!CallClose, Ring!Goto, sigVars
<1>1. CASE MainConnected
  <2>1. CASE Step(main, "boot", "greet_boot")
    BY <1>1, <2>1 DEF MainConnected
  <2>2. CASE Step(main, "redial", "greet")
    BY <1>1, <2>2 DEF MainConnected
  <2> QED BY <1>1, <2>1, <2>2 DEF MainConnected
<1>2. CASE MainRefused \/ MainTerminated
  <2>1. CASE MainRefused
    BY <2>1 DEF MainRefused
  <2>2. CASE MainTerminated
    BY <2>2 DEF MainTerminated
  <2> QED BY <1>2, <2>1, <2>2
<1>3. CASE MainLoop
  BY <1>3 DEF MainLoop
<1>4. CASE MainHeartbeat
  BY <1>4 DEF MainHeartbeat
<1>5. CASE MainWait
  <2>1. CASE Step(main, "wait", "events")
    BY <1>5, <2>1 DEF MainWait
  <2>2. CASE Step(main, "wait", "loop")
    BY <1>5, <2>2 DEF MainWait
  <2>3. CASE Step(main, "wait", "leave")
    BY <1>5, <2>3 DEF MainWait
  <2> QED BY <1>5, <2>1, <2>2, <2>3 DEF MainWait
<1>6. CASE MainCommand
  BY <1>6 DEF MainCommand, MoreInput
<1>7. CASE MainQuit \/ MainEventsDone
  <2>1. CASE MainQuit
    BY <2>1 DEF MainQuit
  <2>2. CASE MainEventsDone
    BY <2>2 DEF MainEventsDone
  <2> QED BY <1>7, <2>1, <2>2
<1>8. CASE MainHangup \/ MainResponses
  <2>1. CASE MainHangup
    BY <2>1 DEF MainHangup
  <2>2. CASE MainResponses
    BY <2>2 DEF MainResponses
  <2> QED BY <1>8, <2>1, <2>2
<1>9. CASE MainDefects
  BY <1>9 DEF MainDefects
<1>10. CASE MainLeave
  BY <1>10 DEF MainLeave
<1>11. CASE MainClosed \/ MainJoined
  <2>1. CASE MainClosed
    BY <2>1 DEF MainClosed
  <2>2. CASE MainJoined
    BY <2>2 DEF MainJoined
  <2> QED BY <1>11, <2>1, <2>2
<1>12. CASE MainSent
  BY <1>12 DEF MainSent, AfterSend
<1> QED BY <1>1, <1>2, <1>3, <1>4, <1>5, <1>6, <1>7, <1>8, <1>9, <1>10, <1>11, <1>12 DEF MainStep

LEMMA Summands ==
  ASSUME NEW m \in Nat, NEW i \in Nat, NEW j \in Nat, i + j <= m
  PROVE  i \in 0 .. m /\ j \in 0 .. m
OBVIOUS

LEMMA MainInv ==
  ASSUME IInv, Ring!IInv', MainStep \/ MainSent
  PROVE  RestInv'
<1> USE DEF IInv
<1>1. MainTypes /\ MainLocal /\ pc \in [Ring!Callers -> Ring!Places]
  BY DEF TypeOK, Ring!TypeOK, SocketDiscipline, CommandInv, MainTypes, MainLocal, AfterSend
<1>2. /\ MainTypes'
      /\ \A u \in Threads \ {main} : at'[u] = at[u]
      /\ MainGoes
      /\ MainLocal'
      /\ UNCHANGED <<mainOthers, mutex_, closed_, data, delivered>>
      /\ Runs(main)
      /\ killed' => killed \/ at' = at
  BY <1>1, MainMoves
<1>3. /\ cap \in Ring!Callers /\ net \in Ring!Callers /\ main \in Ring!Callers
      /\ Signals \subseteq Ring!Callers /\ main \notin Signals
      /\ cap # main /\ net # main
      /\ Threads = {cap, net, main}
  BY CallersAre, ThreadAssumption DEF Threads
<1>4. /\ UNCHANGED <<on, signalled, camera, sock, taken, alarm>>
      /\ at'[cap] = at[cap] /\ at'[net] = at[net]
  BY <1>2, <1>3 DEF mainOthers, sigVars, netVars
<1>5. \A w \in Ring!Callers \ {main} : pc'[w] = pc[w]
  BY <1>1, <1>2 DEF MainGoes
<1>6. TypeOK'
  <2>1. cmd_pending' \in 0 .. MaxInputs /\ defect_count' \in 0 .. MaxInputs
    <3>1. /\ cmd_pending' \in Nat /\ defect_count' \in Nat
          /\ cmd_pending' + defect_count' <= MaxInputs
      BY <1>2 DEF MainTypes, MainLocal
    <3>2. MaxInputs \in Nat
      BY BoundAssumption
    <3> QED BY ONLY <3>1, <3>2, Summands
  <2>2. {killed, camera, sock, alarm, mes_fd}' \subseteq BOOLEAN
    BY <1>2, <1>4 DEF TypeOK, MainTypes
  <2>3. Ring!TypeOK'
    BY DEF Ring!IInv
  <2>4. /\ on' \in [Signals -> Threads \cup Signals \cup {Nobody}]
        /\ signalled' \in 0 .. MaxInputs
        /\ taken' \in Seq(Frames)
    BY <1>4 DEF TypeOK
  <2> QED BY <1>2, <2>1, <2>2, <2>3, <2>4 DEF TypeOK, MainTypes
<1>7. PcInv'
  <2>1. pc[main] \in (IF at[main] = "closing" THEN CloseCall ELSE Outside)
    BY DEF PcInv
  <2>2. pc'[main] \in (IF at'[main] = "closing" THEN CloseCall ELSE Outside)
    BY ONLY <1>1, <1>2, <1>3, <2>1 DEF MainGoes, CloseCall, Outside
  <2> QED BY <1>3, <1>4, <1>5, <2>2 DEF PcInv
<1>8. HolderInv'
  <2>1. pc[main] \in Ring!Critical => pc'[main] = pc[main]
    <3>1. at[main] = "closing" \/ pc[main] \in Outside
      BY DEF PcInv
    <3> QED BY <1>2, <3>1 DEF MainGoes, Outside, Ring!Critical
  <2> QED BY <1>2, <1>5, <2>1 DEF HolderInv, TypeOK, Ring!TypeOK
<1>9. ClosedInv'
  <2>1. ClosedInv
    OBVIOUS
  <2> QED BY ONLY <1>1, <1>2, <1>3, <2>1 DEF ClosedInv, MainGoes, mainVars
<1>10. LocalInv'
  BY <1>4 DEF LocalInv
<1>11. CommandInv' /\ SocketDiscipline'
  <2>1. CommandInv'
    BY <1>2 DEF MainLocal, CommandInv
  <2> QED BY <1>2, <1>4, <2>1 DEF MainLocal, SocketDiscipline, AfterSend
<1>12. ActiveInv' /\ GroundedInv'
  BY <1>2, <1>3, <1>4 DEF ActiveInv, Active, Runs, GroundedInv, Handling
<1>13. FramesInv'
  BY <1>2, <1>3, <1>4, <1>5 DEF FramesInv, InHand
<1>14. CleanExit'
  <2>1. SUFFICES ASSUME Exited'
                 PROVE  /\ (at[cap] = "done" /\ at[net] = "done")'
                        /\ (~camera /\ ~sock /\ ~mes_fd /\ ~alarm)'
                        /\ (closed_ /\ mutex_ = NoOwner)'
                        /\ \A s \in Signals : on'[s] = Nobody
    BY DEF CleanExit
  <2>2. /\ at[main] = "join" /\ at[cap] = "done" /\ at[net] = "done"
        /\ pc' = pc /\ mes_fd' = mes_fd
    BY <1>2, <2>1 DEF MainGoes, Runs, Stopped, Exited, mainVars
  <2>3. ~camera /\ ~sock /\ ~mes_fd /\ ~alarm /\ closed_
    BY <2>2 DEF LocalInv, SocketDiscipline, ClosedInv
  <2>4. \A s \in Signals : on[s] = Nobody
    <3>1. SUFFICES ASSUME Handling # {} PROVE FALSE
      BY DEF Handling
    <3>2. PICK s \in Handling : on[s] \notin Handling
      BY <3>1 DEF GroundedInv
    <3>3. s \in Signals /\ on[s] # Nobody /\ on[s] \in Threads \cup Signals /\ Active(on[s])
      BY <3>2 DEF Handling, ActiveInv, TypeOK
    <3>4. on[s] \in Threads /\ at[on[s]] # "done"
      BY <3>2, <3>3 DEF Active, Handling
    <3> QED BY <1>2, <1>3, <2>2, <3>3, <3>4 DEF Runs
  <2>5. mutex_ = NoOwner
    <3>1. \A w \in Ring!Callers : pc[w] \in Outside
      BY <2>2, <2>4, CallersAre, <1>3 DEF PcInv
    <3> QED BY <3>1 DEF HolderInv, TypeOK, Ring!TypeOK, Outside, Ring!Critical
  <2> QED BY <1>2, <1>4, <2>2, <2>3, <2>4, <2>5
<1> QED BY <1>6, <1>7, <1>8, <1>9, <1>10, <1>11, <1>12, <1>13, <1>14 DEF RestInv

-----------------------------------------------------------------------------
(* Signals and handlers. *)

LEMMA SigPipeInv ==
  ASSUME IInv, Ring!IInv', SigPipe
  PROVE  RestInv'
<1>1. /\ killed' = TRUE /\ ~Stopped
      /\ UNCHANGED <<ringVars, g_running, at, sigVars, camera, netVars, mainVars>>
  BY DEF SigPipe, Runs
<1>2. TypeOK'
  BY <1>1 DEF IInv, TypeOK, Ring!IInv, sigVars, netVars, mainVars
<1>3. PcInv' /\ HolderInv' /\ FramesInv'
  BY <1>1 DEF IInv, PcInv, HolderInv, FramesInv, InHand, ringVars, sigVars, netVars
<1>4. ClosedInv' /\ LocalInv' /\ CommandInv' /\ SocketDiscipline'
  BY <1>1 DEF IInv, ClosedInv, LocalInv, CommandInv, SocketDiscipline, ringVars, netVars, mainVars
<1>5. ActiveInv' /\ GroundedInv'
  BY <1>1 DEF IInv, ActiveInv, Active, GroundedInv, Handling, sigVars
<1>6. CleanExit'
  BY <1>1 DEF CleanExit, Exited, Stopped
<1> QED BY <1>2, <1>3, <1>4, <1>5, <1>6 DEF RestInv

LEMMA DeliverInv ==
  ASSUME IInv, Ring!IInv', NEW s \in Signals, NEW x \in Threads \cup Signals, Deliver(s, x)
  PROVE  RestInv'
<1> USE DEF IInv
<1>1. /\ on[s] = Nobody /\ x # s /\ Active(x) /\ x # Nobody
      /\ on' = [on EXCEPT ![s] = x]
      /\ pc' = [pc EXCEPT ![s] = "close_lock"] /\ pc[s] \in Outside
      /\ pc \in [Ring!Callers -> Ring!Places]
      /\ s \in Ring!Callers /\ s \notin Threads
      /\ ~Stopped
      /\ UNCHANGED <<mutex_, closed_, data, delivered, at, killed, camera, netVars, mainVars>>
  BY CallersAre, ThreadAssumption
  DEF Deliver, Runs, Ring!CallClose, Ring!Returned, Ring!Goto, Outside, TypeOK, Ring!TypeOK
<1>2. \A w \in Ring!Callers \ {s} : pc'[w] = pc[w]
  BY <1>1
<1>3. TypeOK'
  <2>1. signalled' \in 0 .. MaxInputs /\ g_running' \in BOOLEAN
    <3>1. /\ signalled \in 0 .. MaxInputs /\ signalled' = signalled + 1
          /\ cmd_pending \in Nat /\ defect_count \in Nat
          /\ signalled + cmd_pending + defect_count < MaxInputs
      BY DEF Deliver, TypeOK, MoreInput
    <3>2. g_running' = FALSE
      BY DEF Deliver
    <3>3. MaxInputs \in Nat
      BY BoundAssumption
    <3>4. signalled + 1 \in 0 .. MaxInputs
      BY ONLY <3>1, <3>3
    <3> QED BY ONLY <3>1, <3>2, <3>4
  <2>2. on' \in [Signals -> Threads \cup Signals \cup {Nobody}]
    BY <1>1 DEF TypeOK
  <2>3. Ring!TypeOK'
    BY DEF Ring!IInv
  <2> QED BY <1>1, <2>1, <2>2, <2>3 DEF TypeOK, netVars, mainVars
<1>4. PcInv'
  BY <1>1, <1>2, CallersAre DEF PcInv, CloseCall, Threads, TypeOK
<1>5. HolderInv'
  BY <1>1, <1>2 DEF HolderInv, Outside, Ring!Critical, TypeOK, Ring!TypeOK
<1>6. ClosedInv'
  BY <1>1, <1>2, CallersAre DEF ClosedInv, Threads, mainVars
<1>7. LocalInv' /\ CommandInv' /\ SocketDiscipline'
  BY <1>1 DEF LocalInv, CommandInv, SocketDiscipline, netVars, mainVars
<1>8. ActiveInv'
  BY <1>1 DEF ActiveInv, Active, TypeOK
<1>9. GroundedInv'
  <2>1. SUFFICES ASSUME NEW S \in SUBSET Handling', S # {}
                 PROVE  \E t \in S : on'[t] \notin S
    BY DEF GroundedInv
  <2>2. /\ s \notin Handling
        /\ \A t \in S \ {s} : t \in Handling /\ on'[t] = on[t] /\ on[t] # s
    BY <1>1 DEF Handling, ActiveInv, Active, TypeOK
  <2>3. CASE S \ {s} # {}
    <3>1. PICK t \in S \ {s} : on[t] \notin S \ {s}
      BY <2>2, <2>3 DEF GroundedInv
    <3> QED BY <2>2, <3>1
  <2>4. CASE S \ {s} = {}
    \* only s itself: it does not interrupt itself
    BY <1>1, <2>1, <2>4 DEF TypeOK
  <2> QED BY <2>3, <2>4
<1>10. FramesInv'
  BY <1>1, <1>2, CallersAre DEF FramesInv, InHand, Threads, netVars
<1>11. CleanExit'
  BY <1>1 DEF CleanExit, Exited, Stopped
<1> QED BY <1>3, <1>4, <1>5, <1>6, <1>7, <1>8, <1>9, <1>10, <1>11 DEF RestInv

LEMMA HandlerReturnInv ==
  ASSUME IInv, Ring!IInv', NEW s \in Signals, HandlerReturn(s)
  PROVE  RestInv'
<1> USE DEF IInv
<1>1. /\ on[s] # Nobody /\ Runs(s) /\ ~Stopped
      /\ pc[s] \in Outside
      /\ on' = [on EXCEPT ![s] = Nobody]
      /\ UNCHANGED <<ringVars, g_running, at, signalled, killed, camera, netVars, mainVars>>
  BY DEF HandlerReturn, Runs, Ring!Returned, Outside
<1>2. \A t \in Signals \ {s} : on'[t] = on[t] /\ on[t] # s
  BY <1>1 DEF Runs, TypeOK
<1>3. TypeOK'
  BY <1>1 DEF TypeOK, Ring!IInv, netVars, mainVars
<1>4. PcInv' /\ HolderInv' /\ FramesInv'
  BY <1>1, <1>2 DEF PcInv, HolderInv, FramesInv, InHand, ringVars, netVars, TypeOK
<1>5. ClosedInv' /\ LocalInv' /\ CommandInv' /\ SocketDiscipline'
  BY <1>1 DEF ClosedInv, LocalInv, CommandInv, SocketDiscipline, ringVars, netVars, mainVars
<1>6. ActiveInv'
  BY <1>1, <1>2, ThreadAssumption DEF ActiveInv, Active, TypeOK
<1>7. GroundedInv'
  <2>1. Handling' \subseteq Handling \ {s}
    BY <1>1, <1>2 DEF Handling, TypeOK
  <2> QED BY <1>2, <2>1 DEF GroundedInv, Handling
<1>8. CleanExit'
  BY <1>1 DEF CleanExit, Exited, Stopped
<1> QED BY <1>3, <1>4, <1>5, <1>6, <1>7, <1>8 DEF RestInv

-----------------------------------------------------------------------------
LEMMA NextIInv == IInv /\ [Next]_vars => IInv'
<1> SUFFICES ASSUME IInv, [Next]_vars PROVE IInv'
  OBVIOUS
<1>1. Ring!IInv'
  BY StepIsRingStep, RingStays DEF IInv
<1>2. CASE CapStep
  BY <1>1, <1>2, CapInv DEF IInv, RestInv
<1>3. CASE NetStep \/ NetSend
  BY <1>1, <1>3, NetInv DEF IInv, RestInv
<1>4. CASE MainStep \/ MainSent
  BY <1>1, <1>4, MainInv DEF IInv, RestInv
<1>5. CASE SigPipe
  BY <1>1, <1>5, SigPipeInv DEF IInv, RestInv
<1>6. CASE \/ \E x \in Ring!Callers : RingStep(x)
           \/ \E t \in Threads : RingSpuriousWake(t)
  BY <1>1, <1>6, RingStepInv, CallersAre DEF IInv, RestInv
<1>7. CASE \E s \in Signals : HandlerReturn(s) \/ \E x \in Threads \cup Signals : Deliver(s, x)
  BY <1>1, <1>7, HandlerReturnInv, DeliverInv DEF IInv, RestInv
<1>8. CASE UNCHANGED vars
  BY <1>1, <1>8
  DEF vars, ringVars, sigVars, netVars, mainVars, IInv, Ring!IInv, TypeOK, PcInv, HolderInv,
      ClosedInv, LocalInv, CommandInv, ActiveInv, Active, GroundedInv, Handling, FramesInv, InHand,
      SocketDiscipline, CleanExit, Exited
<1> QED BY <1>2, <1>3, <1>4, <1>5, <1>6, <1>7, <1>8 DEF Next

LEMMA InitIInv == Init => IInv
<1> SUFFICES ASSUME Init PROVE IInv
  OBVIOUS
<1> USE DEF Init
<1>1. Ring!IInv
  BY RingInit
<1>2. /\ at[cap] = "open" /\ at[net] = "check" /\ at[main] = "boot"
      /\ at \in [Threads -> Places]
  BY ThreadAssumption DEF Threads, Places
<1>3. Handling = {} /\ \A s \in Signals : on[s] = Nobody
  BY DEF Handling
<1>4. /\ pc = [c \in Ring!Callers |-> "idle"]
      /\ mutex_ = NoOwner /\ closed_ = FALSE /\ delivered = <<>>
      /\ ~sock /\ cmd_pending = 0 /\ defect_count = 0
  BY DEF Ring!Init
<1>5. TypeOK
  <2>1. taken \in Seq(Frames) /\ cmd_pending \in 0 .. MaxInputs
        /\ defect_count \in 0 .. MaxInputs /\ signalled \in 0 .. MaxInputs
    BY BoundAssumption
  <2>2. on \in [Signals -> Threads \cup Signals \cup {Nobody}]
    OBVIOUS
  <2>3. Ring!TypeOK
    BY <1>1 DEF Ring!IInv
  <2> QED BY <1>2, <2>1, <2>2, <2>3 DEF TypeOK
<1>6. PcInv /\ HolderInv
  BY <1>2, <1>3, <1>4, CallersAre DEF PcInv, HolderInv, Outside, Threads
<1>7. ClosedInv /\ LocalInv /\ CommandInv /\ SocketDiscipline
  <2>1. ClosedInv /\ LocalInv
    BY <1>2 DEF ClosedInv, LocalInv
  <2>2. CommandInv
    BY ONLY <1>2, <1>4, BoundAssumption DEF CommandInv
  <2>3. SocketDiscipline
    BY ONLY <1>2, <1>4 DEF SocketDiscipline, AfterSend
  <2> QED BY <2>1, <2>2, <2>3
<1>8. ActiveInv /\ GroundedInv
  BY <1>3 DEF ActiveInv, GroundedInv
<1>9. FramesInv
  BY <1>2, <1>4 DEF FramesInv, InHand
<1>10. CleanExit
  BY <1>2 DEF CleanExit, Exited
<1> QED BY <1>1, <1>5, <1>6, <1>7, <1>8, <1>9, <1>10 DEF IInv

THEOREM Invariance == Spec => []IInv
BY InitIInv, NextIInv, PTL DEF Spec

(* Every variable of the gateway keeps its type; the alarm commands are    *)
(* never counted beyond those given.                                       *)
THEOREM TypeCorrect == Spec => []TypeOK
<1>1. IInv => TypeOK
  BY DEF IInv
<1> QED BY <1>1, Invariance, PTL

(* No thread uses a socket it does not have.                               *)
THEOREM SocketsDisciplined == Spec => []SocketDiscipline
<1>1. IInv => SocketDiscipline
  BY DEF IInv
<1> QED BY <1>1, Invariance, PTL

(* Normal exit leaves nothing behind, whichever signals came when.         *)
THEOREM ExitIsClean == Spec => []CleanExit
<1>1. IInv => CleanExit
  BY DEF IInv
<1> QED BY <1>1, Invariance, PTL

(* What was sent and lost is what came out of the buffer, in order.        *)
THEOREM FramesInOrder == Spec => []FramesAccounted
<1>1. IInv => FramesAccounted
  <2>1. SUFFICES ASSUME IInv PROVE FramesAccounted
    OBVIOUS
  <2>2. Len(taken) \in Nat /\ Len(delivered) \in Nat
    BY DEF IInv, TypeOK, Ring!TypeOK
  <2> QED BY <2>1, <2>2 DEF IInv, FramesInv, InHand, FramesAccounted
<1> QED BY <1>1, Invariance, PTL

(* From the camera to the socket: what the network thread sent and lost is *)
(* a prefix of what the capture thread put into the ring buffer.           *)
SentAsGrabbed ==
  /\ Len(taken) <= Len(accepted)
  /\ \A i \in 1 .. Len(taken) : taken[i] = accepted[i]

THEOREM EndToEnd == Spec => []SentAsGrabbed
<1>1. IInv => SentAsGrabbed
  <2>1. SUFFICES ASSUME IInv PROVE SentAsGrabbed
    OBVIOUS
  <2>2. /\ Len(taken) \in Nat /\ Len(delivered) \in Nat /\ Len(accepted) \in Nat
        /\ count_ \in Nat
    BY <2>1 DEF IInv, TypeOK, Ring!TypeOK
  <2>3. /\ Len(accepted) = Len(delivered) + count_
        /\ \A i \in 1 .. Len(delivered) : delivered[i] = accepted[i]
    BY <2>1 DEF IInv, Ring!IInv, Ring!WindowInv
  <2>4. FramesInv
    BY <2>1 DEF IInv
  <2> QED BY ONLY <2>2, <2>3, <2>4 DEF FramesInv, SentAsGrabbed
<1> QED BY <1>1, Invariance, PTL

(* The threads use the ring buffer as its own specification has it, so     *)
(* what is proved of RingBuffer holds in the gateway.                      *)
THEOREM GatewayUsesRing == Spec => Ring!Spec
<1>1. Init => Ring!Init
  BY DEF Init
<1> QED BY <1>1, StepIsRingStep, PTL DEF Spec, Ring!Spec

=============================================================================
