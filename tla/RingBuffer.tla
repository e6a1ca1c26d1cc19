----------------------------- MODULE RingBuffer -----------------------------
(***************************************************************************)
(* The class RingBuffer of gateway/src/ring_buffer.h: a fixed array of     *)
(* RING_BUF_COUNT frames, one mutex, two condition variables.  push()      *)
(* blocks while the array is full, pop() while it is empty, close() wakes  *)
(* everybody.                                                              *)
(*                                                                         *)
(* A method call is a path through pc[c], the position of caller c:        *)
(*                                                                         *)
(*   push   push_lock -> push_pred -> push_commit -> unlock_true -> true   *)
(*   pop    pop_lock  -> pop_pred  -> pop_commit  -> unlock_true -> true   *)
(*   close  close_lock -> close_set -> unlock_true -> true                 *)
(*                                                                         *)
(* with the detours push_pred -> push_wait -> push_lock (a full array),    *)
(* pop_pred -> pop_wait -> pop_lock (an empty one) and the refusals        *)
(* *_pred -> unlock_false -> false (a closed one).  The threads blocked    *)
(* in a condition variable are those whose pc is the wait position.        *)
(*                                                                         *)
(* The copy of the frame and the update of the indices are separate steps, *)
(* as nothing but the mutex keeps another thread from running between      *)
(* them.  A frame is an opaque value that includes its length: grabbed     *)
(* frames are at most VCAP_FRAME_SIZE bytes, which equals FRAME_BUF_SIZE,  *)
(* so the truncation in push() never cuts one.                             *)
(***************************************************************************)
EXTENDS Integers, Sequences, FiniteSets

CONSTANTS
  Producers,       \* threads that call push()
  Consumers,       \* threads that call pop()
  Closers,         \* threads and signal handlers that call close()
  Frames,          \* the frames that are pushed
  RING_BUF_COUNT,  \* slots of the array
  MaxFrames,       \* bound: push() is called until this many were accepted
  NoOwner,         \* the owner of a free mutex
  NoFrame          \* the content of a buffer nothing was copied to

Callers == Producers \cup Consumers \cup Closers

ASSUME CountAssumption == RING_BUF_COUNT \in Nat \ {0}
ASSUME OwnerAssumption == NoOwner \notin Callers
ASSUME FrameAssumption == NoFrame \notin Frames
ASSUME BoundAssumption == MaxFrames \in Nat
ASSUME ThreadAssumption == IsFiniteSet(Producers) /\ IsFiniteSet(Consumers)

VARIABLES
  mutex_,     \* the caller that holds the mutex, or NoOwner
  head_,      \* the slot pop() reads next
  tail_,      \* the slot push() writes next
  count_,     \* how many slots are occupied
  closed_,    \* close() has taken effect
  buf_,       \* the frame in each slot
  data,       \* each caller's own frame buffer, the argument of push and pop
  pc,         \* each caller's position in the method it calls
  accepted,   \* history: the frames pushed, in the order of their commits
  delivered   \* history: the frames popped, in the order of their commits

ringVars == <<mutex_, head_, tail_, count_, closed_, buf_, data, pc>>
vars == <<ringVars, accepted, delivered>>

Slots == 0 .. RING_BUF_COUNT - 1

(* Mutant: the index is not wrapped. *)
NextSlotUnwrapped(i) == i + 1

(* (i + 1) % RING_BUF_COUNT, the successor of a slot. *)
NextSlot(i) == (i + 1) % RING_BUF_COUNT

Init ==
  /\ mutex_ = NoOwner
  /\ head_ = 0
  /\ tail_ = 0
  /\ count_ = 0
  /\ closed_ = FALSE
  /\ buf_ = [i \in Slots |-> NoFrame]
  /\ data = [c \in Callers |-> NoFrame]
  /\ pc = [c \in Callers |-> "idle"]
  /\ accepted = <<>>
  /\ delivered = <<>>

(* The caller is outside the class; "true" and "false" are the result of   *)
(* its latest call.                                                        *)
Returned(c) == pc[c] \in {"idle", "true", "false"}

Goto(c, place) == pc' = [pc EXCEPT ![c] = place]

-----------------------------------------------------------------------------
(* Calls.  The loops of the gateway's threads leave on the first refusal,  *)
(* so a caller that was told FALSE does not come back.                     *)

CallPush(c, f) ==
  /\ Returned(c)
  /\ pc[c] # "false"
  /\ Len(accepted) < MaxFrames
  /\ data' = [data EXCEPT ![c] = f]
  /\ Goto(c, "push_lock")
  /\ UNCHANGED <<mutex_, head_, tail_, count_, closed_, buf_, accepted, delivered>>

CallPop(c) ==
  /\ Returned(c)
  /\ pc[c] # "false"
  /\ Goto(c, "pop_lock")
  /\ UNCHANGED <<mutex_, head_, tail_, count_, closed_, buf_, data, accepted, delivered>>

CallClose(c) ==
  /\ Returned(c)
  /\ Goto(c, "close_lock")
  /\ UNCHANGED <<mutex_, head_, tail_, count_, closed_, buf_, data, accepted, delivered>>

-----------------------------------------------------------------------------
(* The mutex and the condition variables. *)

AfterLock == [push_lock |-> "push_pred", pop_lock |-> "pop_pred", close_lock |-> "close_set"]

Lock(c) ==
  /\ pc[c] \in DOMAIN AfterLock
  /\ mutex_ = NoOwner
  /\ mutex_' = c
  /\ Goto(c, AfterLock[pc[c]])
  /\ UNCHANGED <<head_, tail_, count_, closed_, buf_, data, accepted, delivered>>

AfterUnlock == [unlock_true |-> "true", unlock_false |-> "false"]

Unlock(c) ==
  /\ pc[c] \in DOMAIN AfterUnlock
  /\ mutex_' = NoOwner
  /\ Goto(c, AfterUnlock[pc[c]])
  /\ UNCHANGED <<head_, tail_, count_, closed_, buf_, data, accepted, delivered>>

(* cv.wait(): release the mutex and block, in one step. *)
Block(c, place) ==
  /\ mutex_' = NoOwner
  /\ Goto(c, place)
  /\ UNCHANGED <<head_, tail_, count_, closed_, buf_, data, accepted, delivered>>

(* A thread woken in a condition variable competes for the mutex again and *)
(* then re-evaluates its predicate.                                        *)
AfterWake == [push_wait |-> "push_lock", pop_wait |-> "pop_lock"]

WaitersAt(place) == {w \in Callers : pc[w] = place}

(* notify_one(): wake one of the waiters, if any; caller c moves on. *)
NotifyOne(c, waitPlace, next) ==
  \/ /\ WaitersAt(waitPlace) = {}
     /\ Goto(c, next)
  \/ \E w \in WaitersAt(waitPlace) :
       pc' = [pc EXCEPT ![c] = next, ![w] = AfterWake[waitPlace]]

(* Mutant: only the consumers are notified. *)
NotifyConsumersOnly(c, next) ==
  pc' = [w \in Callers |->
           IF w = c THEN next ELSE IF pc[w] = "pop_wait" THEN "pop_lock" ELSE pc[w]]

(* notify_all() on both condition variables; caller c moves on. *)
NotifyEverybody(c, next) ==
  pc' = [w \in Callers |->
           IF w = c THEN next
           ELSE IF pc[w] \in DOMAIN AfterWake THEN AfterWake[pc[w]]
           ELSE pc[w]]

(* The standard lets wait() return without a notification. *)
SpuriousWake(c) ==
  /\ pc[c] \in DOMAIN AfterWake
  /\ Goto(c, AfterWake[pc[c]])
  /\ UNCHANGED <<mutex_, head_, tail_, count_, closed_, buf_, data, accepted, delivered>>

-----------------------------------------------------------------------------
(* push() *)

PushWait(c) ==
  /\ pc[c] = "push_pred"
  /\ ~(count_ < RING_BUF_COUNT \/ closed_)
  /\ Block(c, "push_wait")

PushRefuse(c) ==
  /\ pc[c] = "push_pred"
  /\ closed_
  /\ Goto(c, "unlock_false")
  /\ UNCHANGED <<mutex_, head_, tail_, count_, closed_, buf_, data, accepted, delivered>>

(* Mutants: the check of closed_ after the wait is missing; the predicate  *)
(* compares with <=.                                                       *)
PushCopyUnchecked(c) ==
  /\ pc[c] = "push_pred"
  /\ count_ < RING_BUF_COUNT
  /\ buf_' = [buf_ EXCEPT ![tail_] = data[c]]
  /\ Goto(c, "push_commit")
  /\ UNCHANGED <<mutex_, head_, tail_, count_, closed_, data, accepted, delivered>>

PushCopyOverfull(c) ==
  /\ pc[c] = "push_pred"
  /\ count_ <= RING_BUF_COUNT
  /\ ~closed_
  /\ buf_' = [buf_ EXCEPT ![tail_] = data[c]]
  /\ Goto(c, "push_commit")
  /\ UNCHANGED <<mutex_, head_, tail_, count_, closed_, data, accepted, delivered>>

PushCopy(c) ==
  /\ pc[c] = "push_pred"
  /\ count_ < RING_BUF_COUNT
  /\ ~closed_
  /\ buf_' = [buf_ EXCEPT ![tail_] = data[c]]
  /\ Goto(c, "push_commit")
  /\ UNCHANGED <<mutex_, head_, tail_, count_, closed_, data, accepted, delivered>>

PushCommit(c) ==
  /\ pc[c] = "push_commit"
  /\ tail_' = NextSlot(tail_)
  /\ count_' = count_ + 1
  /\ accepted' = Append(accepted, data[c])
  /\ NotifyOne(c, "pop_wait", "unlock_true")
  /\ UNCHANGED <<mutex_, head_, closed_, buf_, data, delivered>>

-----------------------------------------------------------------------------
(* pop() *)

PopWait(c) ==
  /\ pc[c] = "pop_pred"
  /\ ~(count_ > 0 \/ closed_)
  /\ Block(c, "pop_wait")

(* Mutant: a closed buffer refuses whatever it still holds. *)
PopRefuseEarly(c) ==
  /\ pc[c] = "pop_pred"
  /\ closed_
  /\ Goto(c, "unlock_false")
  /\ UNCHANGED <<mutex_, head_, tail_, count_, closed_, buf_, data, accepted, delivered>>

PopRefuse(c) ==
  /\ pc[c] = "pop_pred"
  /\ closed_
  /\ count_ = 0
  /\ Goto(c, "unlock_false")
  /\ UNCHANGED <<mutex_, head_, tail_, count_, closed_, buf_, data, accepted, delivered>>

PopCopy(c) ==
  /\ pc[c] = "pop_pred"
  /\ count_ > 0
  /\ data' = [data EXCEPT ![c] = buf_[head_]]
  /\ Goto(c, "pop_commit")
  /\ UNCHANGED <<mutex_, head_, tail_, count_, closed_, buf_, accepted, delivered>>

(* Mutants: nobody is notified; the head does not move on. *)
PopCommitSilent(c) ==
  /\ pc[c] = "pop_commit"
  /\ head_' = NextSlot(head_)
  /\ count_' = count_ - 1
  /\ delivered' = Append(delivered, data[c])
  /\ Goto(c, "unlock_true")
  /\ UNCHANGED <<mutex_, tail_, closed_, buf_, data, accepted>>

PopCommitStay(c) ==
  /\ pc[c] = "pop_commit"
  /\ count_' = count_ - 1
  /\ delivered' = Append(delivered, data[c])
  /\ NotifyOne(c, "push_wait", "unlock_true")
  /\ UNCHANGED <<mutex_, head_, tail_, closed_, buf_, data, accepted>>

PopCommit(c) ==
  /\ pc[c] = "pop_commit"
  /\ head_' = NextSlot(head_)
  /\ count_' = count_ - 1
  /\ delivered' = Append(delivered, data[c])
  /\ NotifyOne(c, "push_wait", "unlock_true")
  /\ UNCHANGED <<mutex_, tail_, closed_, buf_, data, accepted>>

-----------------------------------------------------------------------------
(* close() *)

CloseSet(c) ==
  /\ pc[c] = "close_set"
  /\ closed_' = TRUE
  /\ NotifyEverybody(c, "unlock_true")
  /\ UNCHANGED <<mutex_, head_, tail_, count_, buf_, data, accepted, delivered>>

-----------------------------------------------------------------------------
(* The steps of a method in progress. *)
MethodStep(c) ==
  \/ Lock(c) \/ Unlock(c)
  \/ PushWait(c) \/ PushRefuse(c) \/ PushCopy(c) \/ PushCommit(c)
  \/ PopWait(c) \/ PopRefuse(c) \/ PopCopy(c) \/ PopCommit(c)
  \/ CloseSet(c)

Next ==
  \/ \E c \in Producers, f \in Frames : CallPush(c, f)
  \/ \E c \in Consumers : CallPop(c)
  \/ \E c \in Closers : CallClose(c)
  \/ \E c \in Callers : MethodStep(c) \/ SpuriousWake(c)

Spec == Init /\ [][Next]_vars

(* A thread inside a method keeps running, and one that waits for the      *)
(* mutex gets it if it is released again and again: the lock is only ever  *)
(* held for the few steps of one method.  Nobody has to call anything and  *)
(* no wait has to end by itself.                                           *)
Fairness ==
  \A c \in Callers : WF_vars(MethodStep(c)) /\ SF_vars(Lock(c))

FairSpec == Spec /\ Fairness

-----------------------------------------------------------------------------
(* Properties *)

Places ==
  {"idle", "true", "false", "push_wait", "pop_wait",
   "push_lock", "pop_lock", "close_lock", "push_pred", "push_commit",
   "pop_pred", "pop_commit", "close_set", "unlock_true", "unlock_false"}

TypeOK ==
  /\ mutex_ \in Callers \cup {NoOwner}
  /\ head_ \in Slots
  /\ tail_ \in Slots
  /\ count_ \in 0 .. RING_BUF_COUNT
  /\ closed_ \in BOOLEAN
  /\ buf_ \in [Slots -> Frames \cup {NoFrame}]
  /\ data \in [Callers -> Frames \cup {NoFrame}]
  /\ pc \in [Callers -> Places]
  /\ accepted \in Seq(Frames)
  /\ delivered \in Seq(Frames)

(* ring_buffer.h promises a thread-safe queue: whatever the interleaving,  *)
(* the popped frames are the pushed frames, in the order in which they     *)
(* were pushed, none skipped, repeated or torn, and no more of them are    *)
(* outstanding than there are slots.                                       *)
FIFO ==
  /\ Len(delivered) <= Len(accepted)
  /\ Len(accepted) - Len(delivered) <= RING_BUF_COUNT
  /\ \A i \in 1 .. Len(delivered) : delivered[i] = accepted[i]

(* A frame is never taken in once close() took effect, not even by a push  *)
(* that had found room before.                                             *)
NothingAcceptedAfterClose == [][closed_ => accepted' = accepted]_vars

(* pop() on a closed buffer hands out what is left before it refuses: a    *)
(* consumer that was told FALSE has missed nothing that any producer put.  *)
RefusedOnlyWhenDrained ==
  \A c \in Consumers \ Producers : pc[c] = "false" => delivered = accepted

(* No lost wake-up: while a producer sleeps although there is room, or a   *)
(* consumer although there is a frame, another thread of that side has     *)
(* been woken and will re-examine the buffer; and nobody sleeps on a       *)
(* closed buffer.                                                          *)
NoLostWakeup ==
  /\ (WaitersAt("push_wait") # {} /\ count_ < RING_BUF_COUNT) =>
       \E c \in Producers : pc[c] \in {"push_lock", "push_pred", "push_commit"}
  /\ (WaitersAt("pop_wait") # {} /\ count_ > 0) =>
       \E c \in Consumers : pc[c] \in {"pop_lock", "pop_pred", "pop_commit"}
  /\ closed_ => WaitersAt("push_wait") \cup WaitersAt("pop_wait") = {}

(* close() wakes all waiting threads (ring_buffer.h:53): every method that *)
(* is in progress when the buffer is closed, or is called later, returns.  *)
CloseReleasesEverybody == \A c \in Callers : (closed_ /\ ~Returned(c)) ~> Returned(c)

-----------------------------------------------------------------------------
(* The inductive invariant behind the properties. *)

Critical ==
  {"push_pred", "push_commit", "pop_pred", "pop_commit", "close_set",
   "unlock_true", "unlock_false"}

(* Whoever is in a critical section holds the mutex, so at most one is. *)
MutexInv == \A c \in Callers : pc[c] \in Critical => mutex_ = c

(* The slot at distance i from the head. *)
SlotAt(i) == IF head_ + i < RING_BUF_COUNT THEN head_ + i ELSE head_ + i - RING_BUF_COUNT

(* The occupied slots start at head_, end before tail_ and hold the        *)
(* accepted frames that were not delivered yet.                            *)
WindowInv ==
  /\ tail_ = SlotAt(count_)
  /\ Len(accepted) = Len(delivered) + count_
  /\ \A i \in 0 .. count_ - 1 : buf_[SlotAt(i)] = accepted[Len(delivered) + 1 + i]
  /\ \A i \in 1 .. Len(delivered) : delivered[i] = accepted[i]

(* Between the copy and the commit what the predicate established still    *)
(* holds, and the copy is the frame that is committed.                     *)
CopyInv ==
  /\ \A c \in Callers : pc[c] = "push_commit" =>
       ~closed_ /\ count_ < RING_BUF_COUNT /\ buf_[tail_] = data[c]
  /\ \A c \in Callers : pc[c] = "pop_commit" =>
       count_ > 0 /\ data[c] = buf_[head_]

PushPlaces == {"push_lock", "push_wait", "push_pred", "push_commit"}

(* Only producers push, and who pushes brings a frame. *)
ArgumentInv ==
  \A c \in Callers : pc[c] \in PushPlaces => c \in Producers /\ data[c] \in Frames

(* A refusal means that the buffer is closed, and to one who does not push *)
(* that it is drained; it stays both.                                      *)
RefuseInv ==
  \A c \in Callers \ Producers :
    pc[c] \in {"unlock_false", "false"} => closed_ /\ delivered = accepted

IInv == TypeOK /\ MutexInv /\ WindowInv /\ CopyInv /\ ArgumentInv /\ RefuseInv

(* The threads that are on their way to look at the buffer, or have found  *)
(* room or a frame and not taken it yet.                                   *)
Pushing == {c \in Producers : pc[c] \in {"push_lock", "push_pred", "push_commit"}}
Popping == {c \in Consumers : pc[c] \in {"pop_lock", "pop_pred", "pop_commit"}}

(* As long as somebody sleeps, there are at least as many of them as there *)
(* are free slots, or frames.                                              *)
WakeInv ==
  /\ \A c \in Callers :
       pc[c] \in {"pop_lock", "pop_wait", "pop_pred", "pop_commit"} => c \in Consumers
  /\ closed_ => WaitersAt("push_wait") = {} /\ WaitersAt("pop_wait") = {}
  /\ WaitersAt("push_wait") # {} => RING_BUF_COUNT - count_ <= Cardinality(Pushing)
  /\ WaitersAt("pop_wait") # {} => count_ <= Cardinality(Popping)

(* The ring buffer implements the closable bounded FIFO. *)
Queue == INSTANCE FrameQueue WITH Capacity <- RING_BUF_COUNT, closed <- closed_

QueueSpec == Queue!Spec

=============================================================================
