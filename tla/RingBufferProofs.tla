-------------------------- MODULE RingBufferProofs --------------------------
(***************************************************************************)
(* Proofs about RingBuffer for every number of threads, every set of       *)
(* frames and every RING_BUF_COUNT: the type invariant, FIFO order, what a *)
(* refusal of pop() means, that nothing is accepted after close(), the     *)
(* refinement of FrameQueue, and that no wake-up is lost.                  *)
(***************************************************************************)
EXTENDS RingBuffer, SequenceTheorems, FiniteSetTheorems, TLAPS

(* The index arithmetic without the modulus. *)
LEMMA NextSlotValue ==
  ASSUME NEW i \in Slots
  PROVE  NextSlot(i) = IF i = RING_BUF_COUNT - 1 THEN 0 ELSE i + 1
BY CountAssumption DEF Slots, NextSlot

LEMMA NextSlotInSlots ==
  ASSUME NEW i \in Slots
  PROVE  NextSlot(i) \in Slots
BY NextSlotValue, CountAssumption DEF Slots

LEMMA InitIInv == Init => IInv
<1> SUFFICES ASSUME Init PROVE IInv
  OBVIOUS
<1> USE CountAssumption DEF Init
<1>1. TypeOK
  BY DEF TypeOK, Slots, Places
<1>2. MutexInv /\ CopyInv /\ ArgumentInv /\ RefuseInv
  BY DEF MutexInv, Critical, CopyInv, ArgumentInv, PushPlaces, RefuseInv
<1>3. WindowInv
  BY DEF WindowInv, SlotAt
<1> QED BY <1>1, <1>2, <1>3 DEF IInv

-----------------------------------------------------------------------------
(* Steps.  A step that touches neither the slots nor the histories keeps   *)
(* the window.                                                             *)
LEMMA WindowStays ==
  ASSUME WindowInv, UNCHANGED <<head_, tail_, count_, buf_, accepted, delivered>>
  PROVE  WindowInv'
BY DEF WindowInv, SlotAt

(* The calls: the caller gets its argument and a position in front of the  *)
(* mutex.                                                                  *)
LEMMA CallIInv ==
  ASSUME IInv,
         \/ \E c \in Producers, f \in Frames : CallPush(c, f)
         \/ \E c \in Consumers : CallPop(c)
         \/ \E c \in Closers : CallClose(c)
  PROVE  IInv'
<1> USE DEF IInv, Callers, Returned, Goto
<1>1. TypeOK'
  BY DEF TypeOK, Places, CallPush, CallPop, CallClose
<1>2. MutexInv'
  BY DEF TypeOK, MutexInv, Critical, CallPush, CallPop, CallClose
<1>3. WindowInv'
  BY WindowStays DEF CallPush, CallPop, CallClose
<1>4. CopyInv'
  BY DEF TypeOK, CopyInv, CallPush, CallPop, CallClose
<1>5. ArgumentInv'
  BY DEF TypeOK, ArgumentInv, PushPlaces, CallPush, CallPop, CallClose
<1>6. RefuseInv'
  BY DEF TypeOK, RefuseInv, CallPush, CallPop, CallClose
<1> QED BY <1>1, <1>2, <1>3, <1>4, <1>5, <1>6

(* Taking and releasing the mutex, waiting and waking up.                  *)
LEMMA MutexIInv ==
  ASSUME IInv, NEW c \in Callers,
         Lock(c) \/ Unlock(c) \/ PushWait(c) \/ PopWait(c) \/ SpuriousWake(c)
  PROVE  IInv'
<1> USE DEF IInv, Goto, Block, AfterLock, AfterUnlock, AfterWake,
            Lock, Unlock, PushWait, PopWait, SpuriousWake
<1>1. TypeOK'
  BY DEF TypeOK, Places
<1>2. MutexInv'
  BY OwnerAssumption DEF TypeOK, MutexInv, Critical
<1>3. WindowInv'
  BY WindowStays
<1>4. CopyInv'
  BY DEF TypeOK, CopyInv
<1>5. ArgumentInv'
  BY DEF TypeOK, ArgumentInv, PushPlaces
<1>6. RefuseInv'
  BY DEF TypeOK, RefuseInv
<1> QED BY <1>1, <1>2, <1>3, <1>4, <1>5, <1>6

(* Waking waiters only sends them back to the mutex: whatever is known of  *)
(* a caller outside the wait positions stays known.                        *)
LEMMA NotifyOneEffect ==
  ASSUME pc \in [Callers -> Places], NEW c \in Callers, pc[c] \notin DOMAIN AfterWake,
         NEW waitPlace \in DOMAIN AfterWake, NEW next \in Places,
         NotifyOne(c, waitPlace, next)
  PROVE  /\ pc' \in [Callers -> Places]
         /\ pc'[c] = next
         /\ \A w \in Callers \ {c} :
              \/ pc'[w] = pc[w]
              \/ pc[w] = "push_wait" /\ pc'[w] = "push_lock"
              \/ pc[w] = "pop_wait" /\ pc'[w] = "pop_lock"
BY DEF NotifyOne, WaitersAt, AfterWake, Goto, Places

LEMMA NotifyEverybodyEffect ==
  ASSUME pc \in [Callers -> Places], NEW c \in Callers, NEW next \in Places,
         NotifyEverybody(c, next)
  PROVE  /\ pc' \in [Callers -> Places]
         /\ pc'[c] = next
         /\ \A w \in Callers \ {c} :
              \/ pc'[w] = pc[w]
              \/ pc[w] = "push_wait" /\ pc'[w] = "push_lock"
              \/ pc[w] = "pop_wait" /\ pc'[w] = "pop_lock"
BY DEF NotifyEverybody, AfterWake, Places

LEMMA RefuseIInv ==
  ASSUME IInv, NEW c \in Callers, PushRefuse(c) \/ PopRefuse(c)
  PROVE  IInv'
<1> USE DEF IInv, Goto, PushRefuse, PopRefuse
<1>1. TypeOK'
  BY DEF TypeOK, Places
<1>2. MutexInv'
  BY DEF TypeOK, MutexInv, Critical
<1>3. WindowInv'
  BY WindowStays
<1>4. CopyInv'
  BY DEF TypeOK, CopyInv
<1>5. ArgumentInv'
  BY DEF TypeOK, ArgumentInv, PushPlaces
<1>6. RefuseInv'
  <2>1. CASE PushRefuse(c)
    \* only producers get there, and RefuseInv is about the others
    BY <2>1 DEF TypeOK, RefuseInv, ArgumentInv, PushPlaces
  <2>2. CASE PopRefuse(c)
    <3>1. delivered = accepted
      BY <2>2, SeqEqual DEF TypeOK, WindowInv
    <3> QED BY <2>2, <3>1 DEF TypeOK, RefuseInv
  <2> QED BY <2>1, <2>2
<1> QED BY <1>1, <1>2, <1>3, <1>4, <1>5, <1>6

LEMMA CloseIInv ==
  ASSUME IInv, NEW c \in Callers, CloseSet(c)
  PROVE  IInv'
<1> USE DEF IInv, CloseSet
<1>1. /\ pc' \in [Callers -> Places]
      /\ pc'[c] = "unlock_true"
      /\ \A w \in Callers \ {c} :
           \/ pc'[w] = pc[w]
           \/ pc[w] = "push_wait" /\ pc'[w] = "push_lock"
           \/ pc[w] = "pop_wait" /\ pc'[w] = "pop_lock"
  <2>1. "unlock_true" \in Places
    BY DEF Places
  <2> QED BY <2>1, NotifyEverybodyEffect DEF TypeOK
<1>2. TypeOK'
  BY <1>1 DEF TypeOK
<1>3. MutexInv'
  BY <1>1 DEF MutexInv, Critical
<1>4. WindowInv'
  BY WindowStays
<1>5. CopyInv'
  \* the closer holds the mutex, so nobody is between copy and commit
  BY <1>1 DEF CopyInv, MutexInv, Critical
<1>6. ArgumentInv'
  BY <1>1 DEF ArgumentInv, PushPlaces
<1>7. RefuseInv'
  BY <1>1 DEF RefuseInv
<1> QED BY <1>2, <1>3, <1>4, <1>5, <1>6, <1>7

-----------------------------------------------------------------------------
(* The copies.  push() writes the slot after the window, pop() only reads. *)
LEMMA PushCopyIInv ==
  ASSUME IInv, NEW c \in Callers, PushCopy(c)
  PROVE  IInv'
<1> USE DEF IInv, Goto, PushCopy
<1>1. TypeOK'
  BY DEF TypeOK, Places, ArgumentInv, PushPlaces
<1>2. MutexInv'
  BY DEF TypeOK, MutexInv, Critical
<1>3. WindowInv'
  <2>1. \A i \in 0 .. count_ - 1 : SlotAt(i) \in Slots /\ SlotAt(i) # tail_
    BY CountAssumption DEF TypeOK, Slots, WindowInv, SlotAt
  <2> QED BY <2>1 DEF TypeOK, WindowInv, SlotAt
<1>4. CopyInv'
  \* nobody else is between copy and commit
  BY DEF TypeOK, CopyInv, MutexInv, Critical
<1>5. ArgumentInv'
  BY DEF TypeOK, ArgumentInv, PushPlaces
<1>6. RefuseInv'
  BY DEF TypeOK, RefuseInv
<1> QED BY <1>1, <1>2, <1>3, <1>4, <1>5, <1>6

LEMMA PopCopyIInv ==
  ASSUME IInv, NEW c \in Callers, PopCopy(c)
  PROVE  IInv'
<1> USE DEF IInv, Goto, PopCopy
<1>1. TypeOK'
  BY DEF TypeOK, Places
<1>2. MutexInv'
  BY DEF TypeOK, MutexInv, Critical
<1>3. WindowInv'
  BY WindowStays
<1>4. CopyInv'
  BY DEF TypeOK, CopyInv, MutexInv, Critical
<1>5. ArgumentInv'
  BY DEF TypeOK, ArgumentInv, PushPlaces
<1>6. RefuseInv'
  BY DEF TypeOK, RefuseInv
<1> QED BY <1>1, <1>2, <1>3, <1>4, <1>5, <1>6

-----------------------------------------------------------------------------
(* The commits.  The window grows at its end by the frame that was copied  *)
(* there, or shrinks at its start by the frame that was copied out.        *)
LEMMA PushCommitIInv ==
  ASSUME IInv, NEW c \in Callers, PushCommit(c)
  PROVE  IInv'
<1> USE DEF IInv, PushCommit
<1>1. /\ pc' \in [Callers -> Places]
      /\ pc'[c] = "unlock_true"
      /\ \A w \in Callers \ {c} :
           \/ pc'[w] = pc[w]
           \/ pc[w] = "push_wait" /\ pc'[w] = "push_lock"
           \/ pc[w] = "pop_wait" /\ pc'[w] = "pop_lock"
  <2>1. "unlock_true" \in Places /\ "pop_wait" \in DOMAIN AfterWake /\ pc[c] \notin DOMAIN AfterWake
    BY DEF Places, AfterWake
  <2> QED BY <2>1, NotifyOneEffect DEF TypeOK
<1>2. /\ data[c] \in Frames
      /\ ~closed_
      /\ count_ < RING_BUF_COUNT
      /\ buf_[tail_] = data[c]
  BY DEF ArgumentInv, PushPlaces, CopyInv
<1>3. /\ accepted' \in Seq(Frames)
      /\ Len(accepted') = Len(accepted) + 1
      /\ accepted'[Len(accepted) + 1] = data[c]
      /\ \A i \in 1 .. Len(accepted) : accepted'[i] = accepted[i]
  BY <1>2, AppendProperties DEF TypeOK
<1>4. TypeOK'
  <2>1. tail_' \in Slots /\ count_' \in 0 .. RING_BUF_COUNT
    BY <1>2, NextSlotInSlots, CountAssumption DEF TypeOK
  <2> QED BY <1>1, <1>3, <2>1 DEF TypeOK
<1>5. MutexInv'
  BY <1>1 DEF MutexInv, Critical
<1>6. WindowInv'
  <2>1. tail_' = SlotAt(count_)'
    BY <1>2, NextSlotValue, CountAssumption DEF TypeOK, Slots, WindowInv, SlotAt
  <2>2. Len(accepted') = Len(delivered') + count_'
    BY <1>3 DEF TypeOK, WindowInv
  <2>3. ASSUME NEW i \in 0 .. count_' - 1
        PROVE  (buf_[SlotAt(i)] = accepted[Len(delivered) + 1 + i])'
    <3>1. SlotAt(i)' = SlotAt(i)
      BY DEF SlotAt
    <3>2. CASE i = count_
      BY <1>2, <1>3, <3>1, <3>2 DEF TypeOK, WindowInv
    <3>3. CASE i # count_
      BY <1>3, <3>1, <3>3 DEF TypeOK, WindowInv
    <3> QED BY <3>2, <3>3
  <2>4. \A i \in 1 .. Len(delivered') : delivered'[i] = accepted'[i]
    BY <1>3 DEF TypeOK, WindowInv
  <2> QED BY <2>1, <2>2, <2>3, <2>4 DEF WindowInv
<1>7. CopyInv'
  BY <1>1 DEF CopyInv, MutexInv, Critical
<1>8. ArgumentInv'
  BY <1>1 DEF ArgumentInv, PushPlaces
<1>9. RefuseInv'
  BY <1>1, <1>2 DEF RefuseInv
<1> QED BY <1>4, <1>5, <1>6, <1>7, <1>8, <1>9

LEMMA PopCommitIInv ==
  ASSUME IInv, NEW c \in Callers, PopCommit(c)
  PROVE  IInv'
<1> USE DEF IInv, PopCommit
<1>1. /\ pc' \in [Callers -> Places]
      /\ pc'[c] = "unlock_true"
      /\ \A w \in Callers \ {c} :
           \/ pc'[w] = pc[w]
           \/ pc[w] = "push_wait" /\ pc'[w] = "push_lock"
           \/ pc[w] = "pop_wait" /\ pc'[w] = "pop_lock"
  <2>1. "unlock_true" \in Places /\ "push_wait" \in DOMAIN AfterWake /\ pc[c] \notin DOMAIN AfterWake
    BY DEF Places, AfterWake
  <2> QED BY <2>1, NotifyOneEffect DEF TypeOK
<1>2. /\ count_ > 0
      /\ data[c] = accepted[Len(delivered) + 1]
  <2>1. count_ > 0 /\ data[c] = buf_[head_]
    BY DEF CopyInv
  <2>2. 0 \in 0 .. count_ - 1 /\ SlotAt(0) = head_ /\ Len(delivered) + 1 + 0 = Len(delivered) + 1
    BY <2>1, CountAssumption DEF TypeOK, Slots, SlotAt
  <2> QED BY <2>1, <2>2 DEF WindowInv
<1>3. /\ data[c] \in Frames
      /\ delivered' \in Seq(Frames)
      /\ Len(delivered') = Len(delivered) + 1
      /\ delivered'[Len(delivered) + 1] = data[c]
      /\ \A i \in 1 .. Len(delivered) : delivered'[i] = delivered[i]
  <2>1. data[c] \in Frames
    BY <1>2, ElementOfSeq DEF TypeOK, WindowInv
  <2> QED BY <2>1, AppendProperties DEF TypeOK
<1>4. TypeOK'
  <2>1. head_' \in Slots /\ count_' \in 0 .. RING_BUF_COUNT
    BY <1>2, NextSlotInSlots, CountAssumption DEF TypeOK
  <2> QED BY <1>1, <1>3, <2>1 DEF TypeOK
<1>5. MutexInv'
  BY <1>1 DEF MutexInv, Critical
<1>6. WindowInv'
  <2>1. ASSUME NEW i \in Nat, i + 1 <= count_
        PROVE  SlotAt(i)' = SlotAt(i + 1)
    BY <2>1, NextSlotValue, CountAssumption DEF TypeOK, Slots, SlotAt
  <2>2. tail_' = SlotAt(count_)'
    BY <1>2, NextSlotValue, CountAssumption DEF TypeOK, Slots, WindowInv, SlotAt
  <2>3. Len(accepted') = Len(delivered') + count_'
    BY <1>3 DEF TypeOK, WindowInv
  <2>4. ASSUME NEW i \in 0 .. count_' - 1
        PROVE  (buf_[SlotAt(i)] = accepted[Len(delivered) + 1 + i])'
    <3>1. i + 1 \in 0 .. count_ - 1 /\ SlotAt(i)' = SlotAt(i + 1)
      BY <2>1 DEF TypeOK
    <3> QED BY <1>3, <3>1 DEF TypeOK, WindowInv
  <2>5. \A i \in 1 .. Len(delivered') : delivered'[i] = accepted'[i]
    BY <1>2, <1>3 DEF TypeOK, WindowInv
  <2> QED BY <2>2, <2>3, <2>4, <2>5 DEF WindowInv
<1>7. CopyInv'
  BY <1>1 DEF CopyInv, MutexInv, Critical
<1>8. ArgumentInv'
  BY <1>1 DEF ArgumentInv, PushPlaces
<1>9. RefuseInv'
  \* a drained buffer has nothing to pop
  <2>1. delivered # accepted
    BY <1>2 DEF TypeOK, WindowInv
  <2> QED BY <1>1, <2>1 DEF RefuseInv
<1> QED BY <1>4, <1>5, <1>6, <1>7, <1>8, <1>9

-----------------------------------------------------------------------------
LEMMA NextIInv == IInv /\ [Next]_vars => IInv'
<1> SUFFICES ASSUME IInv, [Next]_vars PROVE IInv'
  OBVIOUS
<1>1. CASE \/ \E c \in Producers, f \in Frames : CallPush(c, f)
           \/ \E c \in Consumers : CallPop(c)
           \/ \E c \in Closers : CallClose(c)
  BY <1>1, CallIInv
<1>2. ASSUME NEW c \in Callers, MethodStep(c) \/ SpuriousWake(c) PROVE IInv'
  BY <1>2, MutexIInv, RefuseIInv, CloseIInv, PushCopyIInv, PopCopyIInv,
     PushCommitIInv, PopCommitIInv DEF MethodStep
<1>3. CASE UNCHANGED vars
  BY <1>3 DEF vars, ringVars, IInv, TypeOK, MutexInv, WindowInv, SlotAt, CopyInv,
              ArgumentInv, PushPlaces, RefuseInv, Slots
<1> QED BY <1>1, <1>2, <1>3 DEF Next

(* The strengthened invariant holds in every reachable state. *)
THEOREM Invariance == Spec => []IInv
BY InitIInv, NextIInv, PTL DEF Spec

(* The fields of the class and the positions of its callers have their     *)
(* types: the indices never leave the array and count_ never exceeds it.   *)
THEOREM TypeCorrect == Spec => []TypeOK
<1>1. IInv => TypeOK
  BY DEF IInv
<1> QED BY <1>1, Invariance, PTL

(* push() and pop() hand frames over in order, without loss, repetition or *)
(* tearing, whatever the interleaving of the threads.                      *)
THEOREM FifoOrder == Spec => []FIFO
<1>1. IInv => FIFO
  BY DEF IInv, TypeOK, WindowInv, FIFO
<1> QED BY <1>1, Invariance, PTL

(* A consumer that pop() refused has been given every frame ever pushed.   *)
THEOREM RefusalMeansDrained == Spec => []RefusedOnlyWhenDrained
<1>1. IInv => RefusedOnlyWhenDrained
  BY DEF IInv, RefuseInv, RefusedOnlyWhenDrained, Callers
<1> QED BY <1>1, Invariance, PTL

-----------------------------------------------------------------------------
(* Only three steps touch what the abstract queue sees; the others stutter. *)

LEMMA PushCommitIsPut ==
  ASSUME IInv, NEW c \in Callers, PushCommit(c)
  PROVE  ~closed_ /\ \E f \in Frames : Queue!Put(f)
<1>1. data[c] \in Frames /\ ~closed_ /\ count_ < RING_BUF_COUNT
  BY DEF IInv, PushCommit, ArgumentInv, PushPlaces, CopyInv
<1>2. Len(accepted) - Len(delivered) < RING_BUF_COUNT
  BY <1>1, CountAssumption DEF IInv, TypeOK, WindowInv
<1>3. Queue!Put(data[c])
  BY <1>1, <1>2 DEF PushCommit, Queue!Put
<1> QED BY <1>1, <1>3

LEMMA PopCommitIsTake ==
  ASSUME IInv, NEW c \in Callers, PopCommit(c)
  PROVE  Queue!Take
<1>1. count_ > 0 /\ data[c] = buf_[head_]
  BY DEF IInv, PopCommit, CopyInv
<1>2. 0 \in 0 .. count_ - 1 /\ SlotAt(0) = head_ /\ Len(delivered) + 1 + 0 = Len(delivered) + 1
  BY <1>1, CountAssumption DEF IInv, TypeOK, Slots, SlotAt
<1>3. data[c] = accepted[Len(delivered) + 1]
  BY <1>1, <1>2 DEF IInv, WindowInv
<1>4. Len(delivered) < Len(accepted)
  BY <1>1 DEF IInv, TypeOK, WindowInv
<1> QED BY <1>3, <1>4 DEF PopCommit, Queue!Take

LEMMA StepIsQueueStep ==
  ASSUME IInv, [Next]_vars
  PROVE  [Queue!Next]_(Queue!vars) /\ (closed_ => accepted' = accepted)
<1>1. CASE \/ \E c \in Producers, f \in Frames : CallPush(c, f)
           \/ \E c \in Consumers : CallPop(c)
           \/ \E c \in Closers : CallClose(c)
           \/ UNCHANGED vars
  BY <1>1 DEF CallPush, CallPop, CallClose, vars, ringVars, Queue!vars
<1>2. ASSUME NEW c \in Callers, MethodStep(c) \/ SpuriousWake(c)
      PROVE  [Queue!Next]_(Queue!vars) /\ (closed_ => accepted' = accepted)
  <2>1. CASE PushCommit(c)
    BY <2>1, PushCommitIsPut DEF Queue!Next
  <2>2. CASE PopCommit(c)
    BY <2>2, PopCommitIsTake DEF Queue!Next, PopCommit
  <2>3. CASE CloseSet(c)
    BY <2>3 DEF CloseSet, Queue!Next, Queue!Close
  <2>4. CASE \/ Lock(c) \/ Unlock(c) \/ PushWait(c) \/ PushRefuse(c) \/ PushCopy(c)
             \/ PopWait(c) \/ PopRefuse(c) \/ PopCopy(c) \/ SpuriousWake(c)
    BY <2>4 DEF Lock, Unlock, PushWait, PushRefuse, PushCopy, PopWait, PopRefuse,
                PopCopy, SpuriousWake, Block, Queue!vars
  <2> QED BY <1>2, <2>1, <2>2, <2>3, <2>4 DEF MethodStep
<1> QED BY <1>1, <1>2 DEF Next

(* After close() has taken effect no frame goes in, not even from a push   *)
(* that was already past its predicate when close() was called.            *)
THEOREM ClosedForGood == Spec => NothingAcceptedAfterClose
<1>1. IInv /\ [Next]_vars => [closed_ => accepted' = accepted]_vars
  BY StepIsQueueStep
<1> QED BY <1>1, Invariance, PTL DEF Spec, NothingAcceptedAfterClose

(* The class with its mutex, condition variables and modular indices       *)
(* implements the closable bounded FIFO.                                   *)
THEOREM ImplementsQueue == Spec => QueueSpec
<1>1. Init => Queue!Init
  BY DEF Init, Queue!Init
<1>2. IInv /\ [Next]_vars => [Queue!Next]_(Queue!vars)
  BY StepIsQueueStep
<1> QED BY <1>1, <1>2, Invariance, PTL DEF Spec, QueueSpec, Queue!Spec

-----------------------------------------------------------------------------
(* No lost wake-up, by counting: a thread that goes to sleep finds no room *)
(* (no frame) at all, and whoever makes one more wakes one more, so that   *)
(* the threads on their way are never fewer than what there is to take.    *)

LEMMA CountIs ==
  ASSUME NEW U, IsFiniteSet(U), NEW A \in SUBSET U, NEW c \in U
  PROVE  /\ Cardinality(A) \in Nat
         /\ c \in A => Cardinality(A \ {c}) = Cardinality(A) - 1
         /\ c \notin A => Cardinality(A \cup {c}) = Cardinality(A) + 1
<1>1. IsFiniteSet(A)
  BY FS_Subset
<1>2. Cardinality(A) \in Nat
  BY <1>1, FS_CardinalityType
<1>3. c \in A => Cardinality(A \ {c}) = Cardinality(A) - 1
  BY <1>1, FS_RemoveElement
<1>4. c \notin A => Cardinality(A \cup {c}) = Cardinality(A) + 1
  BY <1>1, FS_AddElement
<1> QED BY <1>2, <1>3, <1>4

LEMMA CountsGrow ==
  ASSUME NEW U, IsFiniteSet(U), NEW A \in SUBSET U, NEW B \in SUBSET U, A \subseteq B
  PROVE  /\ Cardinality(A) \in Nat /\ Cardinality(B) \in Nat
         /\ Cardinality(A) <= Cardinality(B)
<1>1. IsFiniteSet(A) /\ IsFiniteSet(B)
  BY FS_Subset
<1> QED BY <1>1, FS_Subset, FS_CardinalityType

LEMMA CountsAreNat ==
  /\ Cardinality(Pushing) \in Nat /\ Cardinality(Popping) \in Nat
  /\ Cardinality(Pushing) > 0 => Pushing # {}
  /\ Cardinality(Popping) > 0 => Popping # {}
<1>1. IsFiniteSet(Pushing) /\ IsFiniteSet(Popping)
  BY ThreadAssumption, FS_Subset DEF Pushing, Popping
<1> QED BY <1>1, FS_CardinalityType, FS_EmptySet

(* A step that leaves the buffer as it is, puts nobody to sleep and takes  *)
(* nobody off its way.                                                     *)
LEMMA QuietWakeInv ==
  ASSUME WakeInv, count_ \in Nat, UNCHANGED <<count_, closed_>>,
         Pushing \subseteq Pushing', Popping \subseteq Popping',
         WaitersAt("push_wait")' \subseteq WaitersAt("push_wait"),
         WaitersAt("pop_wait")' \subseteq WaitersAt("pop_wait"),
         \A d \in Callers :
           pc'[d] \in {"pop_lock", "pop_wait", "pop_pred", "pop_commit"} => d \in Consumers
  PROVE  WakeInv'
<1>1. /\ Pushing \in SUBSET Producers /\ Pushing' \in SUBSET Producers
      /\ Popping \in SUBSET Consumers /\ Popping' \in SUBSET Consumers
  BY DEF Pushing, Popping
<1>2. /\ Cardinality(Pushing) \in Nat /\ Cardinality(Pushing') \in Nat
      /\ Cardinality(Pushing) <= Cardinality(Pushing')
  BY <1>1, CountsGrow, ThreadAssumption
<1>3. /\ Cardinality(Popping) \in Nat /\ Cardinality(Popping') \in Nat
      /\ Cardinality(Popping) <= Cardinality(Popping')
  BY <1>1, CountsGrow, ThreadAssumption
<1>4. RING_BUF_COUNT \in Nat
  BY CountAssumption
<1>5. WaitersAt("push_wait")' # {} => RING_BUF_COUNT - count_' <= Cardinality(Pushing')
  BY <1>2, <1>4 DEF WakeInv
<1>6. WaitersAt("pop_wait")' # {} => count_' <= Cardinality(Popping')
  BY <1>3 DEF WakeInv
<1>7. closed_' => WaitersAt("push_wait")' = {} /\ WaitersAt("pop_wait")' = {}
  BY DEF WakeInv
<1>8. /\ Cardinality(Pushing)' = Cardinality(Pushing')
      /\ Cardinality(Popping)' = Cardinality(Popping')
  OBVIOUS
<1> QED BY <1>5, <1>6, <1>7, <1>8 DEF WakeInv

LEMMA InitWakeInv == Init => WakeInv
BY DEF Init, WakeInv, WaitersAt

(* A call takes one thread in front of the mutex.                          *)
LEMMA CallWakeInv ==
  ASSUME IInv, WakeInv,
         \/ \E c \in Producers, f \in Frames : CallPush(c, f)
         \/ \E c \in Consumers : CallPop(c)
         \/ \E c \in Closers : CallClose(c)
  PROVE  WakeInv'
<1>0. pc \in [Callers -> Places] /\ count_ \in Nat
  BY CountAssumption DEF IInv, TypeOK
<1>1. PICK c \in Callers, x \in {"push_lock", "pop_lock", "close_lock"} :
        /\ pc[c] \in {"idle", "true", "false"}
        /\ pc' = [pc EXCEPT ![c] = x]
        /\ x = "pop_lock" => c \in Consumers
        /\ UNCHANGED <<count_, closed_>>
  BY DEF CallPush, CallPop, CallClose, Callers, Goto, Returned
<1>2. pc'[c] = x /\ \A d \in Callers \ {c} : pc'[d] = pc[d]
  BY <1>0, <1>1
<1>3. Pushing \subseteq Pushing' /\ Popping \subseteq Popping'
  BY <1>1, <1>2 DEF Pushing, Popping, Callers
<1>4. /\ WaitersAt("push_wait")' \subseteq WaitersAt("push_wait")
      /\ WaitersAt("pop_wait")' \subseteq WaitersAt("pop_wait")
  BY <1>1, <1>2 DEF WaitersAt
<1>5. \A d \in Callers :
        pc'[d] \in {"pop_lock", "pop_wait", "pop_pred", "pop_commit"} => d \in Consumers
  BY <1>1, <1>2 DEF WakeInv
<1> QED BY <1>0, <1>1, <1>3, <1>4, <1>5, QuietWakeInv

(* Each of these steps goes one place further on the way of its side.      *)
LEMMA InsideWakeInv ==
  ASSUME IInv, WakeInv, NEW c \in Callers,
         Lock(c) \/ Unlock(c) \/ PushCopy(c) \/ PopCopy(c) \/ SpuriousWake(c)
  PROVE  WakeInv'
<1>0. pc \in [Callers -> Places] /\ count_ \in Nat
  BY CountAssumption DEF IInv, TypeOK
<1>1. /\ \/ pc[c] = "push_lock" /\ pc' = [pc EXCEPT ![c] = "push_pred"]
         \/ pc[c] = "pop_lock" /\ pc' = [pc EXCEPT ![c] = "pop_pred"]
         \/ pc[c] = "close_lock" /\ pc' = [pc EXCEPT ![c] = "close_set"]
         \/ pc[c] = "unlock_true" /\ pc' = [pc EXCEPT ![c] = "true"]
         \/ pc[c] = "unlock_false" /\ pc' = [pc EXCEPT ![c] = "false"]
         \/ pc[c] = "push_pred" /\ pc' = [pc EXCEPT ![c] = "push_commit"]
         \/ pc[c] = "pop_pred" /\ pc' = [pc EXCEPT ![c] = "pop_commit"]
         \/ pc[c] = "push_wait" /\ pc' = [pc EXCEPT ![c] = "push_lock"]
         \/ pc[c] = "pop_wait" /\ pc' = [pc EXCEPT ![c] = "pop_lock"]
      /\ UNCHANGED <<count_, closed_>>
  <2> USE DEF Goto
  <2>1. CASE Lock(c)
    <3>1. /\ pc[c] \in {"push_lock", "pop_lock", "close_lock"}
          /\ pc' = [pc EXCEPT ![c] = AfterLock[pc[c]]]
          /\ UNCHANGED <<count_, closed_>>
      BY <2>1 DEF Lock, AfterLock
    <3>2. /\ AfterLock["push_lock"] = "push_pred" /\ AfterLock["pop_lock"] = "pop_pred"
          /\ AfterLock["close_lock"] = "close_set"
      BY DEF AfterLock
    <3> QED BY <3>1, <3>2
  <2>2. CASE Unlock(c)
    <3>1. /\ pc[c] \in {"unlock_true", "unlock_false"}
          /\ pc' = [pc EXCEPT ![c] = AfterUnlock[pc[c]]]
          /\ UNCHANGED <<count_, closed_>>
      BY <2>2 DEF Unlock, AfterUnlock
    <3>2. AfterUnlock["unlock_true"] = "true" /\ AfterUnlock["unlock_false"] = "false"
      BY DEF AfterUnlock
    <3> QED BY <3>1, <3>2
  <2>3. CASE PushCopy(c)
    BY <2>3 DEF PushCopy
  <2>4. CASE PopCopy(c)
    BY <2>4 DEF PopCopy
  <2>5. CASE SpuriousWake(c)
    <3>1. /\ pc[c] \in {"push_wait", "pop_wait"}
          /\ pc' = [pc EXCEPT ![c] = AfterWake[pc[c]]]
          /\ UNCHANGED <<count_, closed_>>
      BY <2>5 DEF SpuriousWake, AfterWake
    <3>2. AfterWake["push_wait"] = "push_lock" /\ AfterWake["pop_wait"] = "pop_lock"
      BY DEF AfterWake
    <3> QED BY <3>1, <3>2
  <2> QED BY <2>1, <2>2, <2>3, <2>4, <2>5
<1>2. /\ \A d \in Callers \ {c} : pc'[d] = pc[d]
      /\ pc[c] \in {"push_lock", "push_pred", "push_commit"} =>
           pc'[c] \in {"push_lock", "push_pred", "push_commit"}
      /\ pc[c] \in {"pop_lock", "pop_pred", "pop_commit"} =>
           pc'[c] \in {"pop_lock", "pop_pred", "pop_commit"}
      /\ pc'[c] \notin {"push_wait", "pop_wait"}
      /\ pc'[c] \in {"pop_lock", "pop_pred", "pop_commit"} =>
           pc[c] \in {"pop_lock", "pop_wait", "pop_pred", "pop_commit"}
  BY <1>0, <1>1
<1>3. Pushing \subseteq Pushing' /\ Popping \subseteq Popping'
  BY <1>2 DEF Pushing, Popping, Callers
<1>4. /\ WaitersAt("push_wait")' \subseteq WaitersAt("push_wait")
      /\ WaitersAt("pop_wait")' \subseteq WaitersAt("pop_wait")
  BY <1>2 DEF WaitersAt
<1>5. \A d \in Callers :
        pc'[d] \in {"pop_lock", "pop_wait", "pop_pred", "pop_commit"} => d \in Consumers
  BY <1>2 DEF WakeInv
<1> QED BY <1>0, <1>1, <1>3, <1>4, <1>5, QuietWakeInv

(* A thread goes to sleep: there is nothing for it, and the buffer is open. *)
LEMMA SleepWakeInv ==
  ASSUME IInv, WakeInv, NEW c \in Callers, PushWait(c) \/ PopWait(c)
  PROVE  WakeInv'
<1>0. /\ pc \in [Callers -> Places] /\ count_ \in 0 .. RING_BUF_COUNT
      /\ RING_BUF_COUNT \in Nat
  BY CountAssumption DEF IInv, TypeOK
<1>1. /\ \/ /\ pc[c] = "push_pred" /\ pc' = [pc EXCEPT ![c] = "push_wait"]
            /\ count_ = RING_BUF_COUNT
         \/ /\ pc[c] = "pop_pred" /\ pc' = [pc EXCEPT ![c] = "pop_wait"]
            /\ count_ = 0
      /\ ~closed_ /\ UNCHANGED <<count_, closed_>>
  BY <1>0 DEF PushWait, PopWait, Block, Goto
<1>2. /\ \A d \in Callers \ {c} : pc'[d] = pc[d]
      /\ pc[c] = "push_pred" => pc'[c] = "push_wait"
      /\ pc[c] = "pop_pred" => pc'[c] = "pop_wait"
  BY <1>0, <1>1
<1>3. \A d \in Callers :
        pc'[d] \in {"pop_lock", "pop_wait", "pop_pred", "pop_commit"} => d \in Consumers
  BY <1>1, <1>2 DEF WakeInv
<1>4. /\ Pushing \in SUBSET Producers /\ Pushing' \in SUBSET Producers
      /\ Popping \in SUBSET Consumers /\ Popping' \in SUBSET Consumers
  BY DEF Pushing, Popping
<1>5. /\ Cardinality(Pushing) \in Nat /\ Cardinality(Pushing') \in Nat
      /\ Cardinality(Popping) \in Nat /\ Cardinality(Popping') \in Nat
  BY <1>4, CountsGrow, ThreadAssumption
<1>6. CASE pc[c] = "push_pred"
  <2>1. Popping \subseteq Popping' /\ WaitersAt("pop_wait")' \subseteq WaitersAt("pop_wait")
    BY <1>1, <1>2, <1>6 DEF Popping, WaitersAt, Callers
  <2>2. Cardinality(Popping) <= Cardinality(Popping')
    BY <1>4, <2>1, CountsGrow, ThreadAssumption
  <2>3. RING_BUF_COUNT - count_' <= Cardinality(Pushing')
    BY <1>0, <1>1, <1>5, <1>6
  <2>4. WaitersAt("pop_wait")' # {} => count_' <= Cardinality(Popping')
    BY <1>0, <1>1, <1>5, <2>1, <2>2 DEF WakeInv
  <2> QED BY <1>1, <1>3, <2>3, <2>4 DEF WakeInv
<1>7. CASE pc[c] = "pop_pred"
  <2>1. Pushing \subseteq Pushing' /\ WaitersAt("push_wait")' \subseteq WaitersAt("push_wait")
    BY <1>1, <1>2, <1>7 DEF Pushing, WaitersAt, Callers
  <2>2. Cardinality(Pushing) <= Cardinality(Pushing')
    BY <1>4, <2>1, CountsGrow, ThreadAssumption
  <2>3. count_' <= Cardinality(Popping')
    BY <1>0, <1>1, <1>5, <1>7
  <2>4. WaitersAt("push_wait")' # {} => RING_BUF_COUNT - count_' <= Cardinality(Pushing')
    BY <1>0, <1>1, <1>5, <2>1, <2>2 DEF WakeInv
  <2> QED BY <1>1, <1>3, <2>3, <2>4 DEF WakeInv
<1> QED BY <1>1, <1>6, <1>7

(* Refusals happen only on a closed buffer, where nobody sleeps. *)
LEMMA RefuseWakeInv ==
  ASSUME IInv, WakeInv, NEW c \in Callers, PushRefuse(c) \/ PopRefuse(c)
  PROVE  WakeInv'
<1> USE DEF Goto
<1>1. /\ closed_ /\ closed_' = closed_
      /\ pc \in [Callers -> Places] /\ pc' = [pc EXCEPT ![c] = "unlock_false"]
      /\ WaitersAt("push_wait") = {} /\ WaitersAt("pop_wait") = {}
  BY DEF IInv, TypeOK, WakeInv, PushRefuse, PopRefuse
<1>2. WaitersAt("push_wait")' = {} /\ WaitersAt("pop_wait")' = {}
  BY <1>1 DEF WaitersAt
<1>3. \A d \in Callers :
        pc'[d] \in {"pop_lock", "pop_wait", "pop_pred", "pop_commit"} => d \in Consumers
  BY <1>1 DEF WakeInv
<1> QED BY <1>1, <1>2, <1>3 DEF WakeInv

(* close() leaves nobody asleep. *)
LEMMA CloseWakeInv ==
  ASSUME IInv, WakeInv, NEW c \in Callers, CloseSet(c)
  PROVE  WakeInv'
<1>1. /\ pc \in [Callers -> Places]
      /\ pc' = [w \in Callers |->
                  IF w = c THEN "unlock_true"
                  ELSE IF pc[w] \in DOMAIN AfterWake THEN AfterWake[pc[w]] ELSE pc[w]]
  BY DEF IInv, TypeOK, CloseSet, NotifyEverybody
<1>2. \A w \in Callers :
        pc'[w] = IF w = c THEN "unlock_true"
                 ELSE IF pc[w] = "push_wait" THEN "push_lock"
                 ELSE IF pc[w] = "pop_wait" THEN "pop_lock" ELSE pc[w]
  BY <1>1 DEF AfterWake
<1>3. WaitersAt("push_wait")' = {} /\ WaitersAt("pop_wait")' = {}
  BY <1>2 DEF WaitersAt
<1>4. \A d \in Callers :
        pc'[d] \in {"pop_lock", "pop_wait", "pop_pred", "pop_commit"} => d \in Consumers
  BY <1>2 DEF WakeInv
<1> QED BY <1>3, <1>4 DEF WakeInv

(* push() fills a slot, and one who sleeps for a frame is woken. *)
LEMMA PushCommitWakeInv ==
  ASSUME IInv, WakeInv, NEW c \in Callers, PushCommit(c)
  PROVE  WakeInv'
<1>0. /\ TypeOK /\ pc \in [Callers -> Places] /\ count_ \in 0 .. RING_BUF_COUNT
      /\ RING_BUF_COUNT \in Nat /\ count_' = count_ + 1 /\ closed_' = closed_
      /\ pc[c] = "push_commit" /\ c \in Producers
  BY CountAssumption DEF IInv, TypeOK, PushCommit, ArgumentInv, PushPlaces
<1>1. PICK w : /\ \/ w = c /\ WaitersAt("pop_wait") = {}
                  \/ w \in Callers /\ w # c /\ pc[w] = "pop_wait" /\ w \in Consumers
               /\ pc' = IF w = c THEN [pc EXCEPT ![c] = "unlock_true"]
                        ELSE [pc EXCEPT ![c] = "unlock_true", ![w] = "pop_lock"]
  <2>1. CASE WaitersAt("pop_wait") = {}
    BY <2>1 DEF PushCommit, NotifyOne, Goto
  <2>2. CASE WaitersAt("pop_wait") # {}
    <3>1. PICK w \in WaitersAt("pop_wait") :
            pc' = [pc EXCEPT ![c] = "unlock_true", ![w] = AfterWake["pop_wait"]]
      BY <2>2 DEF PushCommit, NotifyOne
    <3>2. w \in Callers /\ pc[w] = "pop_wait" /\ w # c /\ w \in Consumers
      BY <1>0, <3>1 DEF WaitersAt, WakeInv
    <3> QED BY <3>1, <3>2 DEF AfterWake
  <2> QED BY <2>1, <2>2
<1>2. /\ pc'[c] = "unlock_true"
      /\ w # c => pc'[w] = "pop_lock"
      /\ \A d \in Callers : d # c /\ d # w => pc'[d] = pc[d]
  BY <1>0, <1>1
<1>3. \A d \in Callers :
        pc'[d] \in {"pop_lock", "pop_wait", "pop_pred", "pop_commit"} => d \in Consumers
  BY <1>1, <1>2 DEF WakeInv
<1>4. /\ WaitersAt("push_wait")' \subseteq WaitersAt("push_wait")
      /\ WaitersAt("pop_wait")' \subseteq WaitersAt("pop_wait")
  <2>1. \A d \in Callers : pc'[d] \in {"push_wait", "pop_wait"} => pc'[d] = pc[d]
    BY <1>1, <1>2
  <2> QED BY <2>1 DEF WaitersAt
<1>5. Cardinality(Pushing') = Cardinality(Pushing) - 1 /\ Cardinality(Pushing) \in Nat
  <2>1. Pushing' = Pushing \ {c} /\ c \in Pushing /\ Pushing \in SUBSET Producers
    BY <1>0, <1>1, <1>2 DEF Pushing, Callers
  <2> QED BY <1>0, <2>1, CountIs, ThreadAssumption
<1>6. WaitersAt("pop_wait") # {} =>
        Cardinality(Popping') = Cardinality(Popping) + 1 /\ Cardinality(Popping) \in Nat
  <2>1. SUFFICES ASSUME WaitersAt("pop_wait") # {}
                 PROVE  Cardinality(Popping') = Cardinality(Popping) + 1
                        /\ Cardinality(Popping) \in Nat
    OBVIOUS
  <2>2. w \in Consumers /\ w # c /\ pc[w] = "pop_wait"
    BY <1>1, <2>1
  <2>3. Popping' = Popping \cup {w} /\ w \notin Popping /\ Popping \in SUBSET Consumers
    BY <1>0, <1>2, <2>2 DEF Popping, Callers
  <2> QED BY <2>2, <2>3, CountIs, ThreadAssumption
<1>7. WaitersAt("push_wait")' # {} => RING_BUF_COUNT - count_' <= Cardinality(Pushing')
  BY <1>0, <1>4, <1>5 DEF WakeInv
<1>8. WaitersAt("pop_wait")' # {} => count_' <= Cardinality(Popping')
  BY <1>0, <1>4, <1>6 DEF WakeInv
<1>9. closed_' => WaitersAt("push_wait")' = {} /\ WaitersAt("pop_wait")' = {}
  BY <1>0, <1>4 DEF WakeInv
<1>10. /\ Cardinality(Pushing)' = Cardinality(Pushing')
       /\ Cardinality(Popping)' = Cardinality(Popping')
  OBVIOUS
<1> QED BY <1>3, <1>7, <1>8, <1>9, <1>10 DEF WakeInv

(* pop() empties one, and one who sleeps for room is woken. *)
LEMMA PopCommitWakeInv ==
  ASSUME IInv, WakeInv, NEW c \in Callers, PopCommit(c)
  PROVE  WakeInv'
<1>0. /\ TypeOK /\ pc \in [Callers -> Places] /\ count_ \in 0 .. RING_BUF_COUNT
      /\ RING_BUF_COUNT \in Nat /\ count_' = count_ - 1 /\ closed_' = closed_
      /\ pc[c] = "pop_commit" /\ c \in Consumers
  BY CountAssumption DEF IInv, TypeOK, PopCommit, WakeInv
<1>1. PICK w : /\ \/ w = c /\ WaitersAt("push_wait") = {}
                  \/ w \in Callers /\ w # c /\ pc[w] = "push_wait" /\ w \in Producers
               /\ pc' = IF w = c THEN [pc EXCEPT ![c] = "unlock_true"]
                        ELSE [pc EXCEPT ![c] = "unlock_true", ![w] = "push_lock"]
  <2>1. CASE WaitersAt("push_wait") = {}
    BY <2>1 DEF PopCommit, NotifyOne, Goto
  <2>2. CASE WaitersAt("push_wait") # {}
    <3>1. PICK w \in WaitersAt("push_wait") :
            pc' = [pc EXCEPT ![c] = "unlock_true", ![w] = AfterWake["push_wait"]]
      BY <2>2 DEF PopCommit, NotifyOne
    <3>2. w \in Callers /\ pc[w] = "push_wait" /\ w # c /\ w \in Producers
      BY <1>0, <3>1 DEF WaitersAt, IInv, ArgumentInv, PushPlaces
    <3> QED BY <3>1, <3>2 DEF AfterWake
  <2> QED BY <2>1, <2>2
<1>2. /\ pc'[c] = "unlock_true"
      /\ w # c => pc'[w] = "push_lock"
      /\ \A d \in Callers : d # c /\ d # w => pc'[d] = pc[d]
  BY <1>0, <1>1
<1>3. \A d \in Callers :
        pc'[d] \in {"pop_lock", "pop_wait", "pop_pred", "pop_commit"} => d \in Consumers
  BY <1>1, <1>2 DEF WakeInv
<1>4. /\ WaitersAt("push_wait")' \subseteq WaitersAt("push_wait")
      /\ WaitersAt("pop_wait")' \subseteq WaitersAt("pop_wait")
  <2>1. \A d \in Callers : pc'[d] \in {"push_wait", "pop_wait"} => pc'[d] = pc[d]
    BY <1>1, <1>2
  <2> QED BY <2>1 DEF WaitersAt
<1>5. Cardinality(Popping') = Cardinality(Popping) - 1 /\ Cardinality(Popping) \in Nat
  <2>1. Popping' = Popping \ {c} /\ c \in Popping /\ Popping \in SUBSET Consumers
    BY <1>0, <1>1, <1>2 DEF Popping, Callers
  <2> QED BY <1>0, <2>1, CountIs, ThreadAssumption
<1>6. WaitersAt("push_wait") # {} =>
        Cardinality(Pushing') = Cardinality(Pushing) + 1 /\ Cardinality(Pushing) \in Nat
  <2>1. SUFFICES ASSUME WaitersAt("push_wait") # {}
                 PROVE  Cardinality(Pushing') = Cardinality(Pushing) + 1
                        /\ Cardinality(Pushing) \in Nat
    OBVIOUS
  <2>2. w \in Producers /\ w # c /\ pc[w] = "push_wait"
    BY <1>1, <2>1
  <2>3. Pushing' = Pushing \cup {w} /\ w \notin Pushing /\ Pushing \in SUBSET Producers
    BY <1>0, <1>2, <2>2 DEF Pushing, Callers
  <2> QED BY <2>2, <2>3, CountIs, ThreadAssumption
<1>7. WaitersAt("pop_wait")' # {} => count_' <= Cardinality(Popping')
  BY <1>0, <1>4, <1>5 DEF WakeInv
<1>8. WaitersAt("push_wait")' # {} => RING_BUF_COUNT - count_' <= Cardinality(Pushing')
  BY <1>0, <1>4, <1>6 DEF WakeInv
<1>9. closed_' => WaitersAt("push_wait")' = {} /\ WaitersAt("pop_wait")' = {}
  BY <1>0, <1>4 DEF WakeInv
<1>10. /\ Cardinality(Pushing)' = Cardinality(Pushing')
       /\ Cardinality(Popping)' = Cardinality(Popping')
  OBVIOUS
<1> QED BY <1>3, <1>7, <1>8, <1>9, <1>10 DEF WakeInv

LEMMA NextWakeInv == IInv /\ WakeInv /\ [Next]_vars => WakeInv'
<1> SUFFICES ASSUME IInv, WakeInv, [Next]_vars PROVE WakeInv'
  OBVIOUS
<1>1. CASE UNCHANGED vars
  BY <1>1 DEF vars, ringVars, WakeInv, WaitersAt, Pushing, Popping
<1>2. ASSUME NEW c \in Callers, MethodStep(c) \/ SpuriousWake(c) PROVE WakeInv'
  BY <1>2, InsideWakeInv, SleepWakeInv, RefuseWakeInv, CloseWakeInv, PushCommitWakeInv,
     PopCommitWakeInv DEF MethodStep
<1> QED BY <1>1, <1>2, CallWakeInv DEF Next

(* Although each push() and pop() wakes a single thread, and that one may  *)
(* find that another was faster, no thread sleeps beside a slot or a frame *)
(* that nobody is on the way to; and nobody sleeps on a closed buffer.     *)
THEOREM WakeupsReachSomebody == Spec => []NoLostWakeup
<1>1. IInv /\ WakeInv => NoLostWakeup
  <2> SUFFICES ASSUME IInv, WakeInv PROVE NoLostWakeup
    OBVIOUS
  <2>1. count_ \in Nat /\ RING_BUF_COUNT \in Nat
    BY CountAssumption DEF IInv, TypeOK
  <2>2. WaitersAt("push_wait") # {} /\ count_ < RING_BUF_COUNT => Pushing # {}
    BY <2>1, CountsAreNat DEF WakeInv
  <2>3. WaitersAt("pop_wait") # {} /\ count_ > 0 => Popping # {}
    BY <2>1, CountsAreNat DEF WakeInv
  <2> QED BY <2>2, <2>3 DEF NoLostWakeup, WakeInv, Pushing, Popping
<1> QED BY <1>1, InitWakeInv, NextWakeInv, Invariance, PTL DEF Spec

=============================================================================
