---------------------------- MODULE BoardProofs ----------------------------
(***************************************************************************)
(* Proofs about Board for every number of buffers and frames and any tools *)
(* running at the same time: the camera's buffers and frames, that a new   *)
(* gateway finds the camera free, that relay and buzzer are switched on    *)
(* only by a command to do so or until somebody gets to switching them     *)
(* off, and what a program that nobody disturbs makes of the pins.         *)
(***************************************************************************)
EXTENDS Board, SequenceTheorems, TLAPS

(* The two halves of the board step by themselves. *)
LEMMA BoardIsCamera == BoardSpec => Spec
<1>1. BoardInit => Init
  BY DEF BoardInit
<1>2. [BoardNext]_boardVars => [Next]_vars
  BY DEF BoardNext, CaptureStep, DriverStep, PinStep, EndProcess, Next, boardVars
<1> QED BY <1>1, <1>2, PTL DEF BoardSpec, Spec

LEMMA BoardIsPins == BoardSpec => PinSpec
<1>1. BoardInit => PinInit
  BY DEF BoardInit
<1>2. [BoardNext]_boardVars => [PinNext]_pinVars
  BY DEF BoardNext, CaptureStep, DriverStep, PinStep, EndProcess, PinNext, boardVars
<1> QED BY <1>1, <1>2, PTL DEF BoardSpec, PinSpec

-----------------------------------------------------------------------------
(* Queues of buffers. *)

Has(q, b) == \E i \in 1 .. Len(q) : q[i] = b
Distinct(q) == \A i, j \in 1 .. Len(q) : q[i] = q[j] => i = j

LEMMA HasAppend ==
  ASSUME NEW S, NEW q \in Seq(S), NEW b \in S, NEW c
  PROVE  Has(Append(q, b), c) <=> Has(q, c) \/ c = b
<1>1. /\ Len(Append(q, b)) = Len(q) + 1 /\ Len(q) \in Nat
      /\ Append(q, b)[Len(q) + 1] = b
      /\ \A i \in 1 .. Len(q) : Append(q, b)[i] = q[i]
  BY AppendProperties
<1> HIDE DEF Has
<1>2. Has(q, c) => Has(Append(q, b), c)
  BY <1>1 DEF Has
<1>3. c = b => Has(Append(q, b), c)
  BY <1>1 DEF Has
<1>4. Has(Append(q, b), c) => Has(q, c) \/ c = b
  BY <1>1 DEF Has
<1> QED BY <1>2, <1>3, <1>4

LEMMA DistinctAppend ==
  ASSUME NEW S, NEW q \in Seq(S), NEW b \in S, Distinct(q), ~Has(q, b)
  PROVE  Distinct(Append(q, b))
<1>1. /\ Len(Append(q, b)) = Len(q) + 1 /\ Len(q) \in Nat
      /\ Append(q, b)[Len(q) + 1] = b
      /\ \A i \in 1 .. Len(q) : Append(q, b)[i] = q[i]
  BY AppendProperties
<1> QED BY <1>1 DEF Distinct, Has

LEMMA TailIs ==
  ASSUME NEW S, NEW q \in Seq(S), q # <<>>
  PROVE  /\ Len(q) \in Nat /\ Len(q) > 0
         /\ Head(q) = q[1] /\ Head(q) \in S
         /\ Tail(q) \in Seq(S)
         /\ Len(Tail(q)) = Len(q) - 1
         /\ \A i \in 1 .. Len(q) - 1 : Tail(q)[i] = q[i + 1]
BY HeadTailProperties, EmptySeq, LenProperties

LEMMA HasTail ==
  ASSUME NEW S, NEW q \in Seq(S), q # <<>>, NEW c
  PROVE  Has(q, c) <=> c = Head(q) \/ Has(Tail(q), c)
<1>1. /\ Len(q) \in Nat /\ Len(q) > 0
      /\ Head(q) = q[1]
      /\ Len(Tail(q)) = Len(q) - 1
      /\ \A i \in 1 .. Len(q) - 1 : Tail(q)[i] = q[i + 1]
  BY TailIs
<1>2. Has(q, c) => c = Head(q) \/ Has(Tail(q), c)
  <2>1. SUFFICES ASSUME NEW i \in 1 .. Len(q), q[i] = c, i # 1
                 PROVE  Has(Tail(q), c)
    BY <1>1 DEF Has
  <2>2. i - 1 \in 1 .. Len(Tail(q)) /\ Tail(q)[i - 1] = c
    BY <1>1, <2>1
  <2> QED BY <2>2 DEF Has
<1>3. Has(Tail(q), c) => Has(q, c)
  <2>1. SUFFICES ASSUME NEW i \in 1 .. Len(Tail(q)), Tail(q)[i] = c
                 PROVE  Has(q, c)
    BY DEF Has
  <2>2. i + 1 \in 1 .. Len(q) /\ q[i + 1] = c
    BY <1>1, <2>1
  <2> QED BY <2>2 DEF Has
<1>4. c = Head(q) => Has(q, c)
  BY <1>1 DEF Has
<1> QED BY <1>2, <1>3, <1>4

LEMMA DistinctTail ==
  ASSUME NEW S, NEW q \in Seq(S), q # <<>>, Distinct(q)
  PROVE  Distinct(Tail(q)) /\ ~Has(Tail(q), Head(q))
<1>1. /\ Len(q) \in Nat /\ Len(q) > 0
      /\ Head(q) = q[1]
      /\ Len(Tail(q)) = Len(q) - 1
      /\ \A i \in 1 .. Len(q) - 1 : Tail(q)[i] = q[i + 1]
  BY TailIs
<1>2. \A i \in 1 .. Len(Tail(q)) : i + 1 \in 1 .. Len(q) /\ i + 1 # 1
  BY <1>1
<1>3. Distinct(Tail(q))
  BY <1>1, <1>2 DEF Distinct
<1>4. ~Has(Tail(q), Head(q))
  BY <1>1, <1>2 DEF Distinct, Has
<1> QED BY <1>3, <1>4

-----------------------------------------------------------------------------
(* The camera.  The stages of vcap_open(), and what each leaves behind.    *)
Opening == {"closed", "negotiate", "request", "map", "queue", "opened"}
Streaming == {"started", "copy"}

StageInv ==
  /\ at \in {"closed", "negotiate", "request"} => mapped = {} /\ queued = <<>>
  /\ at \in Opening => filled = <<>> /\ held = {}
  /\ streaming => at \in Streaming \cup {"close"}
  /\ at \in Streaming => streaming
  /\ at \in {"closed", "done", "failed"} => ~fd
  /\ at \notin {"failed", "overrun"} => mapped \subseteq 0 .. VCAP_BUF_COUNT - 1
  /\ at = "done" => mapped = {}
  /\ at \in {"map", "queue", "opened"} =>
       next <= count /\ Len(queued) = next /\ \A i \in 1 .. next : queued[i] = i - 1
  /\ at = "queue" => next < count
  /\ at = "opened" => next = count
  /\ at # "copy" => size = 0 /\ copied = <<>>

(* Every buffer is queued, filled or held, and in one place only. *)
PlaceInv ==
  at \in Streaming =>
    /\ Distinct(queued) /\ Distinct(filled)
    /\ \A b \in 0 .. count - 1 :
         /\ Has(queued, b) \/ Has(filled, b) \/ b \in held
         /\ ~(Has(queued, b) /\ Has(filled, b))
         /\ b \in held => ~Has(queued, b) /\ ~Has(filled, b)
    /\ Len(queued) + Len(filled) + (IF at = "started" THEN 0 ELSE 1) = count
    /\ at = "started" => held = {}
    /\ at # "started" => \E b \in 0 .. count - 1 : held = {b}

(* The filled buffers are in the order of their frames, all later than the *)
(* last one handed out; the one being copied comes before them, and what   *)
(* has been copied is all of its frame.                                    *)
Last == IF frame = <<>> THEN 0 ELSE frame[1]

OrderInv ==
  /\ grabs <= Last /\ Last <= produced
  /\ at \in Streaming =>
       /\ \A i, j \in 1 .. Len(filled) : i < j => image[filled[i]] < image[filled[j]]
       /\ \A i \in 1 .. Len(filled) : Last < image[filled[i]] /\ image[filled[i]] <= produced
  /\ at = "copy" => \A b \in held :
       /\ Last < image[b] /\ image[b] <= produced
       /\ \A i \in 1 .. Len(filled) : image[b] < image[filled[i]]
       /\ \A i \in 1 .. Len(copied) : copied[i] = image[b]

CamInv == TypeOK /\ StageInv /\ PlaceInv /\ OrderInv

LEMMA LastIsNat == ASSUME TypeOK PROVE Last \in Nat
<1>1. CASE frame = <<>>
  BY <1>1 DEF Last
<1>2. CASE frame # <<>>
  <2>1. frame \in Seq(1 .. MaxFrames) /\ Len(frame) \in Nat /\ Len(frame) # 0
    BY <1>2, EmptySeq, LenProperties DEF TypeOK
  <2>2. 1 \in 1 .. Len(frame)
    BY <2>1
  <2>3. frame[1] \in 1 .. MaxFrames
    BY ONLY <2>1, <2>2, ElementOfSeq
  <2> QED BY <1>2, <2>3 DEF Last
<1> QED BY <1>1, <1>2

LEMMA EmptyIsSeq == ASSUME NEW S PROVE <<>> \in Seq(S)
BY EmptySeq

LEMMA CamInit == Init => CamInv
<1> SUFFICES ASSUME Init PROVE CamInv
  OBVIOUS
<1>1. TypeOK
  <2>1. /\ queued \in Seq(0 .. count - 1) /\ filled \in Seq(0 .. count - 1)
        /\ copied \in Seq(1 .. MaxFrames) /\ frame \in Seq(1 .. MaxFrames)
        /\ Len(copied) <= size
    BY EmptyIsSeq, EmptySeq DEF Init
  <2>2. 0 \in 0 .. MaxGranted /\ 0 \in 0 .. MaxFrames /\ 0 \in 0 .. FrameSize
    BY CameraAssumption
  <2> QED BY <2>1, <2>2 DEF Init, TypeOK, Places
<1>2. StageInv /\ PlaceInv /\ OrderInv
  BY DEF Init, StageInv, PlaceInv, OrderInv, Last, Opening, Streaming
<1> QED BY <1>1, <1>2 DEF CamInv

(* The steps that leave the buffers alone. *)
Still == Open \/ OpenFailed \/ Negotiated \/ Opened \/ Fail \/ StartFailed

LEMMA StillInv ==
  ASSUME CamInv, Still
  PROVE  CamInv'
<1>1. /\ UNCHANGED <<count, next, mapped, rest>>
      /\ at' \in Places
      /\ fd' \in BOOLEAN
  BY DEF CamInv, TypeOK, Still, Open, OpenFailed, Negotiated, Opened, Fail, StartFailed, Go,
         Places
<1>2. \/ at = "closed" /\ at' = "negotiate"
      \/ at = "closed" /\ at' = "failed" /\ fd' = fd
      \/ at = "negotiate" /\ at' = "request"
      \/ at = "map" /\ at' = "opened" /\ next = count
      \/ at \in {"negotiate", "request", "queue", "map"} /\ at' = "failed" /\ fd' = FALSE
      \/ at = "opened" /\ at' = "close"
  BY DEF Still, Open, OpenFailed, Negotiated, Opened, Fail, StartFailed, Go
<1>3. TypeOK'
  BY <1>1 DEF CamInv, TypeOK, rest, ring, grab
<1>4. StageInv'
  <2>1. StageInv
    BY DEF CamInv
  <2> QED BY ONLY <1>1, <1>2, <2>1 DEF StageInv, Opening, Streaming, rest, ring, grab
<1>5. PlaceInv' /\ OrderInv'
  <2>1. at' \notin Streaming /\ UNCHANGED <<frame, grabs, produced>>
    BY <1>1, <1>2 DEF Streaming, rest, grab
  <2> QED BY <2>1 DEF CamInv, PlaceInv, OrderInv, Last, Streaming
<1> QED BY <1>3, <1>4, <1>5 DEF CamInv

LEMMA LeaveInv ==
  ASSUME CamInv, Leave
  PROVE  CamInv'
<1> USE DEF CamInv, Leave, Go, ring
<1>1. TypeOK'
  BY CameraAssumption, EmptySeq DEF TypeOK, Places
<1>2. StageInv'
  BY DEF StageInv, Opening, Streaming
<1>3. PlaceInv' /\ OrderInv'
  BY DEF PlaceInv, OrderInv, Last, Streaming
<1> QED BY <1>1, <1>2, <1>3

LEMMA MapBufferInv ==
  ASSUME CamInv, MapBuffer
  PROVE  CamInv'
<1> USE DEF CamInv, MapBuffer, Go, rest, ring, grab
<1>1. TypeOK'
  BY CameraAssumption DEF TypeOK, Places
<1>2. StageInv'
  BY CameraAssumption DEF TypeOK, StageInv, Opening, Streaming
<1>3. PlaceInv' /\ OrderInv'
  BY DEF PlaceInv, OrderInv, Last, Streaming
<1> QED BY <1>1, <1>2, <1>3

LEMMA GrantedInv ==
  ASSUME CamInv, NEW n \in 1 .. MaxGranted, Granted(n)
  PROVE  CamInv'
<1> USE DEF CamInv, Granted, Go, rest, ring, grab
<1>1. TypeOK'
  BY CameraAssumption, EmptyIsSeq DEF TypeOK, Places, StageInv, Opening
<1>2. StageInv'
  BY CameraAssumption DEF TypeOK, StageInv, Opening, Streaming
<1>3. PlaceInv' /\ OrderInv'
  BY DEF PlaceInv, OrderInv, Last, Streaming
<1> QED BY <1>1, <1>2, <1>3

LEMMA QueueBufferInv ==
  ASSUME CamInv, QueueBuffer
  PROVE  CamInv'
<1> USE DEF CamInv, QueueBuffer, Go, grab
<1>1. /\ next \in 0 .. count - 1 /\ count \in Nat
      /\ queued \in Seq(0 .. count - 1) /\ Len(queued) = next
      /\ \A i \in 1 .. next : queued[i] = i - 1
  BY CameraAssumption DEF TypeOK, StageInv
<1>2. /\ queued' \in Seq(0 .. count - 1)
      /\ Len(queued') = next + 1
      /\ queued'[next + 1] = next
      /\ \A i \in 1 .. next : queued'[i] = queued[i]
  BY <1>1, AppendProperties
<1>3. TypeOK'
  BY <1>1, <1>2, CameraAssumption DEF TypeOK, Places
<1>4. StageInv'
  <2>1. \A i \in 1 .. next' : queued'[i] = i - 1
    BY <1>1, <1>2
  <2> QED BY <1>1, <1>2, <2>1 DEF StageInv, Opening, Streaming
<1>5. PlaceInv' /\ OrderInv'
  BY DEF PlaceInv, OrderInv, Last, Streaming
<1> QED BY <1>3, <1>4, <1>5

LEMMA StartInv ==
  ASSUME CamInv, Start
  PROVE  CamInv'
<1> USE DEF CamInv, Start, Go, ring, grab
<1>1. TypeOK'
  BY DEF TypeOK, Places
<1>2. StageInv'
  BY DEF StageInv, Opening, Streaming
<1>3. /\ count \in Nat /\ Len(queued) = count /\ filled = <<>> /\ held = {} /\ Len(filled) = 0
      /\ \A i \in 1 .. count : queued[i] = i - 1
  BY DEF TypeOK, StageInv, Opening
<1>4. Distinct(queued) /\ Distinct(filled)
  BY <1>3 DEF Distinct
<1>5. \A b \in 0 .. count - 1 : Has(queued, b) /\ ~Has(filled, b)
  <2>1. SUFFICES ASSUME NEW b \in 0 .. count - 1 PROVE Has(queued, b) /\ ~Has(filled, b)
    OBVIOUS
  <2>2. b + 1 \in 1 .. Len(queued) /\ queued[b + 1] = b
    BY <1>3
  <2> QED BY <1>3, <2>2 DEF Has
<1>6. PlaceInv'
  BY <1>3, <1>4, <1>5 DEF PlaceInv, Has, Distinct
<1>7. OrderInv'
  BY <1>3 DEF OrderInv, Last
<1> QED BY <1>1, <1>2, <1>6, <1>7

(* The grab: a buffer goes from filled to held to queued. *)
LEMMA DequeueInv ==
  ASSUME CamInv, NEW bytesused \in Sizes, Dequeue(bytesused)
  PROVE  CamInv'
<1> USE DEF CamInv, Dequeue, Go
<1>1. /\ filled \in Seq(0 .. count - 1) /\ filled # <<>>
      /\ Len(filled) \in Nat /\ Len(filled) > 0
      /\ Head(filled) = filled[1] /\ Head(filled) \in 0 .. count - 1
      /\ filled' \in Seq(0 .. count - 1)
      /\ Len(filled') = Len(filled) - 1
      /\ \A i \in 1 .. Len(filled) - 1 : filled'[i] = filled[i + 1]
  BY TailIs DEF TypeOK
<1>2. TypeOK'
  <2>1. size' \in 0 .. FrameSize /\ Len(copied') = 0
    BY CameraAssumption, EmptySeq DEF StageInv
  <2> QED BY <1>1, <2>1 DEF TypeOK, Places
<1>3. StageInv'
  BY DEF StageInv, Opening, Streaming
<1>4. PlaceInv'
  <2>1. /\ Distinct(queued') /\ Distinct(filled')
        /\ ~Has(filled', Head(filled)) /\ ~Has(queued', Head(filled))
    <3>1. Distinct(queued) /\ Distinct(filled) /\ Has(filled, Head(filled))
      BY <1>1 DEF PlaceInv, Streaming, Has
    <3>2. ~Has(queued, Head(filled))
      BY <1>1, <3>1 DEF PlaceInv, Streaming
    <3> QED BY <1>1, <3>1, <3>2, DistinctTail
  <2>2. \A b \in 0 .. count - 1 : Has(filled, b) <=> b = Head(filled) \/ Has(filled', b)
    BY <1>1, HasTail
  <2>3. /\ Len(queued') + Len(filled') + 1 = count
        /\ held' = {Head(filled)}
        /\ at' = "copy"
    BY <1>1, LenProperties DEF PlaceInv, Streaming, TypeOK
  <2>4. \A b \in 0 .. count - 1 :
          (Has(queued, b) \/ Has(filled, b)) /\ ~(Has(queued, b) /\ Has(filled, b))
    BY DEF PlaceInv, Streaming
  <2> QED BY ONLY <1>1, <2>1, <2>2, <2>3, <2>4, Dequeue(bytesused) DEF PlaceInv, Dequeue
<1>5. OrderInv'
  <2>1. /\ grabs <= Last /\ Last <= produced
        /\ \A i, j \in 1 .. Len(filled) : i < j => image[filled[i]] < image[filled[j]]
        /\ \A i \in 1 .. Len(filled) : Last < image[filled[i]] /\ image[filled[i]] <= produced
    BY DEF OrderInv, Streaming
  <2>2. /\ at' = "copy" /\ held' = {filled[1]} /\ UNCHANGED <<image, produced, grabs>>
        /\ Last' = Last /\ Len(copied') = 0
    BY <1>1, EmptySeq DEF Last, StageInv
  <2>3. \A i \in 1 .. Len(filled') : i + 1 \in 1 .. Len(filled) /\ 1 < i + 1
    BY <1>1
  <2>4. 1 \in 1 .. Len(filled)
    BY <1>1
  <2>5. \A i, j \in 1 .. Len(filled') : i < j => image[filled'[i]] < image[filled'[j]]
    BY ONLY <1>1, <2>1, <2>3
  <2> QED BY ONLY <1>1, <2>1, <2>2, <2>3, <2>4, <2>5 DEF OrderInv
<1> QED BY <1>2, <1>3, <1>4, <1>5

LEMMA CopyInv ==
  ASSUME CamInv, Copy
  PROVE  CamInv'
<1> USE DEF CamInv, Copy, Go, ring
<1>1. PICK b \in held : copied' = Append(copied, image[b])
  OBVIOUS
<1>2. held = {b} /\ b \in 0 .. count - 1 /\ b \in Buffers
  BY CameraAssumption DEF PlaceInv, Streaming, TypeOK, Buffers
<1>3. /\ Last < image[b] /\ image[b] \in 1 .. MaxFrames
      /\ \A i \in 1 .. Len(copied) : copied[i] = image[b]
  <2>1. Last \in Nat
    BY LastIsNat
  <2>2. Last < image[b] /\ image[b] \in 0 .. MaxFrames
    BY <1>2 DEF OrderInv, TypeOK
  <2> QED BY <1>2, <2>1, <2>2, CameraAssumption DEF OrderInv
<1>4. /\ copied' \in Seq(1 .. MaxFrames) /\ Len(copied') = Len(copied) + 1
      /\ Len(copied) \in Nat /\ size \in Nat
      /\ \A i \in 1 .. Len(copied') : copied'[i] = image[b]
  <2>1. copied \in Seq(1 .. MaxFrames) /\ Len(copied) \in Nat /\ size \in Nat
    BY LenProperties DEF TypeOK
  <2>2. /\ copied' \in Seq(1 .. MaxFrames) /\ Len(copied') = Len(copied) + 1
        /\ copied'[Len(copied) + 1] = image[b]
        /\ \A i \in 1 .. Len(copied) : copied'[i] = copied[i]
    BY <1>1, <1>3, <2>1, AppendProperties
  <2>3. \A i \in 1 .. Len(copied) + 1 : i \in 1 .. Len(copied) \/ i = Len(copied) + 1
    BY <2>1
  <2> QED BY <1>3, <2>1, <2>2, <2>3
<1>5. TypeOK'
  BY <1>4 DEF TypeOK, Places
<1>6. StageInv' /\ PlaceInv'
  BY DEF StageInv, PlaceInv, Opening, Streaming
<1>7. OrderInv'
  <2>1. UNCHANGED <<at, held, filled, image, produced, frame, grabs>> /\ at = "copy" /\ OrderInv
    OBVIOUS
  <2> QED BY ONLY <1>2, <1>4, <2>1 DEF OrderInv, Last, Streaming
<1> QED BY <1>5, <1>6, <1>7

(* What a grab that brought something hands out. *)
LEMMA HandedOut ==
  ASSUME CamInv, Len(copied) = size, at = "copy", size > 0
  PROVE  \E n \in 1 .. produced :
           /\ Last < n /\ n = copied[1] /\ copied # <<>>
           /\ copied = [i \in 1 .. size |-> n]
           /\ \A i \in 1 .. Len(filled) : n < image[filled[i]]
<1> USE DEF CamInv
<1>1. PICK b \in 0 .. count - 1 : held = {b}
  BY DEF PlaceInv, Streaming
<1>2. /\ b \in Buffers /\ copied \in Seq(1 .. MaxFrames) /\ size \in Nat /\ produced \in Nat
      /\ copied[1] \in 1 .. MaxFrames /\ copied # <<>>
  BY CameraAssumption, EmptySeq, ElementOfSeq DEF TypeOK, Buffers
<1>3. /\ Last < image[b] /\ image[b] <= produced
      /\ \A i \in 1 .. Len(filled) : image[b] < image[filled[i]]
      /\ \A i \in 1 .. Len(copied) : copied[i] = image[b]
  BY <1>1 DEF OrderInv
<1>4. copied[1] = image[b]
  BY <1>2, <1>3
<1>5. copied = [i \in 1 .. size |-> image[b]]
  <2>1. [i \in 1 .. size |-> image[b]] \in Seq(1 .. MaxFrames)
    BY <1>2, <1>4
  <2> QED BY <1>2, <1>3, <2>1, SeqEqual
<1>6. image[b] \in 1 .. produced
  BY <1>2, <1>3, <1>4
<1> QED BY <1>2, <1>3, <1>4, <1>5, <1>6

LEMMA RequeueInv ==
  ASSUME CamInv, Requeue
  PROVE  CamInv'
<1> USE DEF CamInv, Requeue, Go
<1>1. PICK b \in held : queued' = Append(queued, b)
  OBVIOUS
<1>2. /\ held = {b} /\ b \in 0 .. count - 1
      /\ queued \in Seq(0 .. count - 1) /\ Len(queued) \in Nat
      /\ queued' \in Seq(0 .. count - 1) /\ Len(queued') = Len(queued) + 1
  BY <1>1, AppendProperties, LenProperties DEF PlaceInv, Streaming, TypeOK
<1>3. /\ frame' \in Seq(1 .. MaxFrames) /\ OrderInv'
      /\ grabs' \in 0 .. MaxFrames
  <2>1. /\ OrderInv /\ at' = "started" /\ UNCHANGED <<filled, image, produced>>
        /\ produced \in 0 .. MaxFrames /\ grabs \in 0 .. MaxFrames /\ size \in Nat
        /\ frame \in Seq(1 .. MaxFrames) /\ copied \in Seq(1 .. MaxFrames)
        /\ at \in Streaming
    BY DEF TypeOK, Streaming
  <2>2. CASE size > 0
    <3>1. frame' = copied /\ grabs' = grabs + 1
      BY <2>2
    <3>2. PICK n \in 1 .. produced :
            /\ Last < n /\ n = copied[1] /\ copied # <<>>
            /\ \A i \in 1 .. Len(filled) : n < image[filled[i]]
      BY <2>2, HandedOut
    <3>3. Last' = n
      BY <3>1, <3>2 DEF Last
    <3>4. Last \in Nat
      BY LastIsNat
    <3>5. grabs \in Nat /\ n \in Nat /\ grabs <= Last
      BY ONLY <2>1, <3>2 DEF OrderInv
    <3>6. grabs' <= n /\ n <= produced /\ grabs' \in 0 .. MaxFrames
      BY ONLY <2>1, <3>1, <3>2, <3>4, <3>5, CameraAssumption
    <3>7. frame' \in Seq(1 .. MaxFrames)
      BY ONLY <2>1, <3>1
    <3> QED BY ONLY <2>1, <3>2, <3>3, <3>6, <3>7 DEF OrderInv
  <2>3. CASE ~(size > 0)
    <3>1. frame' = frame /\ grabs' = grabs /\ Last' = Last
      BY <2>3 DEF Last
    <3> QED BY ONLY <2>1, <3>1 DEF OrderInv
  <2> QED BY <2>2, <2>3
<1>4. TypeOK' /\ StageInv'
  <2>1. TypeOK'
    BY <1>2, <1>3, EmptySeq, CameraAssumption DEF TypeOK, Places
  <2>2. StageInv'
    BY DEF StageInv, Opening, Streaming
  <2> QED BY <2>1, <2>2
<1>5. PlaceInv'
  <2>1. /\ Distinct(queued) /\ Distinct(filled)
        /\ ~Has(queued, b) /\ ~Has(filled, b)
    BY <1>2 DEF PlaceInv, Streaming
  <2>2. Distinct(queued')
    BY <1>1, <1>2, <2>1, DistinctAppend
  <2>3. \A c \in 0 .. count - 1 : Has(queued', c) <=> Has(queued, c) \/ c = b
    BY <1>1, <1>2, HasAppend
  <2>4. /\ Len(queued) + Len(filled) + 1 = count
        /\ \A c \in 0 .. count - 1 :
             /\ Has(queued, c) \/ Has(filled, c) \/ c = b
             /\ ~(Has(queued, c) /\ Has(filled, c))
    BY <1>2 DEF PlaceInv, Streaming
  <2>5. Len(queued') + Len(filled') = count /\ Len(filled) \in Nat
    BY <1>2, <2>4, LenProperties DEF TypeOK
  <2>6. at' = "started" /\ held' = {} /\ filled' = filled /\ count' = count
    OBVIOUS
  <2> QED BY ONLY <2>1, <2>2, <2>3, <2>4, <2>5, <2>6, <1>2 DEF PlaceInv
<1> QED BY <1>3, <1>4, <1>5

LEMMA EndInv ==
  ASSUME CamInv, Close \/ ProcessEnds
  PROVE  CamInv'
<1>1. /\ at' \in {"done", "closed"} /\ fd' = FALSE
      /\ queued' = <<>> /\ filled' = <<>> /\ held' = {} /\ mapped' = {}
      /\ streaming' = FALSE /\ produced' = 0
      /\ size' = 0 /\ copied' = <<>> /\ frame' = <<>> /\ grabs' = 0
      /\ image' = [b \in Buffers |-> 0]
      /\ count' \in 0 .. MaxGranted /\ next' \in 0 .. MaxGranted
  <2>1. CASE Close
    <3>1. mapped \subseteq 0 .. VCAP_BUF_COUNT - 1
      BY <2>1 DEF CamInv, StageInv, Close, Go
    <3>2. mapped' = {}
      BY <2>1, <3>1 DEF Close
    <3> QED BY <2>1, <3>2 DEF CamInv, TypeOK, Close, StreamEnds, Go
  <2>2. CASE ProcessEnds
    BY <2>2, CameraAssumption DEF ProcessEnds, StreamEnds
  <2> QED BY <2>1, <2>2
<1>2. TypeOK'
  <2>1. /\ queued' \in Seq(0 .. count' - 1) /\ filled' \in Seq(0 .. count' - 1)
        /\ copied' \in Seq(1 .. MaxFrames) /\ frame' \in Seq(1 .. MaxFrames)
        /\ Len(copied') <= size'
    BY <1>1, EmptyIsSeq, EmptySeq
  <2>2. 0 \in 0 .. MaxFrames /\ 0 \in 0 .. FrameSize
    BY CameraAssumption
  <2> QED BY <1>1, <2>1, <2>2 DEF TypeOK, Places
<1>3. StageInv'
  BY <1>1 DEF StageInv, Opening, Streaming
<1>4. PlaceInv' /\ OrderInv'
  <2>1. at' \notin Streaming /\ at' # "copy" /\ grabs' <= Last' /\ Last' <= produced'
    BY <1>1 DEF Streaming, Last
  <2> QED BY <2>1 DEF PlaceInv, OrderInv
<1> QED BY <1>2, <1>3, <1>4 DEF CamInv

LEMMA DropInv ==
  ASSUME CamInv, Drop
  PROVE  CamInv'
<1> USE DEF CamInv, Drop, ring, grab
<1>1. TypeOK'
  BY CameraAssumption DEF TypeOK
<1>2. StageInv' /\ PlaceInv'
  BY DEF StageInv, PlaceInv, Opening, Streaming
<1>3. OrderInv'
  <2>1. /\ produced \in Nat /\ produced' = produced + 1
        /\ UNCHANGED <<at, held, filled, image, copied, grabs>>
        /\ Last \in Nat /\ Last' = Last
    BY LastIsNat DEF TypeOK, Last
  <2>2. \A b \in 0 .. count - 1 : image[b] \in Nat
    BY CameraAssumption DEF TypeOK, Buffers
  <2>3. \A i \in 1 .. Len(filled) : image[filled[i]] \in Nat
    BY <2>2, ElementOfSeq DEF TypeOK
  <2>4. \A b \in held : image[b] \in Nat
    BY <2>2 DEF TypeOK
  <2>5. OrderInv
    OBVIOUS
  <2> QED BY ONLY <2>1, <2>3, <2>4, <2>5 DEF OrderInv
<1> QED BY <1>1, <1>2, <1>3

(* The driver: a buffer goes from queued to filled and gets a newer frame. *)
LEMMA FillInv ==
  ASSUME CamInv, Fill
  PROVE  CamInv'
<1> USE DEF CamInv, Fill, grab
<1> DEFINE b == Head(queued)
<1>1. /\ queued \in Seq(0 .. count - 1) /\ queued # <<>> /\ Len(queued) \in Nat
      /\ b \in 0 .. count - 1
      /\ queued' \in Seq(0 .. count - 1) /\ Len(queued') = Len(queued) - 1
  BY TailIs DEF TypeOK
<1>2. /\ filled \in Seq(0 .. count - 1) /\ Len(filled) \in Nat
      /\ filled' \in Seq(0 .. count - 1) /\ Len(filled') = Len(filled) + 1
      /\ filled'[Len(filled) + 1] = b
      /\ \A i \in 1 .. Len(filled) : filled'[i] = filled[i]
  BY <1>1, AppendProperties, LenProperties DEF TypeOK
<1>3. /\ b \in Buffers /\ image \in [Buffers -> 0 .. MaxFrames]
      /\ image' = [image EXCEPT ![b] = produced + 1]
      /\ produced' = produced + 1 /\ produced + 1 \in 0 .. MaxFrames
      /\ produced \in Nat /\ Last \in Nat
      /\ UNCHANGED <<grabs, copied>> /\ Last' = Last
  <2>1. Last \in Nat /\ UNCHANGED <<grabs, copied>> /\ Last' = Last
    BY LastIsNat DEF Last
  <2> QED BY <1>1, <2>1, CameraAssumption DEF TypeOK, Buffers
<1>4. TypeOK'
  BY <1>1, <1>2, <1>3 DEF TypeOK
<1>5. StageInv'
  BY DEF StageInv, Opening, Streaming
<1>6. CASE at \in Streaming
  <2> HIDE DEF b
  <2>1. /\ Distinct(queued) /\ Distinct(filled) /\ Has(queued, b)
        /\ ~Has(filled, b) /\ b \notin held
    <3>1. Has(queued, b)
      BY <1>1, TailIs DEF Has, b
    <3> QED BY <1>1, <1>6, <3>1 DEF PlaceInv
  <2>2. PlaceInv'
    <3>1. Distinct(queued') /\ ~Has(queued', b)
      BY <1>1, <2>1, DistinctTail DEF b
    <3>2. Distinct(filled')
      BY <1>1, <1>2, <2>1, DistinctAppend DEF b
    <3>3. \A c \in 0 .. count - 1 : Has(queued, c) <=> c = b \/ Has(queued', c)
      BY <1>1, HasTail DEF b
    <3>4. \A c \in 0 .. count - 1 : Has(filled', c) <=> Has(filled, c) \/ c = b
      BY <1>1, <1>2, HasAppend DEF b
    <3>5. Len(queued') + Len(filled') = Len(queued) + Len(filled)
      BY <1>1, <1>2
    <3>6. UNCHANGED <<at, count, held>> /\ PlaceInv
      OBVIOUS
    <3> QED BY ONLY <1>1, <1>6, <2>1, <3>1, <3>2, <3>3, <3>4, <3>5, <3>6 DEF PlaceInv
  <2>3. OrderInv'
    <3>1. \A i \in 1 .. Len(filled) : filled[i] # b /\ filled[i] \in Buffers
      <4>1. \A i \in 1 .. Len(filled) : filled[i] \in 0 .. count - 1
        BY <1>2, ElementOfSeq
      <4>2. 0 .. count - 1 \subseteq Buffers
        BY CameraAssumption DEF TypeOK, Buffers
      <4> QED BY ONLY <2>1, <4>1, <4>2 DEF Has
    <3>2. \A i \in 1 .. Len(filled) : image'[filled'[i]] = image[filled[i]]
      BY <1>2, <1>3, <3>1
    <3>3. image'[filled'[Len(filled) + 1]] = produced + 1
      BY <1>2, <1>3
    <3>4. /\ grabs <= Last /\ Last <= produced
          /\ \A i, j \in 1 .. Len(filled) : i < j => image[filled[i]] < image[filled[j]]
          /\ \A i \in 1 .. Len(filled) : Last < image[filled[i]] /\ image[filled[i]] <= produced
      BY <1>6 DEF OrderInv
    <3>5. \A i \in 1 .. Len(filled) : image[filled[i]] \in Nat
      BY <1>3, <3>1
    <3>6. \A i, j \in 1 .. Len(filled') : i < j => image'[filled'[i]] < image'[filled'[j]]
      <4>1. SUFFICES ASSUME NEW i \in 1 .. Len(filled'), NEW j \in 1 .. Len(filled'), i < j
                     PROVE  image'[filled'[i]] < image'[filled'[j]]
        OBVIOUS
      <4>2. i \in 1 .. Len(filled) /\ (j \in 1 .. Len(filled) \/ j = Len(filled) + 1)
        BY ONLY <1>2, <4>1
      <4>3. CASE j \in 1 .. Len(filled)
        BY ONLY <3>2, <3>4, <4>1, <4>2, <4>3
      <4>4. CASE j = Len(filled) + 1
        BY ONLY <1>3, <3>2, <3>3, <3>4, <3>5, <4>2, <4>4
      <4> QED BY <4>2, <4>3, <4>4
    <3>7. \A i \in 1 .. Len(filled') :
            Last' < image'[filled'[i]] /\ image'[filled'[i]] <= produced'
      <4>1. Last' = Last
        BY <1>3
      <4> QED BY ONLY <1>2, <1>3, <3>2, <3>3, <3>4, <3>5, <4>1
    <3>8. ASSUME at = "copy", NEW c \in held
          PROVE  /\ Last < image'[c] /\ image'[c] <= produced'
                 /\ \A i \in 1 .. Len(filled') : image'[c] < image'[filled'[i]]
                 /\ \A i \in 1 .. Len(copied') : copied'[i] = image'[c]
      <4>1. /\ image'[c] = image[c] /\ image[c] \in Nat
        <5>1. c \in Buffers /\ c # b
          BY <2>1, CameraAssumption DEF TypeOK, Buffers
        <5> QED BY ONLY <1>3, <5>1
      <4>2. /\ Last < image[c] /\ image[c] <= produced
            /\ \A i \in 1 .. Len(filled) : image[c] < image[filled[i]]
            /\ \A i \in 1 .. Len(copied) : copied[i] = image[c]
        BY <3>8 DEF OrderInv
      <4>3. image'[c] < produced + 1
        BY ONLY <1>3, <4>1, <4>2
      <4>4. \A i \in 1 .. Len(filled') : i \in 1 .. Len(filled) \/ i = Len(filled) + 1
        BY ONLY <1>2
      <4>5. \A i \in 1 .. Len(filled') : image'[c] < image'[filled'[i]]
        BY ONLY <3>2, <3>3, <4>1, <4>2, <4>3, <4>4
      <4> QED BY ONLY <1>3, <4>1, <4>2, <4>5
    <3>9. at' = at /\ held' = held /\ grabs' <= Last' /\ Last' <= produced' /\ Last' = Last
      BY <1>3, <3>4
    <3> QED BY ONLY <3>6, <3>7, <3>8, <3>9 DEF OrderInv
  <2> QED BY <1>4, <1>5, <2>2, <2>3
<1>7. CASE at \notin Streaming
  <2>1. PlaceInv' /\ OrderInv'
    <3>1. at' \notin Streaming /\ grabs' <= Last' /\ Last' <= produced'
      BY <1>3, <1>7 DEF OrderInv
    <3> QED BY <3>1 DEF PlaceInv, OrderInv, Streaming
  <2> QED BY <1>4, <1>5, <2>1
<1> QED BY <1>6, <1>7

LEMMA CamNext == CamInv /\ [Next]_vars => CamInv'
<1> SUFFICES ASSUME CamInv, [Next]_vars PROVE CamInv'
  OBVIOUS
<1>1. CASE ThreadStep
  BY <1>1, StillInv, GrantedInv, MapBufferInv, QueueBufferInv, StartInv, DequeueInv, CopyInv,
     RequeueInv, LeaveInv, EndInv DEF ThreadStep, Still
<1>2. CASE Driver \/ ProcessEnds
  BY <1>2, FillInv, DropInv, EndInv DEF Driver
<1>3. CASE UNCHANGED vars
  <2>1. TypeOK'
    BY <1>3 DEF vars, rest, ring, grab, CamInv, TypeOK
  <2>2. StageInv'
    BY <1>3 DEF vars, rest, ring, grab, CamInv, StageInv
  <2>3. PlaceInv'
    BY <1>3 DEF vars, rest, ring, grab, CamInv, PlaceInv
  <2>4. OrderInv'
    BY <1>3 DEF vars, rest, ring, grab, CamInv, OrderInv, Last
  <2> QED BY <2>1, <2>2, <2>3, <2>4 DEF CamInv
<1> QED BY <1>1, <1>2, <1>3 DEF Next

THEOREM CamInvariance == Spec => []CamInv
BY CamInit, CamNext, PTL DEF Spec

LEMMA InDriverIsHas ==
  ASSUME TypeOK, NEW b
  PROVE  InDriver(b) <=> Has(queued, b) \/ Has(filled, b)
<1>1. /\ queued \in Seq(0 .. count - 1) /\ filled \in Seq(0 .. count - 1)
      /\ Len(queued) \in Nat /\ Len(filled) \in Nat
  BY LenProperties DEF TypeOK
<1>2. \A i \in 1 .. Len(queued) + Len(filled) :
        (queued \o filled)[i] = IF i <= Len(queued) THEN queued[i] ELSE filled[i - Len(queued)]
  BY <1>1, ConcatProperties
<1>3. InDriver(b) => Has(queued, b) \/ Has(filled, b)
  <2>1. SUFFICES ASSUME NEW i \in 1 .. Len(queued) + Len(filled), (queued \o filled)[i] = b
                 PROVE  Has(queued, b) \/ Has(filled, b)
    BY DEF InDriver
  <2>2. CASE i <= Len(queued)
    BY <1>1, <1>2, <2>1, <2>2 DEF Has
  <2>3. CASE i > Len(queued)
    <3>1. i - Len(queued) \in 1 .. Len(filled) /\ filled[i - Len(queued)] = b
      BY <1>1, <1>2, <2>1, <2>3
    <3> QED BY <3>1 DEF Has
  <2> QED BY <1>1, <2>2, <2>3
<1>4. Has(queued, b) => InDriver(b)
  <2>1. SUFFICES ASSUME NEW i \in 1 .. Len(queued), queued[i] = b PROVE InDriver(b)
    BY DEF Has
  <2>2. i \in 1 .. Len(queued) + Len(filled) /\ i <= Len(queued)
    BY <1>1
  <2> QED BY <1>2, <2>1, <2>2 DEF InDriver
<1>5. Has(filled, b) => InDriver(b)
  <2>1. SUFFICES ASSUME NEW i \in 1 .. Len(filled), filled[i] = b PROVE InDriver(b)
    BY DEF Has
  <2>2. /\ i + Len(queued) \in 1 .. Len(queued) + Len(filled) /\ ~(i + Len(queued) <= Len(queued))
        /\ (i + Len(queued)) - Len(queued) = i
    BY <1>1
  <2> QED BY <1>2, <2>1, <2>2 DEF InDriver
<1> QED BY <1>3, <1>4, <1>5

(* No buffer is lost or owned twice: the driver never writes into the one  *)
(* that is being copied, whatever number of buffers it granted.            *)
THEOREM BuffersSafe == BoardSpec => []BuffersAccounted
<1>1. CamInv => BuffersAccounted
  <2>1. SUFFICES ASSUME CamInv, at \in Streaming
                 PROVE  /\ Len(queued) + Len(filled) + (IF at = "started" THEN 0 ELSE 1) = count
                        /\ \A b \in 0 .. count - 1 : InDriver(b) \/ b \in held
                        /\ \A b \in held : ~InDriver(b)
    BY DEF BuffersAccounted, Streaming
  <2>2. \A b : InDriver(b) <=> Has(queued, b) \/ Has(filled, b)
    BY <2>1, InDriverIsHas DEF CamInv
  <2>3. held \subseteq 0 .. count - 1
    BY <2>1 DEF CamInv, TypeOK
  <2> QED BY <2>1, <2>2, <2>3 DEF CamInv, PlaceInv
<1> QED BY <1>1, CamInvariance, BoardIsCamera, PTL

(* What vcap_grab() hands out is of one frame that the sensor made and of  *)
(* a later one than the time before: the capture code implements           *)
(* FrameSource.                                                            *)
THEOREM GrabImplementsSource == BoardSpec => FramesAreNew
<1>1. Init => Source!Init
  BY DEF Init, Source!Init
<1>2. CamInv /\ [Next]_vars => [Source!Next]_(Source!vars)
  <2> SUFFICES ASSUME CamInv, [Next]_vars PROVE [Source!Next]_(Source!vars)
    OBVIOUS
  <2> USE DEF Source!Next, Source!vars
  <2>1. CASE Still \/ (\E n \in 1 .. MaxGranted : Granted(n)) \/ MapBuffer \/ QueueBuffer
             \/ (\E bytesused \in Sizes : Dequeue(bytesused)) \/ Copy \/ Leave
             \/ UNCHANGED vars
    <3>1. UNCHANGED <<streaming, produced, frame, grabs>>
      BY <2>1
      DEF Still, Open, OpenFailed, Negotiated, Opened, Fail, StartFailed, Leave, Granted,
          MapBuffer, QueueBuffer, Dequeue, Copy, vars, rest, grab
    <3> QED BY <3>1
  <2>2. CASE Start
    BY <2>2 DEF Start, Go, grab, Source!On, CamInv, StageInv, Streaming
  <2>3. CASE Requeue
    <3>1. CASE size > 0
      <4>1. PICK n \in 1 .. produced : Last < n /\ copied = [i \in 1 .. size |-> n]
        BY <2>3, <3>1, HandedOut DEF Requeue, Go
      <4>2. Source!Later(n)
        BY <4>1 DEF Source!Later, Last
      <4>3. size \in 1 .. FrameSize /\ streaming
        BY <2>3, <3>1, CameraAssumption DEF Requeue, Go, CamInv, TypeOK, StageInv, Streaming
      <4>4. frame' = copied /\ grabs' = grabs + 1 /\ UNCHANGED <<streaming, produced>>
        BY <2>3, <3>1 DEF Requeue
      <4> QED BY <4>1, <4>2, <4>3, <4>4 DEF Source!Take
    <3>2. CASE ~(size > 0)
      BY <2>3, <3>2 DEF Requeue
    <3> QED BY <3>1, <3>2
  <2>4. CASE Close \/ ProcessEnds
    BY <2>4 DEF Close, ProcessEnds, StreamEnds, Source!Off
  <2>5. CASE Driver
    BY <2>5 DEF Driver, Fill, Drop, grab, Source!Show
  <2> QED BY <2>1, <2>2, <2>3, <2>4, <2>5 DEF Next, ThreadStep, Still
<1> QED BY <1>1, <1>2, CamInvariance, BoardIsCamera, PTL DEF Spec, FramesAreNew, Source!Spec

(* However the last gateway ended, the next one finds the camera closed,   *)
(* without a descriptor, a stream or a mapping left.                       *)
THEOREM CameraAlwaysFree == BoardSpec => []CameraFree
<1> DEFINE Ended == Gateway \notin running => at = "closed"
<1>1. BoardInit => Ended
  BY DEF BoardInit, Init
<1>2. Ended /\ [BoardNext]_boardVars => Ended'
  <2> SUFFICES ASSUME Ended, [BoardNext]_boardVars PROVE Ended'
    OBVIOUS
  <2>1. CASE CaptureStep
    BY <2>1 DEF CaptureStep, ThreadsRun, pinVars
  <2>2. CASE DriverStep
    BY <2>2 DEF DriverStep, Driver, Fill, Drop, pinVars
  <2>3. CASE PinStep
    BY <2>3 DEF PinStep, StartProgram, Call, Write, vars
  <2>4. CASE \E q \in Programs : EndProcess(q)
    BY <2>4 DEF EndProcess, EndProgram, ProcessEnds, vars
  <2>5. CASE UNCHANGED boardVars
    BY <2>5 DEF boardVars, vars, pinVars
  <2> QED BY <2>1, <2>2, <2>3, <2>4, <2>5 DEF BoardNext
<1>3. CamInv => CameraReleased
  BY DEF CamInv, StageInv, CameraReleased, Streaming
<1>4. CameraReleased /\ Ended => CameraFree
  BY DEF CameraFree
<1> QED BY <1>1, <1>2, <1>3, <1>4, CamInvariance, BoardIsCamera, PTL DEF BoardSpec

-----------------------------------------------------------------------------
(* The pins.  What one list of writes guarantees, whoever interleaves.     *)

(* Every write of the value "1" to the relay or the buzzer is followed by  *)
(* one that switches it off.                                               *)
Loud(w, p) == w.op = "value" /\ w.pin = p /\ w.val = "1"
Covered(t) ==
  \A p \in {Relay, Buzzer} : \A i \in 1 .. Len(t) :
    Loud(t[i], p) => \E j \in i + 1 .. Len(t) : SwitchesOff(t[j], p)
Silencing(t) == \A p \in {Relay, Buzzer} : \E j \in 1 .. Len(t) : SwitchesOff(t[j], p)

(* The writes the code makes: all pins but the sensor are outputs. *)
SaneWrites ==
  {w \in Writes : /\ w.op = "direction" => w.val = (IF w.pin = IR THEN "in" ELSE "out")
                  /\ w.op = "value" => w.val \in {"0", "1"}}

LEMMA ConcatIs ==
  ASSUME NEW S, NEW t \in Seq(S), NEW u \in Seq(S)
  PROVE  /\ t \o u \in Seq(S)
         /\ Len(t) \in Nat /\ Len(u) \in Nat
         /\ Len(t \o u) = Len(t) + Len(u)
         /\ \A i \in 1 .. Len(t) : (t \o u)[i] = t[i]
         /\ \A i \in 1 .. Len(u) : (t \o u)[Len(t) + i] = u[i]
         /\ \A i \in 1 .. Len(t \o u) : i \in 1 .. Len(t) \/ i - Len(t) \in 1 .. Len(u)
<1>1. /\ t \o u \in Seq(S) /\ Len(t) \in Nat /\ Len(u) \in Nat
      /\ Len(t \o u) = Len(t) + Len(u)
      /\ \A i \in 1 .. Len(t) + Len(u) :
           (t \o u)[i] = IF i <= Len(t) THEN t[i] ELSE u[i - Len(t)]
  BY ConcatProperties, LenProperties
<1>2. \A i \in 1 .. Len(t) : (t \o u)[i] = t[i]
  BY <1>1
<1>3. \A i \in 1 .. Len(u) : (t \o u)[Len(t) + i] = u[i]
  <2>1. SUFFICES ASSUME NEW i \in 1 .. Len(u) PROVE (t \o u)[Len(t) + i] = u[i]
    OBVIOUS
  <2>2. /\ Len(t) + i \in 1 .. Len(t) + Len(u) /\ ~(Len(t) + i <= Len(t))
        /\ (Len(t) + i) - Len(t) = i
    BY <1>1
  <2> QED BY <1>1, <2>2
<1>4. \A i \in 1 .. Len(t \o u) : i \in 1 .. Len(t) \/ i - Len(t) \in 1 .. Len(u)
  BY <1>1
<1> QED BY <1>1, <1>2, <1>3, <1>4

LEMMA SilencingConcat ==
  ASSUME NEW t \in Seq(SaneWrites), NEW u \in Seq(SaneWrites), Silencing(t) \/ Silencing(u)
  PROVE  Silencing(t \o u)
<1>1. /\ Len(t) \in Nat /\ Len(u) \in Nat /\ Len(t \o u) = Len(t) + Len(u)
      /\ \A i \in 1 .. Len(t) : (t \o u)[i] = t[i]
      /\ \A i \in 1 .. Len(u) : (t \o u)[Len(t) + i] = u[i]
  BY ConcatIs
<1>2. SUFFICES ASSUME NEW p \in {Relay, Buzzer}
               PROVE  \E j \in 1 .. Len(t \o u) : SwitchesOff((t \o u)[j], p)
  BY DEF Silencing
<1>3. CASE Silencing(t)
  <2>1. PICK j \in 1 .. Len(t) : SwitchesOff(t[j], p)
    BY <1>3 DEF Silencing
  <2>2. j \in 1 .. Len(t \o u) /\ (t \o u)[j] = t[j]
    BY <1>1
  <2> QED BY <2>1, <2>2
<1>4. CASE Silencing(u)
  <2>1. PICK j \in 1 .. Len(u) : SwitchesOff(u[j], p)
    BY <1>4 DEF Silencing
  <2>2. Len(t) + j \in 1 .. Len(t \o u) /\ (t \o u)[Len(t) + j] = u[j]
    BY <1>1
  <2> QED BY <2>1, <2>2
<1> QED BY <1>3, <1>4

(* A covered list stays so in front of another, and a list that ends with  *)
(* a covered one which switches both off is covered.                       *)
LEMMA CoveredConcat ==
  ASSUME NEW t \in Seq(SaneWrites), NEW u \in Seq(SaneWrites),
         Covered(u), Covered(t) \/ Silencing(u)
  PROVE  Covered(t \o u)
<1>1. /\ Len(t) \in Nat /\ Len(u) \in Nat /\ Len(t \o u) = Len(t) + Len(u)
      /\ \A i \in 1 .. Len(t) : (t \o u)[i] = t[i]
      /\ \A i \in 1 .. Len(u) : (t \o u)[Len(t) + i] = u[i]
      /\ \A i \in 1 .. Len(t \o u) : i \in 1 .. Len(t) \/ i - Len(t) \in 1 .. Len(u)
  BY ConcatIs
<1>2. SUFFICES ASSUME NEW p \in {Relay, Buzzer}, NEW i \in 1 .. Len(t \o u), Loud((t \o u)[i], p)
               PROVE  \E j \in i + 1 .. Len(t \o u) : SwitchesOff((t \o u)[j], p)
  BY DEF Covered
<1>3. CASE i \in 1 .. Len(t) /\ Covered(t)
  <2>1. PICK j \in i + 1 .. Len(t) : SwitchesOff(t[j], p)
    BY <1>1, <1>2, <1>3 DEF Covered
  <2>2. j \in 1 .. Len(t) /\ j \in i + 1 .. Len(t \o u)
    BY <1>1, <1>3
  <2>3. (t \o u)[j] = t[j]
    BY <1>1, <2>2
  <2> QED BY <2>1, <2>2, <2>3
<1>4. CASE i \in 1 .. Len(t) /\ Silencing(u)
  <2>1. PICK j \in 1 .. Len(u) : SwitchesOff(u[j], p)
    BY <1>4 DEF Silencing
  <2>2. Len(t) + j \in i + 1 .. Len(t \o u)
    BY <1>1, <1>4
  <2>3. (t \o u)[Len(t) + j] = u[j]
    BY <1>1
  <2> QED BY <2>1, <2>2, <2>3
<1>5. CASE i - Len(t) \in 1 .. Len(u)
  <2>1. (t \o u)[i] = u[i - Len(t)]
    <3>1. Len(t) + (i - Len(t)) = i
      BY <1>1
    <3> QED BY <1>1, <1>5, <3>1
  <2>2. PICK j \in (i - Len(t)) + 1 .. Len(u) : SwitchesOff(u[j], p)
    BY <1>2, <1>5, <2>1 DEF Covered
  <2>3. j \in 1 .. Len(u) /\ Len(t) + j \in i + 1 .. Len(t \o u)
    BY <1>1, <1>5
  <2>4. (t \o u)[Len(t) + j] = u[j]
    BY <1>1, <2>3
  <2> QED BY <2>2, <2>3, <2>4
<1> QED BY <1>1, <1>3, <1>4, <1>5

(* A list that does not touch relay and buzzer is covered. *)
Quiet(t) == \A i \in 1 .. Len(t) : t[i].pin \notin {Relay, Buzzer}

LEMMA QuietIsCovered == ASSUME NEW t, Quiet(t) PROVE Covered(t)
BY DEF Quiet, Covered, Loud

LEMMA SaneOnes ==
  ASSUME NEW p \in Pins
  PROVE  On(p) \in SaneWrites /\ Off(p) \in SaneWrites /\ Out(p) \in SaneWrites
BY DEF On, Off, Out, SaneWrites, Writes

LEMMA Rgb ==
  ASSUME NEW color
  PROVE  rgb_led(color) \in Seq(SaneWrites) /\ Quiet(rgb_led(color))
<1> DEFINE P(i) == <<Red, Green, Blue>>[i]
<1>1. \A i \in 1 .. 3 : P(i) \in {Red, Green, Blue}
  OBVIOUS
<1>2. rgb_led(color) = [i \in 1 .. 3 |-> IF P(i) \in Lit[color] THEN On(P(i)) ELSE Off(P(i))]
  BY DEF rgb_led
<1>3. \A i \in 1 .. 3 : /\ P(i) \in Pins \ {Relay, Buzzer}
                        /\ On(P(i)).pin = P(i) /\ Off(P(i)).pin = P(i)
  BY <1>1 DEF On, Off, Pins, Outputs, Red, Green, Blue, Relay, Buzzer
<1> HIDE DEF P
<1>4. /\ rgb_led(color) \in [1 .. 3 -> SaneWrites]
      /\ \A i \in 1 .. 3 : rgb_led(color)[i].pin = P(i)
  BY <1>2, <1>3, SaneOnes
<1>5. rgb_led(color) \in Seq(SaneWrites)
  BY <1>4, SeqDef
<1>6. DOMAIN rgb_led(color) = 1 .. Len(rgb_led(color)) /\ DOMAIN rgb_led(color) = 1 .. 3
  BY <1>4, <1>5, LenProperties
<1> QED BY <1>3, <1>4, <1>5, <1>6 DEF Quiet

(* The two halves of an alarm. *)
LEMMA ClearIs == Clear \in Seq(SaneWrites) /\ Covered(Clear) /\ Silencing(Clear)
<1> DEFINE t == <<Off(Buzzer), Off(Relay)>>
           u == rgb_led("green")
<1>1. /\ t \in Seq(SaneWrites) /\ Len(t) = 2 /\ t[1] = Off(Buzzer) /\ t[2] = Off(Relay)
  <2>1. Off(Buzzer) \in SaneWrites /\ Off(Relay) \in SaneWrites
    BY SaneOnes DEF Pins, Outputs
  <2> QED BY <2>1
<1>2. u \in Seq(SaneWrites) /\ Covered(u)
  BY Rgb, QuietIsCovered
<1>3. \A p : SwitchesOff(Off(p), p) /\ \A r : ~Loud(Off(p), r)
  BY DEF SwitchesOff, Off, Loud
<1> HIDE DEF t, u
<1>4. Covered(t)
  BY <1>1, <1>3 DEF Covered
<1>5. Silencing(t)
  BY <1>1, <1>3 DEF Silencing
<1>6. t \o u \in Seq(SaneWrites) /\ Covered(t \o u) /\ Silencing(t \o u)
  BY <1>1, <1>2, <1>4, <1>5, ConcatIs, CoveredConcat, SilencingConcat
<1>7. Clear = t \o u
  BY DEF Clear, t, u
<1> QED BY <1>6, <1>7

LEMMA AlarmIs == trigger_alarm \in Seq(SaneWrites) /\ Covered(trigger_alarm)
<1>1. <<On(Buzzer), On(Relay)>> \in Seq(SaneWrites)
  <2>1. On(Buzzer) \in SaneWrites /\ On(Relay) \in SaneWrites
    BY SaneOnes DEF Pins, Outputs
  <2> QED BY <2>1
<1>2. Sound \in Seq(SaneWrites)
  BY <1>1, Rgb, ConcatIs DEF Sound
<1> QED BY <1>2, ClearIs, ConcatIs, CoveredConcat DEF trigger_alarm

LEMMA DemoIs == Script["demo"] \in Seq(SaneWrites) /\ Covered(Script["demo"])
<1> DEFINE both(t) == t \in Seq(SaneWrites) /\ Covered(t)
           pairs == <<On(Buzzer), Off(Buzzer), On(Relay), Off(Relay)>>
           r1 == rgb_led("red") \o rgb_led("green")
           r2 == r1 \o rgb_led("blue")
           r3 == r2 \o rgb_led("white")
           r4 == r3 \o rgb_led("off")
           r5 == r4 \o pairs
<1>1. both(pairs)
  <2>1. /\ On(Buzzer) \in SaneWrites /\ On(Relay) \in SaneWrites
        /\ Off(Buzzer) \in SaneWrites /\ Off(Relay) \in SaneWrites
    BY SaneOnes DEF Pins, Outputs
  <2>2. /\ pairs \in Seq(SaneWrites) /\ Len(pairs) = 4
        /\ pairs[1] = On(Buzzer) /\ pairs[2] = Off(Buzzer)
        /\ pairs[3] = On(Relay) /\ pairs[4] = Off(Relay)
    BY <2>1
  <2> HIDE DEF pairs
  <2>3. SUFFICES ASSUME NEW p \in {Relay, Buzzer}, NEW i \in 1 .. 4, Loud(pairs[i], p)
                 PROVE  \E j \in i + 1 .. 4 : SwitchesOff(pairs[j], p)
    BY <2>2 DEF Covered
  <2>4. i \in {1, 3} /\ pairs[i] = On(p) /\ pairs[i + 1] = Off(p)
    BY <2>2, <2>3 DEF Loud, On, Off, Relay, Buzzer
  <2> QED BY <2>4 DEF SwitchesOff, Off
<1>2. \A c : both(rgb_led(c))
  BY Rgb, QuietIsCovered
<1>3. both(trigger_alarm)
  BY AlarmIs
<1> HIDE DEF pairs
<1>4. \A t, u : both(t) /\ both(u) => both(t \o u)
  BY ConcatIs, CoveredConcat
<1>5. Script["demo"] = r5 \o trigger_alarm
  <2>1. Script["demo"] = rgb_led("red") \o rgb_led("green") \o rgb_led("blue")
          \o rgb_led("white") \o rgb_led("off")
          \o <<On(Buzzer), Off(Buzzer), On(Relay), Off(Relay)>> \o trigger_alarm
    BY DEF Script
  <2> QED BY <2>1 DEF pairs
<1> HIDE DEF both
<1>6. both(r1)
  BY <1>2, <1>4
<1>7. both(r2)
  BY <1>2, <1>4, <1>6
<1>8. both(r3)
  BY <1>2, <1>4, <1>7
<1>9. both(r5)
  BY <1>1, <1>2, <1>4, <1>8
<1>10. both(Script["demo"])
  BY <1>3, <1>4, <1>5, <1>9
<1> QED BY <1>10 DEF both

(* The start of a program switches both off and has no loud write. *)
LEMMA ExportIs ==
  /\ gpio_export_all \in Seq(SaneWrites)
  /\ Covered(gpio_export_all)
  /\ Silencing(gpio_export_all)
<1> DEFINE t == [i \in 1 .. 6 |-> [op |-> "export", pin |-> Order[i], val |-> "0"]]
           u == [i \in 1 .. 6 |-> Out(Order[i])]
<1>1. /\ \A i \in 1 .. 6 : Order[i] \in Pins
      /\ Order[1] = Relay /\ Order[2] = Buzzer
  BY DEF Order, Pins, Outputs
<1>2. /\ t \in [1 .. 6 -> SaneWrites] /\ \A i \in 1 .. 6 : t[i].op = "export"
  BY <1>1 DEF SaneWrites, Writes
<1>3. /\ u \in [1 .. 6 -> SaneWrites] /\ \A i \in 1 .. 6 : u[i] = Out(Order[i])
  BY <1>1, SaneOnes
<1>4. gpio_export_all = t \o u
  BY DEF gpio_export_all
<1> HIDE DEF t, u
<1>5. /\ t \in Seq(SaneWrites) /\ u \in Seq(SaneWrites)
  <2>1. \A f \in [1 .. 6 -> SaneWrites] : f \in Seq(SaneWrites)
    BY SeqDef
  <2> QED BY <1>2, <1>3, <2>1
<1>6. DOMAIN t = 1 .. Len(t) /\ DOMAIN u = 1 .. Len(u) /\ DOMAIN t = 1 .. 6 /\ DOMAIN u = 1 .. 6
  BY <1>2, <1>3, <1>5, LenProperties
<1>7. Covered(t)
  BY <1>2, <1>6 DEF Covered, Loud
<1>8. Covered(u)
  BY <1>3, <1>6 DEF Covered, Loud, Out
<1>9. Silencing(u)
  <2>1. SwitchesOff(u[1], Relay) /\ SwitchesOff(u[2], Buzzer)
    BY <1>1, <1>3 DEF SwitchesOff, Out, Relay, Buzzer, IR
  <2>2. 1 \in 1 .. Len(u) /\ 2 \in 1 .. Len(u)
    BY <1>6
  <2> QED BY <2>1, <2>2 DEF Silencing
<1> QED BY <1>4, <1>5, <1>7, <1>8, <1>9, ConcatIs, CoveredConcat, SilencingConcat

(* Among the commands only the two that are asked to leave something on.   *)
OnCommand(p) == IF p = Relay THEN "relay_on" ELSE "buzzer_on"

CoveredBy(t, s) ==
  \A p \in {Relay, Buzzer} : \A i \in 1 .. Len(t) :
    Loud(t[i], p) => s = OnCommand(p) \/ \E j \in i + 1 .. Len(t) : SwitchesOff(t[j], p)

LEMMA ScriptIs ==
  ASSUME NEW c \in DOMAIN Script
  PROVE  Script[c] \in Seq(SaneWrites) /\ CoveredBy(Script[c], c)
<1> DEFINE fine(t) == t \in Seq(SaneWrites) /\ Covered(t)
<1>1. /\ c \in {"none", "ir", "relay_on", "relay_off", "buzzer_on", "buzzer_off", "red", "green",
                "blue", "white", "off", "alarm", "demo"}
  BY DEF Script
<1>2. fine(<<>>)
  BY EmptySeq DEF Covered
<1>3. ASSUME NEW p \in {Relay, Buzzer}
      PROVE  /\ fine(<<Off(p)>>)
             /\ <<On(p)>> \in Seq(SaneWrites) /\ CoveredBy(<<On(p)>>, OnCommand(p))
  <2>1. On(p) \in SaneWrites /\ Off(p) \in SaneWrites
    BY SaneOnes DEF Pins, Outputs
  <2>2. /\ <<On(p)>> \in Seq(SaneWrites) /\ <<Off(p)>> \in Seq(SaneWrites)
        /\ Len(<<On(p)>>) = 1 /\ Len(<<Off(p)>>) = 1
        /\ <<On(p)>>[1] = On(p) /\ <<Off(p)>>[1] = Off(p)
    BY <2>1
  <2>3. Covered(<<Off(p)>>)
    BY <2>2 DEF Covered, Loud, Off
  <2>4. CoveredBy(<<On(p)>>, OnCommand(p))
    BY <2>2 DEF CoveredBy, Loud, On
  <2> QED BY <2>2, <2>3, <2>4
<1>4. \A d : fine(rgb_led(d))
  BY Rgb, QuietIsCovered
<1>5. \A t : fine(t) => t \in Seq(SaneWrites) /\ CoveredBy(t, c)
  BY DEF Covered, CoveredBy
<1>6. CASE c \in {"none", "ir"}
  <2>1. Script[c] = <<>>
    BY <1>6 DEF Script
  <2> QED BY <1>2, <1>5, <2>1
<1>7. CASE c = "relay_on"
  <2>1. Script[c] = <<On(Relay)>> /\ c = OnCommand(Relay)
    BY <1>7 DEF Script, OnCommand
  <2> QED BY <1>3, <2>1
<1>8. CASE c = "buzzer_on"
  <2>1. Script[c] = <<On(Buzzer)>> /\ c = OnCommand(Buzzer)
    BY <1>8 DEF Script, OnCommand, Relay, Buzzer
  <2> QED BY <1>3, <2>1
<1>9. CASE c \in {"relay_off", "buzzer_off"}
  <2>1. Script[c] = <<Off(Relay)>> \/ Script[c] = <<Off(Buzzer)>>
    BY <1>9 DEF Script
  <2> QED BY <1>3, <1>5, <2>1
<1>10. CASE c \in {"red", "green", "blue", "white", "off"}
  <2>1. \E d : Script[c] = rgb_led(d)
    BY <1>10 DEF Script
  <2> QED BY <1>4, <1>5, <2>1
<1>11. CASE c = "alarm"
  <2>1. Script[c] = trigger_alarm
    BY <1>11 DEF Script
  <2> QED BY <1>5, <2>1, AlarmIs
<1>12. CASE c = "demo"
  BY <1>5, <1>12, DemoIs
<1> QED BY <1>1, <1>6, <1>7, <1>8, <1>9, <1>10, <1>11, <1>12

(* The invariant of the pins.  A pin is high only as an output, so that    *)
(* either kind of silencing write works on it; and nobody's list holds a   *)
(* loud write that nothing covers.                                         *)
HighIsOutput == \A p \in {Relay, Buzzer} : level[p] = "1" => direction[p] = "out"

ListsCovered ==
  \A q \in Programs : todo[q] \in Seq(SaneWrites) /\ CoveredBy(todo[q], script[q])

GatewayScripts == script[Gateway] \in {"none", "start", "alarm"}

PinInv == PinTypeOK /\ HighIsOutput /\ ListsCovered /\ GatewayScripts /\ NoStrayOutput

LEMMA PinInitInv == PinInit => PinInv
<1> SUFFICES ASSUME PinInit PROVE PinInv
  OBVIOUS
<1>1. \A q \in Programs : todo[q] = <<>> /\ script[q] = "none"
  BY DEF PinInit
<1>2. <<>> \in Seq(SaneWrites) /\ <<>> \in Seq(Writes) /\ Len(<<>>) = 0
  BY EmptyIsSeq
<1>3. "none" \in DOMAIN Script
  BY DEF Script
<1>4. PinTypeOK
  BY <1>2, <1>3 DEF PinInit, PinTypeOK
<1>5. \A p \in {Relay, Buzzer} : level[p] = "0"
  BY DEF PinInit, Pins, Outputs
<1>6. ListsCovered
  <2>1. CoveredBy(<<>>, "none")
    BY <1>2 DEF CoveredBy
  <2> QED BY <1>1, <1>2, <2>1 DEF ListsCovered
<1> QED
  BY <1>1, <1>4, <1>5, <1>6 DEF PinInv, HighIsOutput, GatewayScripts, NoStrayOutput, Programs

(* A program that begins a list forgets the one before: it must silence    *)
(* both pins, or have had nothing to do and not been an "on" command.      *)
LEMMA BeginInv ==
  ASSUME PinInv, NEW q \in Programs, NEW s \in DOMAIN Script \cup {"start"}, NEW w,
         w \in Seq(SaneWrites), CoveredBy(w, s), Begin(q, s, w), running' \subseteq Programs,
         Silencing(w) \/ (todo[q] = <<>> /\ script[q] \notin {"relay_on", "buzzer_on"}),
         q = Gateway => s \in {"none", "start", "alarm"}
  PROVE  PinInv'
<1>1. /\ direction' = direction /\ level' = level
      /\ script' = [script EXCEPT ![q] = s]
      /\ todo' = [todo EXCEPT ![q] = w]
      /\ alone' \in [Programs -> BOOLEAN]
  BY DEF Begin
<1>2. SaneWrites \subseteq Writes
  BY DEF SaneWrites
<1>3. w \in Seq(Writes)
  BY <1>2, SeqMonotonic
<1>4. /\ todo \in [Programs -> Seq(Writes)]
      /\ script \in [Programs -> DOMAIN Script \cup {"start"}]
  BY DEF PinInv, PinTypeOK
<1>5. PinTypeOK'
  BY <1>1, <1>3, <1>4 DEF PinInv, PinTypeOK
<1>6. HighIsOutput' /\ ListsCovered' /\ GatewayScripts'
  BY <1>1, <1>4 DEF PinInv, HighIsOutput, ListsCovered, GatewayScripts
<1>7. NoStrayOutput'
  <2>1. SUFFICES ASSUME NEW p \in {Relay, Buzzer}, level[p] = "1"
                 PROVE  \E r \in Programs :
                          \/ \E i \in DOMAIN todo'[r] : SwitchesOff(todo'[r][i], p)
                          \/ script'[r] = (IF p = Relay THEN "relay_on" ELSE "buzzer_on")
    BY <1>1 DEF NoStrayOutput
  <2>2. PICK r \in Programs :
          \/ \E i \in DOMAIN todo[r] : SwitchesOff(todo[r][i], p)
          \/ script[r] = (IF p = Relay THEN "relay_on" ELSE "buzzer_on")
    BY <2>1 DEF PinInv, NoStrayOutput
  <2>3. CASE r # q
    <3>1. todo'[r] = todo[r] /\ script'[r] = script[r]
      BY <1>1, <1>4, <2>3
    <3> QED BY <2>2, <3>1
  <2>4. CASE Silencing(w)
    <3>1. PICK j \in 1 .. Len(w) : SwitchesOff(w[j], p)
      BY <2>4 DEF Silencing
    <3>2. todo'[q] = w /\ DOMAIN w = 1 .. Len(w)
      BY <1>1, <1>4, LenProperties
    <3> QED BY <3>1, <3>2
  <2>5. CASE r = q /\ todo[q] = <<>> /\ script[q] \notin {"relay_on", "buzzer_on"}
    BY <2>2, <2>5
  <2> QED BY <2>3, <2>4, <2>5
<1> QED BY <1>5, <1>6, <1>7 DEF PinInv

(* What a write does to relay and buzzer. *)
LEMMA WriteEffect ==
  ASSUME PinInv, NEW q \in Programs, Write(q)
  PROVE  /\ Head(todo[q]) \in SaneWrites
         /\ direction' \in [Pins -> {"none", "in", "out"}]
         /\ level' \in [Pins -> {"0", "1"}]
         /\ HighIsOutput'
         /\ \A p \in {Relay, Buzzer} :
              /\ level'[p] = "1" => Loud(Head(todo[q]), p) \/ level[p] = "1"
              /\ SwitchesOff(Head(todo[q]), p) /\ level[p] = "1" => level'[p] = "0"
<1> DEFINE w == Head(todo[q])
<1>1. w \in SaneWrites
  <2>1. todo[q] \in Seq(SaneWrites) /\ todo[q] # <<>>
    BY DEF PinInv, ListsCovered, Write
  <2> QED BY <2>1, HeadTailProperties
<1>2. /\ w.op \in {"export", "direction", "value"} /\ w.pin \in Pins
      /\ w.op = "direction" => w.val = (IF w.pin = IR THEN "in" ELSE "out")
      /\ w.op = "value" => w.val \in {"0", "1"}
  BY <1>1 DEF SaneWrites, Writes
<1>3. /\ direction \in [Pins -> {"none", "in", "out"}]
      /\ level \in [Pins -> {"0", "1"}]
      /\ \A p \in {Relay, Buzzer} : p \in Pins /\ p # IR
      /\ HighIsOutput
  BY DEF PinInv, PinTypeOK, Pins, Outputs, Relay, Buzzer, IR
<1>4. /\ w.op = "export" => Export(w.pin)
      /\ w.op = "direction" => SetDirection(w.pin, w.val)
      /\ w.op = "value" => gpio_write(w.pin, w.val)
  BY <1>2 DEF Write
<1> HIDE DEF w
<1>5. SUFFICES /\ direction' \in [Pins -> {"none", "in", "out"}]
               /\ level' \in [Pins -> {"0", "1"}]
               /\ HighIsOutput'
               /\ \A p \in {Relay, Buzzer} :
                    /\ level'[p] = "1" => Loud(w, p) \/ level[p] = "1"
                    /\ SwitchesOff(w, p) /\ level[p] = "1" => level'[p] = "0"
  BY <1>1 DEF w
<1>6. CASE w.op = "export"
  BY ONLY <1>2, <1>3, <1>4, <1>6 DEF Export, HighIsOutput, Loud, SwitchesOff
<1>7. CASE w.op = "direction"
  <2>1. CASE direction[w.pin] = "none"
    BY ONLY <1>2, <1>3, <1>4, <1>7, <2>1 DEF SetDirection, HighIsOutput, Loud, SwitchesOff
  <2>2. CASE direction[w.pin] # "none"
    BY ONLY <1>2, <1>3, <1>4, <1>7, <2>2 DEF SetDirection, HighIsOutput, Loud, SwitchesOff
  <2> QED BY <2>1, <2>2
<1>8. CASE w.op = "value"
  BY ONLY <1>2, <1>3, <1>4, <1>8 DEF gpio_write, HighIsOutput, Loud, SwitchesOff
<1> QED BY <1>2, <1>6, <1>7, <1>8

LEMMA WriteInv == ASSUME PinInv, NEW q \in Programs, Write(q) PROVE PinInv'
<1> DEFINE t == todo[q]
           w == Head(todo[q])
           u == Tail(todo[q])
<1>1. /\ t \in Seq(SaneWrites) /\ t # <<>> /\ t \in Seq(Writes) /\ CoveredBy(t, script[q])
      /\ todo \in [Programs -> Seq(Writes)]
  BY DEF PinInv, ListsCovered, PinTypeOK, Write
<1>2. /\ script' = script /\ running' = running /\ alone' = alone
      /\ todo' = [todo EXCEPT ![q] = u]
  BY DEF Write
<1>3. /\ Len(t) \in Nat /\ Len(u) = Len(t) - 1 /\ Len(t) >= 1 /\ w = t[1]
      /\ u \in Seq(SaneWrites) /\ u \in Seq(Writes)
      /\ \A i \in 1 .. Len(u) : u[i] = t[i + 1]
      /\ DOMAIN t = 1 .. Len(t) /\ DOMAIN u = 1 .. Len(u)
  BY <1>1, HeadTailProperties, LenProperties, EmptySeq
<1>4. todo'[q] = u /\ \A r \in Programs : r # q => todo'[r] = todo[r]
  BY <1>1, <1>2
<1> HIDE DEF t, w, u
<1>5. \A i \in 2 .. Len(t) : i - 1 \in 1 .. Len(u) /\ u[i - 1] = t[i]
  <2>1. SUFFICES ASSUME NEW i \in 2 .. Len(t) PROVE i - 1 \in 1 .. Len(u) /\ u[i - 1] = t[i]
    OBVIOUS
  <2>2. i - 1 \in 1 .. Len(u) /\ (i - 1) + 1 = i
    BY <1>3
  <2> QED BY <1>3, <2>2
<1>6. CoveredBy(u, script[q])
  <2>1. SUFFICES ASSUME NEW p \in {Relay, Buzzer}, NEW i \in 1 .. Len(u), Loud(u[i], p),
                        script[q] # OnCommand(p)
                 PROVE  \E j \in i + 1 .. Len(u) : SwitchesOff(u[j], p)
    BY DEF CoveredBy
  <2>2. i + 1 \in 1 .. Len(t) /\ Loud(t[i + 1], p)
    BY <1>3, <2>1
  <2>3. PICK j \in (i + 1) + 1 .. Len(t) : SwitchesOff(t[j], p)
    BY <1>1, <2>1, <2>2 DEF CoveredBy
  <2>4. j \in 2 .. Len(t) /\ j - 1 \in i + 1 .. Len(u)
    BY <1>3
  <2> QED BY <1>5, <2>3, <2>4
<1>7. PinTypeOK'
  BY <1>1, <1>2, <1>3, WriteEffect DEF PinInv, PinTypeOK
<1>8. HighIsOutput' /\ GatewayScripts'
  BY <1>2, WriteEffect DEF PinInv, GatewayScripts
<1>9. ListsCovered'
  BY <1>2, <1>3, <1>4, <1>6 DEF PinInv, ListsCovered
<1>10. NoStrayOutput'
  <2>1. SUFFICES ASSUME NEW p \in {Relay, Buzzer}, level'[p] = "1"
                 PROVE  \E r \in Programs :
                          \/ \E i \in DOMAIN todo'[r] : SwitchesOff(todo'[r][i], p)
                          \/ script'[r] = (IF p = Relay THEN "relay_on" ELSE "buzzer_on")
    BY DEF NoStrayOutput
  <2>2. CASE Loud(w, p)
    <3>1. CASE script[q] = OnCommand(p)
      BY <1>2, <3>1 DEF OnCommand
    <3>2. CASE script[q] # OnCommand(p)
      <4>1. PICK j \in 1 + 1 .. Len(t) : SwitchesOff(t[j], p)
        <5>1. 1 \in 1 .. Len(t) /\ Loud(t[1], p)
          BY <1>3, <2>2
        <5> QED BY <1>1, <3>2, <5>1 DEF CoveredBy
      <4>2. j - 1 \in DOMAIN todo'[q] /\ SwitchesOff(todo'[q][j - 1], p)
        BY <1>3, <1>4, <1>5, <4>1
      <4> QED BY <4>2
    <3> QED BY <3>1, <3>2
  <2>3. CASE ~Loud(w, p)
    <3>1. level[p] = "1" /\ ~SwitchesOff(w, p)
      BY <2>1, <2>3, WriteEffect DEF w
    <3>2. PICK r \in Programs :
            \/ \E i \in DOMAIN todo[r] : SwitchesOff(todo[r][i], p)
            \/ script[r] = (IF p = Relay THEN "relay_on" ELSE "buzzer_on")
      BY <3>1 DEF PinInv, NoStrayOutput
    <3>3. CASE r # q \/ script[r] = (IF p = Relay THEN "relay_on" ELSE "buzzer_on")
      BY <1>2, <1>4, <3>2, <3>3
    <3>4. CASE r = q /\ \E i \in DOMAIN todo[r] : SwitchesOff(todo[r][i], p)
      <4>1. PICK i \in 1 .. Len(t) : SwitchesOff(t[i], p)
        BY <1>3, <3>4 DEF t
      <4>2. i \in 2 .. Len(t)
        <5>1. i # 1
          BY <1>3, <3>1, <4>1
        <5> QED BY <1>3, <5>1
      <4>3. i - 1 \in DOMAIN todo'[q] /\ SwitchesOff(todo'[q][i - 1], p)
        BY <1>3, <1>4, <1>5, <4>1, <4>2
      <4> QED BY <4>3
    <3> QED BY <3>2, <3>3, <3>4
  <2> QED BY <2>2, <2>3
<1> QED BY <1>7, <1>8, <1>9, <1>10 DEF PinInv

LEMMA PinNextInv == PinInv /\ [PinNext]_pinVars => PinInv'
<1> SUFFICES ASSUME PinInv, [PinNext]_pinVars PROVE PinInv'
  OBVIOUS
<1>1. ASSUME NEW q \in Programs, StartProgram(q) PROVE PinInv'
  <2>1. /\ gpio_export_all \in Seq(SaneWrites) /\ Silencing(gpio_export_all)
        /\ CoveredBy(gpio_export_all, "start")
    BY ExportIs DEF Covered, CoveredBy
  <2>2. Begin(q, "start", gpio_export_all) /\ running' \subseteq Programs
    BY <1>1 DEF StartProgram, PinInv, PinTypeOK
  <2> QED BY <2>1, <2>2, BeginInv
<1>2. ASSUME NEW q \in Programs, NEW c \in Commands, Call(q, c) PROVE PinInv'
  <2>1. c \in DOMAIN Script /\ Script[c] \in Seq(SaneWrites) /\ CoveredBy(Script[c], c)
    BY CommandAssumption, ScriptIs
  <2>2. /\ Begin(q, c, Script[c]) /\ running' \subseteq Programs
        /\ todo[q] = <<>> /\ script[q] \notin {"relay_on", "buzzer_on"}
        /\ q = Gateway => c = "alarm"
    BY <1>2 DEF Call, PinInv, PinTypeOK, GatewayScripts
  <2> QED BY <2>1, <2>2, BeginInv
<1>3. ASSUME NEW q \in Programs, EndProgram(q) PROVE PinInv'
  BY <1>3 DEF EndProgram, PinInv, PinTypeOK, HighIsOutput, ListsCovered, GatewayScripts,
     NoStrayOutput
<1>4. CASE UNCHANGED pinVars
  BY <1>4 DEF pinVars, PinInv, PinTypeOK, HighIsOutput, ListsCovered, GatewayScripts,
     NoStrayOutput
<1> QED BY <1>1, <1>2, <1>3, <1>4, WriteInv DEF PinNext

THEOREM PinInvariance == PinSpec => []PinInv
BY PinInitInv, PinNextInv, PTL DEF PinSpec

-----------------------------------------------------------------------------
(* A program that nobody disturbs.  What it has not written yet is the end *)
(* of its list; the start of a program leaves all outputs driven; and as   *)
(* long as it runs alone, a pin has the level that it wrote there last.    *)
ListOf(s) == IF s = "start" THEN gpio_export_all ELSE Script[s]
Done(q) == Len(ListOf(script[q])) - Len(todo[q])

OnTheirWay ==
  \A q \in Programs :
    /\ Done(q) >= 0
    /\ \A i \in 1 .. Len(todo[q]) : todo[q][i] = ListOf(script[q])[Done(q) + i]

AllOut == \A p \in Outputs : direction[p] = "out"

Prepared ==
  \A q \in Programs :
    /\ script[q] \notin {"none", "start"} => AllOut
    /\ script[q] = "start" => \A j \in 1 .. Done(q) :
         LET w == gpio_export_all[j] IN
           /\ w.op = "export" => direction[w.pin] # "none"
           /\ w.op = "direction" /\ w.pin \in Outputs => direction[w.pin] = "out"

Watched == {"start", "alarm", "demo"}

Obeyed ==
  \A q \in Programs : alone[q] /\ script[q] \in Watched =>
    \A j \in 1 .. Done(q) :
      LET w == ListOf(script[q])[j] IN
        /\ w.op # "export" /\ w.pin \in Outputs
        /\ \A k \in j + 1 .. Done(q) : ListOf(script[q])[k].pin # w.pin
        => level[w.pin] = IF w.val = "1" THEN "1" ELSE "0"

Solo ==
  /\ \A q \in Programs : alone[q] => running \subseteq {q}
  /\ Gateway \in running => script[Gateway] # "none"

AloneInv == PinInv /\ OnTheirWay /\ Prepared /\ Obeyed /\ Solo

(* The lists, write by write. *)
Scripts == DOMAIN Script \cup {"start"}

LEMMA ListIs ==
  ASSUME NEW s \in Scripts
  PROVE  ListOf(s) \in Seq(SaneWrites) /\ Len(ListOf(s)) \in Nat
<1>1. "start" \notin DOMAIN Script
  BY DEF Script
<1>2. ListOf(s) \in Seq(SaneWrites)
  BY <1>1, ScriptIs, ExportIs DEF ListOf, Scripts
<1> QED BY <1>2, LenProperties

LEMMA ExportWrites ==
  /\ Len(gpio_export_all) = 12
  /\ \A i \in 1 .. 6 : gpio_export_all[i] = [op |-> "export", pin |-> Order[i], val |-> "0"]
  /\ \A i \in 1 .. 6 : gpio_export_all[6 + i] = Out(Order[i])
<1> DEFINE t == [i \in 1 .. 6 |-> [op |-> "export", pin |-> Order[i], val |-> "0"]]
           u == [i \in 1 .. 6 |-> Out(Order[i])]
<1>1. \A i \in 1 .. 6 : Order[i] \in Pins
  BY DEF Order, Pins, Outputs
<1>2. t \in [1 .. 6 -> SaneWrites] /\ u \in [1 .. 6 -> SaneWrites]
  BY <1>1, SaneOnes DEF SaneWrites, Writes
<1>3. /\ \A i \in 1 .. 6 : t[i] = [op |-> "export", pin |-> Order[i], val |-> "0"]
      /\ \A i \in 1 .. 6 : u[i] = Out(Order[i])
  OBVIOUS
<1>4. gpio_export_all = t \o u
  BY DEF gpio_export_all
<1> HIDE DEF t, u
<1>5. t \in Seq(SaneWrites) /\ u \in Seq(SaneWrites)
  <2>1. \A f \in [1 .. 6 -> SaneWrites] : f \in Seq(SaneWrites)
    BY SeqDef
  <2> QED BY <1>2, <2>1
<1>6. Len(t) = 6 /\ Len(u) = 6
  BY <1>2, <1>5, LenProperties
<1>7. /\ Len(t \o u) = Len(t) + Len(u)
      /\ \A i \in 1 .. Len(t) : (t \o u)[i] = t[i]
      /\ \A i \in 1 .. Len(u) : (t \o u)[Len(t) + i] = u[i]
  BY <1>5, ConcatIs
<1> QED BY <1>3, <1>4, <1>6, <1>7

Values(t) ==
  /\ t \in Seq(SaneWrites)
  /\ \A i \in 1 .. Len(t) : t[i].op = "value" /\ t[i].pin \in Outputs

LEMMA ValuesConcat ==
  ASSUME NEW t, NEW u, Values(t), Values(u)
  PROVE  Values(t \o u)
<1>1. /\ t \in Seq(SaneWrites) /\ u \in Seq(SaneWrites)
      /\ \A i \in 1 .. Len(t) : t[i].op = "value" /\ t[i].pin \in Outputs
      /\ \A i \in 1 .. Len(u) : u[i].op = "value" /\ u[i].pin \in Outputs
  BY DEF Values
<1>2. /\ t \o u \in Seq(SaneWrites) /\ Len(t) \in Nat /\ Len(u) \in Nat
      /\ \A i \in 1 .. Len(t) : (t \o u)[i] = t[i]
      /\ \A i \in 1 .. Len(u) : (t \o u)[Len(t) + i] = u[i]
      /\ \A i \in 1 .. Len(t \o u) : i \in 1 .. Len(t) \/ i - Len(t) \in 1 .. Len(u)
  BY <1>1, ConcatIs
<1>3. SUFFICES ASSUME NEW i \in 1 .. Len(t \o u)
               PROVE  (t \o u)[i].op = "value" /\ (t \o u)[i].pin \in Outputs
  BY <1>2 DEF Values
<1>4. CASE i \in 1 .. Len(t)
  BY <1>1, <1>2, <1>4
<1>5. CASE i - Len(t) \in 1 .. Len(u)
  <2>1. Len(t) + (i - Len(t)) = i
    BY <1>2
  <2> QED BY <1>1, <1>2, <1>5, <2>1
<1> QED BY <1>2, <1>4, <1>5

LEMMA RgbWrites ==
  ASSUME NEW color
  PROVE  /\ Values(rgb_led(color))
         /\ Len(rgb_led(color)) = 3
         /\ color \in {"red", "green"} =>
              /\ rgb_led(color)[1] = (IF color = "red" THEN On(Red) ELSE Off(Red))
              /\ rgb_led(color)[2] = (IF color = "green" THEN On(Green) ELSE Off(Green))
              /\ rgb_led(color)[3] = Off(Blue)
<1> DEFINE P(i) == <<Red, Green, Blue>>[i]
<1>1. P(1) = Red /\ P(2) = Green /\ P(3) = Blue
  OBVIOUS
<1>2. \A i \in 1 .. 3 : P(i) \in {Red, Green, Blue}
  OBVIOUS
<1>3. rgb_led(color) = [i \in 1 .. 3 |-> IF P(i) \in Lit[color] THEN On(P(i)) ELSE Off(P(i))]
  BY DEF rgb_led
<1>4. \A i \in 1 .. 3 : /\ P(i) \in Outputs
                        /\ On(P(i)).pin = P(i) /\ Off(P(i)).pin = P(i)
                        /\ On(P(i)).op = "value" /\ Off(P(i)).op = "value"
  BY <1>2 DEF On, Off, Outputs
<1> HIDE DEF P
<1>5. /\ \A i \in 1 .. 3 : rgb_led(color)[i].op = "value" /\ rgb_led(color)[i].pin \in Outputs
      /\ DOMAIN rgb_led(color) = 1 .. 3
  BY <1>3, <1>4
<1>6. rgb_led(color) \in Seq(SaneWrites)
  BY Rgb
<1>7. Len(rgb_led(color)) = 3
  BY <1>5, <1>6, LenProperties
<1>8. Lit["red"] = {Red} /\ Lit["green"] = {Green}
  BY DEF Lit
<1>9. color \in {"red", "green"} =>
              /\ rgb_led(color)[1] = (IF color = "red" THEN On(Red) ELSE Off(Red))
              /\ rgb_led(color)[2] = (IF color = "green" THEN On(Green) ELSE Off(Green))
              /\ rgb_led(color)[3] = Off(Blue)
  BY <1>1, <1>3, <1>8 DEF Red, Green, Blue
<1> QED BY <1>5, <1>6, <1>7, <1>9 DEF Values

LEMMA ClearWrites ==
  /\ Values(Clear) /\ Len(Clear) = 5
  /\ Clear[1] = Off(Buzzer) /\ Clear[2] = Off(Relay)
  /\ Clear[3] = Off(Red) /\ Clear[4] = On(Green) /\ Clear[5] = Off(Blue)
<1> DEFINE t == <<Off(Buzzer), Off(Relay)>>
           u == rgb_led("green")
<1>1. /\ t \in Seq(SaneWrites) /\ Len(t) = 2 /\ t[1] = Off(Buzzer) /\ t[2] = Off(Relay)
  <2>1. Off(Buzzer) \in SaneWrites /\ Off(Relay) \in SaneWrites
    BY SaneOnes DEF Pins, Outputs
  <2> QED BY <2>1
<1>2. Values(t)
  BY <1>1 DEF Values, Off, Outputs
<1>3. /\ Values(u) /\ Len(u) = 3 /\ u[1] = Off(Red) /\ u[2] = On(Green) /\ u[3] = Off(Blue)
  BY RgbWrites
<1>4. Clear = t \o u
  BY DEF Clear
<1> HIDE DEF t, u
<1>5. t \in Seq(SaneWrites) /\ u \in Seq(SaneWrites)
  BY <1>1, <1>3 DEF Values
<1>6. /\ Len(t \o u) = Len(t) + Len(u)
      /\ \A i \in 1 .. Len(t) : (t \o u)[i] = t[i]
      /\ \A i \in 1 .. Len(u) : (t \o u)[Len(t) + i] = u[i]
  BY <1>5, ConcatIs
<1> QED BY <1>1, <1>2, <1>3, <1>4, <1>6, ValuesConcat

LEMMA SoundWrites ==
  /\ Values(Sound) /\ Len(Sound) = 5
  /\ Sound[1] = On(Red) /\ Sound[2] = Off(Green) /\ Sound[3] = Off(Blue)
  /\ Sound[4] = On(Buzzer) /\ Sound[5] = On(Relay)
<1> DEFINE t == rgb_led("red")
           u == <<On(Buzzer), On(Relay)>>
<1>1. /\ u \in Seq(SaneWrites) /\ Len(u) = 2 /\ u[1] = On(Buzzer) /\ u[2] = On(Relay)
  <2>1. On(Buzzer) \in SaneWrites /\ On(Relay) \in SaneWrites
    BY SaneOnes DEF Pins, Outputs
  <2> QED BY <2>1
<1>2. Values(u)
  BY <1>1 DEF Values, On, Outputs
<1>3. /\ Values(t) /\ Len(t) = 3 /\ t[1] = On(Red) /\ t[2] = Off(Green) /\ t[3] = Off(Blue)
  BY RgbWrites
<1>4. Sound = t \o u
  BY DEF Sound
<1> HIDE DEF t, u
<1>5. t \in Seq(SaneWrites) /\ u \in Seq(SaneWrites)
  BY <1>1, <1>3 DEF Values
<1>6. /\ Len(t \o u) = Len(t) + Len(u)
      /\ \A i \in 1 .. Len(t) : (t \o u)[i] = t[i]
      /\ \A i \in 1 .. Len(u) : (t \o u)[Len(t) + i] = u[i]
  BY <1>5, ConcatIs
<1> QED BY <1>1, <1>2, <1>3, <1>4, <1>6, ValuesConcat

(* Both the alarm and the demonstration end with the two halves of one.    *)
LEMMA AlarmWrites ==
  ASSUME NEW s \in {"alarm", "demo"}
  PROVE  /\ Values(ListOf(s)) /\ Len(ListOf(s)) >= 10
         /\ \A i \in 1 .. 5 : /\ ListOf(s)[Len(ListOf(s)) - 10 + i] = Sound[i]
                              /\ ListOf(s)[Len(ListOf(s)) - 5 + i] = Clear[i]
<1>1. /\ Values(Sound) /\ Len(Sound) = 5 /\ Values(Clear) /\ Len(Clear) = 5
  BY SoundWrites, ClearWrites
<1>2. /\ Values(trigger_alarm) /\ Len(trigger_alarm) = 10
      /\ \A i \in 1 .. 5 : trigger_alarm[i] = Sound[i] /\ trigger_alarm[5 + i] = Clear[i]
  <2>1. /\ Len(Sound \o Clear) = Len(Sound) + Len(Clear)
        /\ \A i \in 1 .. Len(Sound) : (Sound \o Clear)[i] = Sound[i]
        /\ \A i \in 1 .. Len(Clear) : (Sound \o Clear)[Len(Sound) + i] = Clear[i]
    <3>1. Sound \in Seq(SaneWrites) /\ Clear \in Seq(SaneWrites)
      BY <1>1 DEF Values
    <3> QED BY ONLY <3>1, ConcatIs
  <2>2. Values(Sound \o Clear)
    BY <1>1, ValuesConcat
  <2>3. trigger_alarm = Sound \o Clear
    BY DEF trigger_alarm
  <2> QED BY <1>1, <2>1, <2>2, <2>3
<1>3. CASE s = "alarm"
  <2>1. ListOf(s) = trigger_alarm
    BY <1>3 DEF ListOf, Script
  <2>2. \A i \in 1 .. 5 : 10 - 10 + i = i /\ 10 - 5 + i = 5 + i
    OBVIOUS
  <2>3. \A i \in 1 .. 5 : /\ ListOf(s)[Len(ListOf(s)) - 10 + i] = Sound[i]
                          /\ ListOf(s)[Len(ListOf(s)) - 5 + i] = Clear[i]
    BY ONLY <1>2, <2>1, <2>2
  <2>4. Len(ListOf(s)) >= 10
    <3>1. Len(ListOf(s)) = 10
      BY <1>2, <2>1
    <3> QED BY <3>1
  <2> QED BY <1>2, <2>1, <2>3, <2>4
<1>4. CASE s = "demo"
  <2> DEFINE pairs == <<On(Buzzer), Off(Buzzer), On(Relay), Off(Relay)>>
             r1 == rgb_led("red") \o rgb_led("green")
             r2 == r1 \o rgb_led("blue")
             r3 == r2 \o rgb_led("white")
             r4 == r3 \o rgb_led("off")
             r5 == r4 \o pairs
  <2>1. Values(pairs)
    <3>1. /\ On(Buzzer) \in SaneWrites /\ On(Relay) \in SaneWrites
          /\ Off(Buzzer) \in SaneWrites /\ Off(Relay) \in SaneWrites
      BY SaneOnes DEF Pins, Outputs
    <3>2. /\ pairs \in Seq(SaneWrites) /\ Len(pairs) = 4
          /\ pairs[1] = On(Buzzer) /\ pairs[2] = Off(Buzzer)
          /\ pairs[3] = On(Relay) /\ pairs[4] = Off(Relay)
      BY <3>1
    <3> HIDE DEF pairs
    <3>3. \A p \in {Buzzer, Relay} : /\ On(p).op = "value" /\ On(p).pin \in Outputs
                                     /\ Off(p).op = "value" /\ Off(p).pin \in Outputs
      BY DEF On, Off, Outputs
    <3>4. \A i \in 1 .. 4 : pairs[i].op = "value" /\ pairs[i].pin \in Outputs
      BY <3>2, <3>3
    <3> QED BY <3>2, <3>4 DEF Values
  <2>2. ListOf(s) = r5 \o trigger_alarm
    <3>1. Script["demo"] = rgb_led("red") \o rgb_led("green") \o rgb_led("blue")
            \o rgb_led("white") \o rgb_led("off")
            \o <<On(Buzzer), Off(Buzzer), On(Relay), Off(Relay)>> \o trigger_alarm
      BY DEF Script
    <3> QED BY <1>4, <3>1 DEF ListOf
  <2> HIDE DEF pairs
  <2>3. \A c : Values(rgb_led(c))
    BY RgbWrites
  <2>4. Values(r2)
    BY <2>3, ValuesConcat
  <2>5. Values(r4)
    BY <2>3, <2>4, ValuesConcat
  <2>6. Values(r5)
    BY <2>1, <2>5, ValuesConcat
  <2> HIDE DEF r5
  <2>7. /\ r5 \in Seq(SaneWrites) /\ trigger_alarm \in Seq(SaneWrites)
        /\ Values(r5 \o trigger_alarm)
    BY <1>2, <2>6, ValuesConcat DEF Values
  <2>8. /\ Len(r5) \in Nat
        /\ Len(r5 \o trigger_alarm) = Len(r5) + Len(trigger_alarm)
        /\ \A i \in 1 .. Len(trigger_alarm) :
             (r5 \o trigger_alarm)[Len(r5) + i] = trigger_alarm[i]
    BY <2>7, ConcatIs
  <2>9. \A n \in Nat : \A i \in 1 .. 5 :
          /\ n + 10 - 10 + i = n + i /\ i \in 1 .. 10
          /\ n + 10 - 5 + i = n + (5 + i) /\ 5 + i \in 1 .. 10
    OBVIOUS
  <2>10. /\ Len(ListOf(s)) = Len(r5) + 10
         /\ \A i \in 1 .. 10 : ListOf(s)[Len(r5) + i] = trigger_alarm[i]
    BY <1>2, <2>2, <2>8
  <2>11. ASSUME NEW i \in 1 .. 5
         PROVE  /\ ListOf(s)[Len(ListOf(s)) - 10 + i] = Sound[i]
                /\ ListOf(s)[Len(ListOf(s)) - 5 + i] = Clear[i]
    <3>1. /\ Len(ListOf(s)) - 10 + i = Len(r5) + i /\ i \in 1 .. 10
          /\ Len(ListOf(s)) - 5 + i = Len(r5) + (5 + i) /\ 5 + i \in 1 .. 10
      BY ONLY <2>8, <2>9, <2>10, <2>11
    <3> QED BY ONLY <1>2, <2>10, <3>1, i \in 1 .. 5
  <2>12. Len(ListOf(s)) >= 10
    BY ONLY <2>8, <2>10
  <2>13. \A i \in 1 .. 5 : /\ ListOf(s)[Len(ListOf(s)) - 10 + i] = Sound[i]
                           /\ ListOf(s)[Len(ListOf(s)) - 5 + i] = Clear[i]
    BY <2>11
  <2> QED BY <2>2, <2>7, <2>12, <2>13
<1> QED BY <1>3, <1>4

(* An output that is driven stays so, and no export is undone. *)
LEMMA DirectionsStay ==
  ASSUME PinInv, NEW q \in Programs, Write(q)
  PROVE  /\ \A p \in Pins : direction[p] # "none" => direction'[p] # "none"
         /\ \A p \in Outputs : direction[p] = "out" => direction'[p] = "out"
<1> DEFINE w == Head(todo[q])
<1>1. w \in SaneWrites
  BY WriteEffect
<1>2. /\ w.op \in {"export", "direction", "value"} /\ w.pin \in Pins
      /\ w.op = "direction" => w.val = (IF w.pin = IR THEN "in" ELSE "out")
  BY <1>1 DEF SaneWrites, Writes
<1>3. direction \in [Pins -> {"none", "in", "out"}]
  BY DEF PinInv, PinTypeOK
<1>4. /\ w.op = "export" => Export(w.pin)
      /\ w.op = "direction" => SetDirection(w.pin, w.val)
      /\ w.op = "value" => gpio_write(w.pin, w.val)
  BY <1>2 DEF Write
<1> HIDE DEF w
<1>5. \A p \in Outputs : p \in Pins /\ p # IR
  BY DEF Pins, Outputs, Relay, Buzzer, Red, Green, Blue, IR
<1>6. CASE w.op = "export"
  BY ONLY <1>2, <1>3, <1>4, <1>5, <1>6 DEF Export
<1>7. CASE w.op = "direction"
  <2>1. CASE direction[w.pin] = "none"
    BY ONLY <1>2, <1>3, <1>4, <1>5, <1>7, <2>1 DEF SetDirection
  <2>2. CASE direction[w.pin] # "none"
    BY ONLY <1>2, <1>3, <1>4, <1>5, <1>7, <2>2 DEF SetDirection
  <2> QED BY <2>1, <2>2
<1>8. CASE w.op = "value"
  BY ONLY <1>2, <1>3, <1>4, <1>5, <1>8 DEF gpio_write
<1> QED BY <1>2, <1>6, <1>7, <1>8

(* A write is the next one of its program's list. *)
LEMMA NextWrite ==
  ASSUME PinInv, OnTheirWay, NEW q \in Programs, Write(q)
  PROVE  /\ Done(q) \in Nat /\ Done(q) + 1 \in 1 .. Len(ListOf(script[q]))
         /\ Head(todo[q]) = ListOf(script[q])[Done(q) + 1]
         /\ Done(q)' = Done(q) + 1 /\ script' = script
         /\ \A i \in 1 .. Len(todo'[q]) : todo'[q][i] = ListOf(script[q])[Done(q) + 1 + i]
         /\ \A r \in Programs : r # q => todo'[r] = todo[r] /\ Done(r)' = Done(r)
<1> DEFINE L == ListOf(script[q])
           t == todo[q]
<1>1. script[q] \in Scripts /\ todo \in [Programs -> Seq(Writes)]
  BY DEF PinInv, PinTypeOK, Scripts
<1>2. Len(L) \in Nat
  BY <1>1, ListIs
<1>3. /\ t \in Seq(Writes) /\ t # <<>> /\ script' = script
      /\ todo' = [todo EXCEPT ![q] = Tail(t)]
  BY <1>1 DEF Write
<1>4. /\ Len(t) \in Nat /\ Len(t) > 0 /\ Head(t) = t[1] /\ Len(Tail(t)) = Len(t) - 1
      /\ \A i \in 1 .. Len(t) - 1 : Tail(t)[i] = t[i + 1]
  BY <1>3, TailIs
<1>5. /\ Len(L) - Len(t) >= 0 /\ Done(q) = Len(L) - Len(t)
      /\ \A i \in 1 .. Len(t) : t[i] = L[Len(L) - Len(t) + i]
  BY DEF OnTheirWay, Done
<1>6. todo'[q] = Tail(t) /\ \A r \in Programs : r # q => todo'[r] = todo[r]
  BY <1>1, <1>3
<1>7. /\ \A r \in Programs : r # q => Done(r)' = Done(r)
      /\ Done(q)' = Len(L) - Len(Tail(t))
  BY <1>3, <1>6 DEF Done
<1> HIDE DEF L, t
<1>8. /\ Done(q) \in Nat /\ Done(q) + 1 \in 1 .. Len(L)
      /\ Head(t) = L[Done(q) + 1]
      /\ Done(q)' = Done(q) + 1
  <2>1. 1 \in 1 .. Len(t)
    BY <1>4
  <2>2. Head(t) = L[Len(L) - Len(t) + 1]
    BY <1>4, <1>5, <2>1
  <2>3. Done(q)' = Len(L) - (Len(t) - 1)
    BY <1>4, <1>7
  <2>4. \A m, n \in Nat : n > 0 /\ m - n >= 0 =>
          /\ m - n \in Nat /\ m - n + 1 \in 1 .. m /\ m - (n - 1) = m - n + 1
    OBVIOUS
  <2> QED BY <1>2, <1>4, <1>5, <2>2, <2>3, <2>4
<1>9. \A i \in 1 .. Len(Tail(t)) : Tail(t)[i] = L[Done(q) + 1 + i]
  <2>1. SUFFICES ASSUME NEW i \in 1 .. Len(Tail(t)) PROVE Tail(t)[i] = L[Done(q) + 1 + i]
    OBVIOUS
  <2>2. i \in 1 .. Len(t) - 1 /\ i + 1 \in 1 .. Len(t)
    BY <1>4
  <2>3. Len(L) - Len(t) + (i + 1) = Done(q) + 1 + i
    BY <1>2, <1>4, <1>5
  <2> QED BY <1>4, <1>5, <2>2, <2>3
<1> QED BY <1>3, <1>6, <1>7, <1>8, <1>9 DEF L, t

LEMMA AloneInit == PinInit => AloneInv
<1> SUFFICES ASSUME PinInit PROVE AloneInv
  OBVIOUS
<1>1. \A q \in Programs : todo[q] = <<>> /\ script[q] = "none" /\ ~alone[q]
  BY DEF PinInit
<1>2. ListOf("none") = <<>> /\ Len(<<>>) = 0
  BY DEF ListOf, Script
<1>3. OnTheirWay
  <2>1. \A q \in Programs : Done(q) = 0 /\ Len(todo[q]) = 0
    BY <1>1, <1>2 DEF Done
  <2> QED BY <2>1 DEF OnTheirWay
<1>4. Prepared
  BY <1>1 DEF Prepared
<1>5. Obeyed /\ Solo
  BY <1>1 DEF Obeyed, Solo, PinInit
<1> QED BY <1>3, <1>4, <1>5, PinInitInv DEF AloneInv

LEMMA AloneBegin ==
  ASSUME AloneInv, PinInv', NEW q \in Programs, NEW s \in Scripts, Begin(q, s, ListOf(s)),
         running' = running \cup {q}, s \notin {"none", "start"} => AllOut,
         q = Gateway => s # "none"
  PROVE  AloneInv'
<1>1. /\ direction' = direction /\ level' = level
      /\ script' = [script EXCEPT ![q] = s]
      /\ todo' = [todo EXCEPT ![q] = ListOf(s)]
      /\ alone' = [r \in Programs |-> r = q /\ running \subseteq {q}]
  BY DEF Begin
<1>2. /\ todo \in [Programs -> Seq(Writes)]
      /\ script \in [Programs -> DOMAIN Script \cup {"start"}]
  BY DEF AloneInv, PinInv, PinTypeOK
<1>3. /\ todo'[q] = ListOf(s) /\ script'[q] = s
      /\ \A r \in Programs : r # q => todo'[r] = todo[r] /\ script'[r] = script[r]
  BY <1>1, <1>2
<1>4. Len(ListOf(s)) \in Nat
  BY ListIs
<1>5. Done(q)' = 0 /\ \A r \in Programs : r # q => Done(r)' = Done(r)
  <2>1. Done(q)' = Len(ListOf(s)) - Len(ListOf(s))
    BY <1>3 DEF Done
  <2>2. \A r \in Programs : r # q => Done(r)' = Done(r)
    BY <1>3 DEF Done
  <2> QED BY <1>4, <2>1, <2>2
<1>6. OnTheirWay'
  <2>1. \A i \in 1 .. Len(ListOf(s)) : 0 + i = i
    OBVIOUS
  <2> QED BY <1>3, <1>5, <2>1 DEF OnTheirWay, AloneInv
<1>7. Prepared'
  <2>1. AllOut' = AllOut
    BY <1>1 DEF AllOut
  <2> QED BY <1>1, <1>3, <1>5, <2>1 DEF Prepared, AloneInv
<1>8. Obeyed'
  <2>1. \A r \in Programs : alone'[r] => r = q
    BY <1>1
  <2> QED BY <1>5, <2>1 DEF Obeyed
<1>9. Solo'
  <2>1. \A r \in Programs : alone'[r] => r = q /\ running \subseteq {q}
    BY <1>1
  <2>2. Gateway \in Programs
    BY DEF Programs
  <2> QED BY <1>3, <2>1, <2>2 DEF Solo, AloneInv
<1> QED BY <1>6, <1>7, <1>8, <1>9 DEF AloneInv

(* What the write of a program that runs alone does to the levels. *)
LEMMA AloneEffect ==
  ASSUME AloneInv, NEW q \in Programs, Write(q), alone[q], script[q] \in Watched
  PROVE  LET w == Head(todo[q]) IN
           /\ \A p \in Outputs : p # w.pin => level'[p] = level[p]
           /\ w.op # "export" /\ w.pin \in Outputs =>
                level'[w.pin] = IF w.val = "1" THEN "1" ELSE "0"
           /\ w.op = "export" => level' = level
<1> DEFINE w == Head(todo[q])
           d == Done(q)
           L == ListOf(script[q])
<1>1. /\ d \in Nat /\ d + 1 \in 1 .. Len(L) /\ w = L[d + 1]
      /\ w \in SaneWrites
  BY NextWrite, WriteEffect DEF AloneInv
<1>2. /\ w.op \in {"export", "direction", "value"} /\ w.pin \in Pins
      /\ w.op = "direction" => w.val = (IF w.pin = IR THEN "in" ELSE "out")
      /\ w.op = "value" => w.val \in {"0", "1"}
  BY <1>1 DEF SaneWrites, Writes
<1>3. /\ direction \in [Pins -> {"none", "in", "out"}]
      /\ level \in [Pins -> {"0", "1"}]
      /\ \A p \in Outputs : p \in Pins /\ p # IR
  BY DEF AloneInv, PinInv, PinTypeOK, Pins, Outputs, Relay, Buzzer, Red, Green, Blue, IR
<1>4. /\ w.op = "export" => Export(w.pin)
      /\ w.op = "direction" => SetDirection(w.pin, w.val)
      /\ w.op = "value" => gpio_write(w.pin, w.val)
  BY <1>2 DEF Write
<1>5. CASE script[q] = "start"
  <2>1. L = gpio_export_all /\ Len(L) = 12
    BY <1>5, ExportWrites DEF ListOf
  <2>2. CASE d + 1 \in 1 .. 6
    <3>1. w.op = "export"
      BY <1>1, <2>1, <2>2, ExportWrites
    <3>2. level' = level
      BY <1>4, <3>1 DEF Export
    <3> QED BY <3>1, <3>2
  <2>3. CASE d + 1 \in 7 .. 12
    <3> DEFINE i == (d + 1) - 6
    <3>1. i \in 1 .. 6 /\ 6 + i = d + 1 /\ i \in 1 .. d /\ i \in 1 .. 12
      BY <1>1, <2>3
    <3> HIDE DEF i
    <3>2. w = Out(Order[i]) /\ L[i] = [op |-> "export", pin |-> Order[i], val |-> "0"]
      BY <1>1, <2>1, <3>1, ExportWrites
    <3>3. w.op = "direction" /\ w.pin = Order[i] /\ L[i].op = "export" /\ L[i].pin = w.pin
      BY <3>2 DEF Out
    <3>4. direction[w.pin] # "none"
      BY <1>5, <2>1, <3>1, <3>3 DEF AloneInv, Prepared
    <3> HIDE DEF w, d, L
    <3> QED BY ONLY <1>2, <1>3, <1>4, <3>3, <3>4 DEF SetDirection, w
  <2> QED BY <1>1, <2>1, <2>2, <2>3
<1>6. CASE script[q] \in {"alarm", "demo"}
  <2>1. w.op = "value" /\ w.pin \in Outputs
    <3>1. Values(L)
      BY <1>6, AlarmWrites
    <3> QED BY <1>1, <3>1 DEF Values
  <2>2. direction[w.pin] = "out"
    BY <1>6, <2>1 DEF AloneInv, Prepared, AllOut
  <2> HIDE DEF w, d, L
  <2> QED BY ONLY <1>2, <1>3, <1>4, <2>1, <2>2 DEF gpio_write, w
<1> QED BY <1>5, <1>6 DEF Watched

LEMMA AloneWrite ==
  ASSUME AloneInv, PinInv', NEW q \in Programs, Write(q)
  PROVE  AloneInv'
<1> DEFINE d == Done(q)
           L == ListOf(script[q])
<1>1. /\ d \in Nat /\ d + 1 \in 1 .. Len(L) /\ Head(todo[q]) = L[d + 1]
      /\ Done(q)' = d + 1 /\ script' = script
      /\ \A i \in 1 .. Len(todo'[q]) : todo'[q][i] = L[d + 1 + i]
      /\ \A r \in Programs : r # q => todo'[r] = todo[r] /\ Done(r)' = Done(r)
  BY NextWrite DEF AloneInv
<1>2. running' = running /\ alone' = alone /\ q \in running
  BY DEF Write
<1>3. /\ \A p \in Pins : direction[p] # "none" => direction'[p] # "none"
      /\ \A p \in Outputs : direction[p] = "out" => direction'[p] = "out"
  BY DirectionsStay DEF AloneInv
<1>4. OnTheirWay'
  <2>1. ASSUME NEW r \in Programs
        PROVE  /\ Done(r)' >= 0
               /\ \A i \in 1 .. Len(todo'[r]) : todo'[r][i] = ListOf(script[r])[Done(r)' + i]
    <3>1. CASE r = q
      <4>1. Done(q)' = d + 1 /\ d + 1 >= 0
        BY <1>1
      <4>2. \A i \in 1 .. Len(todo'[q]) : todo'[q][i] = L[d + 1 + i]
        BY <1>1
      <4> HIDE DEF d
      <4> QED BY <3>1, <4>1, <4>2
    <3>2. CASE r # q
      BY <1>1, <3>2 DEF AloneInv, OnTheirWay
    <3> QED BY <3>1, <3>2
  <2> QED BY <1>1, <2>1 DEF OnTheirWay
<1>5. Prepared'
  <2>1. AllOut => AllOut'
    BY <1>3 DEF AllOut
  <2>2. ASSUME NEW r \in Programs, script[r] = "start", NEW j \in 1 .. Done(r)'
        PROVE  LET w == gpio_export_all[j] IN
                 /\ w.op = "export" => direction'[w.pin] # "none"
                 /\ w.op = "direction" /\ w.pin \in Outputs => direction'[w.pin] = "out"
    <3> DEFINE w == gpio_export_all[j]
    <3>1. CASE j \in 1 .. Done(r)
      <4>1. /\ w.op = "export" => direction[w.pin] # "none"
            /\ w.op = "direction" /\ w.pin \in Outputs => direction[w.pin] = "out"
        BY <2>2, <3>1 DEF AloneInv, Prepared
      <4>2. w.pin \in Pins
        <5>1. gpio_export_all \in Seq(SaneWrites) /\ j \in 1 .. Len(gpio_export_all)
          <6>1. /\ Done(r) <= Len(gpio_export_all) /\ Len(gpio_export_all) = 12
            <7>1. Done(r) = Len(gpio_export_all) - Len(todo[r])
              BY <2>2 DEF Done, ListOf
            <7>2. Len(todo[r]) \in Nat
              BY LenProperties DEF AloneInv, PinInv, PinTypeOK
            <7> QED BY <7>1, <7>2, ExportWrites
          <6>2. \A m \in Int : m <= 12 /\ j \in 1 .. m => j \in 1 .. 12
            OBVIOUS
          <6>3. Done(r) \in Int
            <7>1. Done(r) = Len(gpio_export_all) - Len(todo[r])
              BY <2>2 DEF Done, ListOf
            <7>2. Len(todo[r]) \in Nat
              BY LenProperties DEF AloneInv, PinInv, PinTypeOK
            <7> QED BY <7>1, <7>2, ExportWrites
          <6> QED BY <3>1, <6>1, <6>2, <6>3, ExportIs
        <5>2. w \in SaneWrites
          BY <5>1, ElementOfSeq
        <5> QED BY <5>2 DEF SaneWrites, Writes
      <4> QED BY <1>3, <4>1, <4>2
    <3>2. CASE r = q /\ j = d + 1
      <4>1. L = gpio_export_all /\ w = Head(todo[q])
        BY <1>1, <2>2, <3>2 DEF ListOf
      <4>2. Len(L) = 12
        BY <4>1, ExportWrites
      <4>3. /\ direction \in [Pins -> {"none", "in", "out"}]
            /\ w \in SaneWrites
        BY <4>1, WriteEffect DEF AloneInv, PinInv, PinTypeOK
      <4>4. w.pin \in Pins
        BY <4>3 DEF SaneWrites, Writes
      <4>5. CASE d + 1 \in 1 .. 6
        <5>1. w.op = "export"
          BY <3>2, <4>5, ExportWrites
        <5>2. Export(w.pin)
          BY <4>1, <5>1 DEF Write
        <5> QED BY ONLY <4>3, <4>4, <5>1, <5>2 DEF Export
      <4>6. CASE d + 1 \in 7 .. 12
        <5> DEFINE i == (d + 1) - 6
        <5>1. i \in 1 .. 6 /\ 6 + i = d + 1 /\ i \in 1 .. d
          <6>1. d \in Nat
            BY <1>1
          <6> HIDE DEF d
          <6> QED BY <4>6, <6>1
        <5> HIDE DEF i
        <5>2. /\ w = Out(Order[i])
              /\ gpio_export_all[i] = [op |-> "export", pin |-> Order[i], val |-> "0"]
          BY <3>2, <5>1, ExportWrites
        <5>3. /\ w.op = "direction" /\ w.pin = Order[i]
              /\ w.pin \in Outputs => w.val = "out"
              /\ gpio_export_all[i].op = "export" /\ gpio_export_all[i].pin = w.pin
          BY <5>2 DEF Out, Outputs, Relay, Buzzer, Red, Green, Blue, IR
        <5>4. direction[w.pin] # "none"
          BY <2>2, <3>2, <5>1, <5>3 DEF AloneInv, Prepared
        <5>5. SetDirection(w.pin, w.val)
          BY <4>1, <5>3 DEF Write
        <5> QED BY ONLY <4>3, <4>4, <5>3, <5>4, <5>5 DEF SetDirection
      <4> QED BY <1>1, <4>2, <4>5, <4>6
    <3> QED BY <1>1, <2>2, <3>1, <3>2
  <2> QED BY <1>1, <2>1, <2>2 DEF Prepared, AloneInv
<1>6. Obeyed'
  <2>1. SUFFICES ASSUME NEW r \in Programs, alone[r], script[r] \in Watched,
                        NEW j \in 1 .. Done(r)',
                        ListOf(script[r])[j].op # "export", ListOf(script[r])[j].pin \in Outputs,
                        \A k \in j + 1 .. Done(r)' :
                          ListOf(script[r])[k].pin # ListOf(script[r])[j].pin
                 PROVE  level'[ListOf(script[r])[j].pin]
                          = IF ListOf(script[r])[j].val = "1" THEN "1" ELSE "0"
    BY <1>1, <1>2 DEF Obeyed
  <2>2. r = q
    BY <1>2, <2>1 DEF AloneInv, Solo
  <2>3. /\ \A p \in Outputs : p # L[d + 1].pin => level'[p] = level[p]
        /\ L[d + 1].op # "export" /\ L[d + 1].pin \in Outputs =>
             level'[L[d + 1].pin] = IF L[d + 1].val = "1" THEN "1" ELSE "0"
    BY <1>1, <2>1, <2>2, AloneEffect
  <2>4. CASE j = d + 1
    BY <2>1, <2>2, <2>3, <2>4
  <2>5. CASE j \in 1 .. d
    <3>1. d + 1 \in j + 1 .. d + 1 /\ \A k \in j + 1 .. d : k \in j + 1 .. d + 1
      BY <1>1, <2>5
    <3>2. L[d + 1].pin # L[j].pin /\ \A k \in j + 1 .. d : L[k].pin # L[j].pin
      BY <1>1, <2>1, <2>2, <3>1
    <3>3. level[L[j].pin] = IF L[j].val = "1" THEN "1" ELSE "0"
      BY <2>1, <2>2, <2>5, <3>2 DEF AloneInv, Obeyed
    <3> QED BY <2>1, <2>2, <2>3, <3>2, <3>3
  <2> QED BY <1>1, <2>2, <2>4, <2>5
<1>7. Solo'
  BY <1>1, <1>2 DEF Solo, AloneInv
<1> QED BY <1>4, <1>5, <1>6, <1>7 DEF AloneInv

(* The start of a program that is through has driven every output. *)
LEMMA StartedIsOut ==
  ASSUME Prepared, NEW q \in Programs, script[q] = "start", todo[q] = <<>>
  PROVE  AllOut
<1>1. Done(q) = 12
  <2>1. Len(gpio_export_all) = 12 /\ Len(<<>>) = 0
    BY ExportWrites
  <2> QED BY <2>1 DEF Done, ListOf
<1>2. \A i \in 1 .. 5 : /\ 6 + i \in 1 .. 12 /\ i \in 1 .. 6
                        /\ gpio_export_all[6 + i] = Out(Order[i])
                        /\ Order[i] \in Outputs
  <2>1. \A i \in 1 .. 5 : 6 + i \in 1 .. 12 /\ i \in 1 .. 6
    OBVIOUS
  <2>2. \A i \in 1 .. 5 : Order[i] \in Outputs
    BY DEF Order, Outputs
  <2> QED BY <2>1, <2>2, ExportWrites
<1>3. \A i \in 1 .. 5 : direction[Order[i]] = "out"
  <2>1. \A p : Out(p).op = "direction" /\ Out(p).pin = p
    BY DEF Out
  <2> QED BY <1>1, <1>2, <2>1 DEF Prepared
<1>4. \A p \in Outputs : \E i \in 1 .. 5 : Order[i] = p
  <2>1. /\ Order[1] = Relay /\ Order[2] = Buzzer /\ Order[3] = Red
        /\ Order[4] = Green /\ Order[5] = Blue
    BY DEF Order
  <2>2. 1 \in 1 .. 5 /\ 2 \in 1 .. 5 /\ 3 \in 1 .. 5 /\ 4 \in 1 .. 5 /\ 5 \in 1 .. 5
    OBVIOUS
  <2> QED BY <2>1, <2>2 DEF Outputs
<1> QED BY <1>3, <1>4 DEF AllOut

LEMMA AloneNext == AloneInv /\ [PinNext]_pinVars => AloneInv'
<1> SUFFICES ASSUME AloneInv, [PinNext]_pinVars PROVE AloneInv'
  OBVIOUS
<1>1. PinInv'
  BY PinNextInv DEF AloneInv
<1>2. ASSUME NEW q \in Programs, StartProgram(q) PROVE AloneInv'
  <2>1. Begin(q, "start", ListOf("start")) /\ running' = running \cup {q}
    BY <1>2 DEF StartProgram, ListOf
  <2>2. "start" \in Scripts
    BY DEF Scripts
  <2> QED BY <1>1, <2>1, <2>2, AloneBegin
<1>3. ASSUME NEW q \in Programs, NEW c \in Commands, Call(q, c) PROVE AloneInv'
  <2>1. c \in DOMAIN Script /\ c \in Scripts /\ c # "start"
    BY CommandAssumption DEF Scripts, Script
  <2>2. Begin(q, c, ListOf(c)) /\ running' = running \cup {q}
    BY <1>3, <2>1 DEF Call, ListOf
  <2>3. AllOut /\ (q = Gateway => c # "none")
    <3>1. CASE script[q] = "start"
      BY <1>3, <3>1, StartedIsOut DEF Call, AloneInv
    <3>2. CASE script[q] # "start"
      <4>1. q = Gateway /\ c = "alarm" /\ q \in running
        BY <1>3, <3>2 DEF Call
      <4>2. script[q] = "alarm"
        BY <3>2, <4>1 DEF AloneInv, Solo, PinInv, GatewayScripts
      <4> QED BY <4>1, <4>2 DEF AloneInv, Prepared
    <3>3. q = Gateway => c # "none"
      BY <1>3 DEF Call
    <3> QED BY <3>1, <3>2, <3>3
  <2> QED BY <1>1, <2>1, <2>2, <2>3, AloneBegin
<1>4. ASSUME NEW q \in Programs, EndProgram(q) PROVE AloneInv'
  <2>1. /\ UNCHANGED <<direction, level, script, todo, alone>>
        /\ running' \subseteq running
    BY <1>4 DEF EndProgram
  <2>2. \A r : Done(r)' = Done(r)
    BY <2>1 DEF Done
  <2>3. OnTheirWay' /\ Prepared' /\ Obeyed'
    BY <2>1, <2>2 DEF AloneInv, OnTheirWay, Prepared, Obeyed, AllOut
  <2>4. Solo'
    BY <2>1 DEF AloneInv, Solo
  <2> QED BY <1>1, <2>3, <2>4 DEF AloneInv
<1>5. CASE UNCHANGED pinVars
  <2>1. UNCHANGED <<direction, level, running, script, todo, alone>>
    BY <1>5 DEF pinVars
  <2>2. \A r : Done(r)' = Done(r)
    BY <2>1 DEF Done
  <2>3. OnTheirWay' /\ Prepared' /\ Obeyed' /\ Solo'
    BY <2>1, <2>2 DEF AloneInv, OnTheirWay, Prepared, Obeyed, AllOut, Solo
  <2> QED BY <1>1, <2>3 DEF AloneInv
<1> QED BY <1>1, <1>2, <1>3, <1>4, <1>5, AloneWrite DEF PinNext, AloneInv

LEMMA AloneInvariance == PinSpec => []AloneInv
BY AloneInit, AloneNext, PTL DEF PinSpec

(* Whatever a killed program left switched on, the next one that starts    *)
(* and is not disturbed has switched everything off when gpio_export_all() *)
(* returns.                                                                *)
THEOREM StartIsSilent == BoardSpec => []StartSilences
<1>1. AloneInv => StartSilences
  <2> SUFFICES ASSUME AloneInv, NEW q \in Programs, alone[q], script[q] = "start",
                      todo[q] = <<>>
               PROVE  Lights = {}
    BY DEF StartSilences
  <2>1. Done(q) = 12 /\ ListOf(script[q]) = gpio_export_all
    <3>1. Len(gpio_export_all) = 12 /\ Len(<<>>) = 0
      BY ExportWrites
    <3> QED BY <3>1 DEF Done, ListOf
  <2>2. /\ Order[1] = Relay /\ Order[2] = Buzzer /\ Order[3] = Red
        /\ Order[4] = Green /\ Order[5] = Blue /\ Order[6] = IR
    BY DEF Order
  <2>3. \A i, k \in 1 .. 6 : i # k => Order[i] # Order[k]
    BY <2>2 DEF Relay, Buzzer, Red, Green, Blue, IR
  <2>4. \A i \in 1 .. 5 : level[Order[i]] = "0"
    <3>1. SUFFICES ASSUME NEW i \in 1 .. 5 PROVE level[Order[i]] = "0"
      OBVIOUS
    <3>2. \A k \in 1 .. 6 : /\ gpio_export_all[6 + k] = Out(Order[k])
                            /\ Out(Order[k]).pin = Order[k]
                            /\ Out(Order[k]).op = "direction" /\ Out(Order[k]).val # "1"
      BY ExportWrites DEF Out
    <3>3. 6 + i \in 1 .. 12 /\ i \in 1 .. 6 /\ Order[i] \in Outputs
      BY <2>2 DEF Outputs
    <3>4. \A k \in 6 + i + 1 .. 12 : gpio_export_all[k].pin # Order[i]
      <4>1. SUFFICES ASSUME NEW k \in 6 + i + 1 .. 12
                     PROVE  gpio_export_all[k].pin # Order[i]
        OBVIOUS
      <4>2. k - 6 \in 1 .. 6 /\ 6 + (k - 6) = k /\ k - 6 # i
        BY <3>3
      <4> QED BY <2>3, <3>2, <3>3, <4>2
    <3>5. gpio_export_all[6 + i] = Out(Order[i]) /\ Out(Order[i]).pin = Order[i]
      BY <3>2, <3>3
    <3>6. \A j \in 1 .. 12 :
            /\ gpio_export_all[j].op # "export" /\ gpio_export_all[j].pin \in Outputs
            /\ \A k \in j + 1 .. 12 : gpio_export_all[k].pin # gpio_export_all[j].pin
            => level[gpio_export_all[j].pin] = IF gpio_export_all[j].val = "1" THEN "1" ELSE "0"
      BY <2>1 DEF AloneInv, Obeyed, Watched
    <3> DEFINE j == 6 + i
    <3>7. /\ j \in 1 .. 12 /\ gpio_export_all[j] = Out(Order[i])
          /\ \A k \in j + 1 .. 12 : gpio_export_all[k].pin # Order[i]
      BY <3>3, <3>4, <3>5
    <3> HIDE DEF j
    <3>8. Out(Order[i]).op = "direction" /\ Out(Order[i]).val # "1"
      BY <3>2, <3>3
    <3> QED BY <3>3, <3>5, <3>6, <3>7, <3>8
  <2>5. \A p \in Outputs : level[p] = "0"
    <3>1. 1 \in 1 .. 5 /\ 2 \in 1 .. 5 /\ 3 \in 1 .. 5 /\ 4 \in 1 .. 5 /\ 5 \in 1 .. 5
      OBVIOUS
    <3> QED BY <2>2, <2>4, <3>1 DEF Outputs
  <2> QED BY <2>5 DEF Lights
<1> QED BY <1>1, AloneInvariance, BoardIsPins, PTL

(* An alarm that no other program disturbs, of the gateway or of the tool, *)
(* lights red, buzzer and relay in its first half, and when it is over     *)
(* only the green light is on, whatever was on before.                     *)
THEOREM AlarmAsItShould == BoardSpec => []AlarmUndisturbed
<1>1. AloneInv => AlarmUndisturbed
  <2> SUFFICES ASSUME AloneInv, NEW q \in Programs, alone[q], script[q] \in {"alarm", "demo"}
               PROVE  /\ todo[q] = Clear => Lights = {Red, Buzzer, Relay}
                      /\ todo[q] = <<>> => Lights = {Green}
    BY DEF AlarmUndisturbed
  <2> DEFINE L == ListOf(script[q])
             n == Len(L)
  <2>1. /\ n >= 10
        /\ \A i \in 1 .. 5 : L[n - 10 + i] = Sound[i] /\ L[n - 5 + i] = Clear[i]
    BY AlarmWrites
  <2>2. n \in Nat
    <3>1. script[q] \in Scripts
      BY DEF Scripts, Script
    <3> QED BY <3>1, ListIs
  <2>3. \A j \in 1 .. Done(q) :
          /\ L[j].op # "export" /\ L[j].pin \in Outputs
          /\ \A k \in j + 1 .. Done(q) : L[k].pin # L[j].pin
          => level[L[j].pin] = IF L[j].val = "1" THEN "1" ELSE "0"
    BY DEF AloneInv, Obeyed, Watched
  <2>4. Done(q) = n - Len(todo[q])
    BY DEF Done
  <2> HIDE DEF L, n
  <2>5. /\ L[n - 9] = On(Red) /\ L[n - 8] = Off(Green) /\ L[n - 7] = Off(Blue)
        /\ L[n - 6] = On(Buzzer) /\ L[n - 5] = On(Relay)
        /\ L[n - 4] = Off(Buzzer) /\ L[n - 3] = Off(Relay)
        /\ L[n - 2] = Off(Red) /\ L[n - 1] = On(Green) /\ L[n] = Off(Blue)
    <3>1. /\ n - 10 + 1 = n - 9 /\ n - 10 + 2 = n - 8 /\ n - 10 + 3 = n - 7
          /\ n - 10 + 4 = n - 6 /\ n - 10 + 5 = n - 5
          /\ n - 5 + 1 = n - 4 /\ n - 5 + 2 = n - 3 /\ n - 5 + 3 = n - 2
          /\ n - 5 + 4 = n - 1 /\ n - 5 + 5 = n
      BY <2>2
    <3>2. 1 \in 1 .. 5 /\ 2 \in 1 .. 5 /\ 3 \in 1 .. 5 /\ 4 \in 1 .. 5 /\ 5 \in 1 .. 5
      OBVIOUS
    <3> QED BY <2>1, <3>1, <3>2, SoundWrites, ClearWrites
  <2>6. \A p : /\ On(p).op # "export" /\ On(p).pin = p /\ On(p).val = "1"
               /\ Off(p).op # "export" /\ Off(p).pin = p /\ Off(p).val = "0"
    BY DEF On, Off
  <2>7. ASSUME todo[q] = Clear PROVE Lights = {Red, Buzzer, Relay}
    <3>1. Done(q) = n - 5
      BY <2>4, <2>7, ClearWrites
    <3>2. /\ n - 9 \in 1 .. n - 5 /\ n - 8 \in 1 .. n - 5 /\ n - 7 \in 1 .. n - 5
          /\ n - 6 \in 1 .. n - 5 /\ n - 5 \in 1 .. n - 5
          /\ \A k \in n - 9 + 1 .. n - 5 : k \in {n - 8, n - 7, n - 6, n - 5}
          /\ \A k \in n - 8 + 1 .. n - 5 : k \in {n - 7, n - 6, n - 5}
          /\ \A k \in n - 7 + 1 .. n - 5 : k \in {n - 6, n - 5}
          /\ \A k \in n - 6 + 1 .. n - 5 : k = n - 5
          /\ \A k \in n - 5 + 1 .. n - 5 : FALSE
      BY <2>1, <2>2
    <3>3. level[Red] = "1"
      <4>1. \A k \in n - 9 + 1 .. n - 5 : L[k].pin # Red
        BY <2>5, <2>6, <3>2 DEF Relay, Buzzer, Red, Green, Blue
      <4> QED BY <2>3, <2>5, <2>6, <3>1, <3>2, <4>1 DEF Outputs
    <3>4. level[Green] = "0"
      <4>1. \A k \in n - 8 + 1 .. n - 5 : L[k].pin # Green
        BY <2>5, <2>6, <3>2 DEF Relay, Buzzer, Red, Green, Blue
      <4> QED BY <2>3, <2>5, <2>6, <3>1, <3>2, <4>1 DEF Outputs
    <3>5. level[Blue] = "0"
      <4>1. \A k \in n - 7 + 1 .. n - 5 : L[k].pin # Blue
        BY <2>5, <2>6, <3>2 DEF Relay, Buzzer, Red, Green, Blue
      <4> QED BY <2>3, <2>5, <2>6, <3>1, <3>2, <4>1 DEF Outputs
    <3>6. level[Buzzer] = "1"
      <4>1. \A k \in n - 6 + 1 .. n - 5 : L[k].pin # Buzzer
        BY <2>5, <2>6, <3>2 DEF Relay, Buzzer, Red, Green, Blue
      <4> QED BY <2>3, <2>5, <2>6, <3>1, <3>2, <4>1 DEF Outputs
    <3>7. level[Relay] = "1"
      BY <2>3, <2>5, <2>6, <3>1, <3>2 DEF Outputs
    <3> QED BY <3>3, <3>4, <3>5, <3>6, <3>7 DEF Lights, Outputs
  <2>8. ASSUME todo[q] = <<>> PROVE Lights = {Green}
    <3>1. Done(q) = n
      BY <2>2, <2>4, <2>8
    <3>2. /\ n - 4 \in 1 .. n /\ n - 3 \in 1 .. n /\ n - 2 \in 1 .. n
          /\ n - 1 \in 1 .. n /\ n \in 1 .. n
          /\ \A k \in n - 4 + 1 .. n : k \in {n - 3, n - 2, n - 1, n}
          /\ \A k \in n - 3 + 1 .. n : k \in {n - 2, n - 1, n}
          /\ \A k \in n - 2 + 1 .. n : k \in {n - 1, n}
          /\ \A k \in n - 1 + 1 .. n : k = n
          /\ \A k \in n + 1 .. n : FALSE
      BY <2>1, <2>2
    <3>3. level[Buzzer] = "0"
      <4>1. \A k \in n - 4 + 1 .. n : L[k].pin # Buzzer
        BY <2>5, <2>6, <3>2 DEF Relay, Buzzer, Red, Green, Blue
      <4> QED BY <2>3, <2>5, <2>6, <3>1, <3>2, <4>1 DEF Outputs
    <3>4. level[Relay] = "0"
      <4>1. \A k \in n - 3 + 1 .. n : L[k].pin # Relay
        BY <2>5, <2>6, <3>2 DEF Relay, Buzzer, Red, Green, Blue
      <4> QED BY <2>3, <2>5, <2>6, <3>1, <3>2, <4>1 DEF Outputs
    <3>5. level[Red] = "0"
      <4>1. \A k \in n - 2 + 1 .. n : L[k].pin # Red
        BY <2>5, <2>6, <3>2 DEF Relay, Buzzer, Red, Green, Blue
      <4> QED BY <2>3, <2>5, <2>6, <3>1, <3>2, <4>1 DEF Outputs
    <3>6. level[Green] = "1"
      <4>1. \A k \in n - 1 + 1 .. n : L[k].pin # Green
        BY <2>5, <2>6, <3>2 DEF Relay, Buzzer, Red, Green, Blue
      <4> QED BY <2>3, <2>5, <2>6, <3>1, <3>2, <4>1 DEF Outputs
    <3>7. level[Blue] = "0"
      BY <2>3, <2>5, <2>6, <3>1, <3>2 DEF Outputs
    <3> QED BY <3>3, <3>4, <3>5, <3>6, <3>7 DEF Lights, Outputs, Relay, Buzzer, Red, Green, Blue
  <2> QED BY <2>7, <2>8
<1> QED BY <1>1, AloneInvariance, BoardIsPins, PTL

(* Whatever programs run at the same time, are killed and are started      *)
(* again, relay and buzzer are on only by an order to leave them on, or    *)
(* while the write that switches them off is still on somebody's list.     *)
THEOREM NoStray == BoardSpec => []NoStrayOutput
<1>1. PinInv => NoStrayOutput
  BY DEF PinInv
<1> QED BY <1>1, PinInvariance, BoardIsPins, PTL

(* The types of the camera and of the pins. *)
THEOREM BoardTypes == BoardSpec => []BoardTypeOK
<1>1. CamInv /\ PinInv => BoardTypeOK
  BY DEF CamInv, PinInv, BoardTypeOK
<1> QED BY <1>1, CamInvariance, PinInvariance, BoardIsCamera, BoardIsPins, PTL

=============================================================================
