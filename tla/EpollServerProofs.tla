-------------------------- MODULE EpollServerProofs --------------------------
(***************************************************************************)
(* Proofs about EpollServer for every number of clients, places in the     *)
(* table, events per batch and parts of requests: no descriptor leaks, a   *)
(* request survives being read in parts, also on a descriptor that another *)
(* connection had before, no edge is lost, and no event is used for        *)
(* another connection than the one it was reported for.                    *)
(***************************************************************************)
EXTENDS EpollServer, SequenceTheorems, WellFoundedInduction, TLAPS

(* A place of the table is taken exactly as long as the descriptor is open *)
(* and the last number is never kept, so that there is always a free one.  *)
FileInv ==
  /\ file \in [Fds -> Clients \cup {None}]
  /\ slot \in [Fds -> BOOLEAN]
  /\ file[MAX_CLIENTS] = None
  /\ \A fd, other \in Fds : file[fd] = file[other] /\ file[fd] # None => fd = other
  /\ at # <<"done">> => \A fd \in Fds : slot[fd] <=> file[fd] # None
  /\ at = <<"done">> => \A fd \in Fds : file[fd] = None

(* Each connection is at one place: waiting once, or open on a descriptor. *)
PlaceInv ==
  /\ place \in [Clients -> {"new", "backlog", "open", "rejected", "gone"}]
  /\ backlog \in Seq(Clients)
  /\ \A i \in 1 .. Len(backlog) : place[backlog[i]] = "backlog"
  /\ \A i, j \in 1 .. Len(backlog) : backlog[i] = backlog[j] => i = j
  /\ \A c \in Clients : place[c] = "open" <=> \E fd \in Fds : file[fd] = c

(* The reader of an open descriptor holds the first part of a request      *)
(* exactly if an odd number of parts was read from its connection.         *)
RequestInv ==
  /\ got \in [Clients -> Nat]
  /\ handled \in [Clients -> Nat]
  /\ DOMAIN reader = Fds
  /\ \A c \in Clients : handled[c] = got[c] \div 2
  /\ \A c \in Clients : place[c] \in {"new", "backlog"} => got[c] = 0
  /\ \A fd \in Fds : file[fd] # None =>
       reader[fd] = IF got[file[fd]] % 2 = 1 THEN <<Part(file[fd], got[file[fd]])>> ELSE <<>>

IInv == FileInv /\ PlaceInv /\ RequestInv

-----------------------------------------------------------------------------
LEMMA LeastIs ==
  ASSUME NEW S \in SUBSET Nat, S # {}
  PROVE  \E m \in S : \A n \in S : ~ (n < m)
<1> DEFINE R == {p \in Nat \X Nat : p[1] < p[2]}
<1>1. IsWellFoundedOn(R, Nat)
  BY NatLessThanWellFounded DEF OpToRel
<1>2. PICK m \in S : \A n \in S : <<n, m>> \notin R
  BY <1>1, WFMin
<1>3. ASSUME NEW n \in S PROVE ~ (n < m)
  <2>1. <<n, m>> \in Nat \X Nat
    OBVIOUS
  <2> QED BY <1>2, <2>1
<1> QED BY <1>3

(* Induction over the natural numbers, for a set. *)
LEMMA SetInduction ==
  ASSUME NEW S, 0 \in S, \A n \in Nat : n \in S => n + 1 \in S
  PROVE  Nat \subseteq S
<1>1. SUFFICES ASSUME Nat \ S # {} PROVE FALSE
  OBVIOUS
<1>2. PICK m \in Nat \ S : \A n \in Nat \ S : ~ (n < m)
  BY <1>1, LeastIs
<1>3. m # 0 /\ m - 1 \in Nat /\ m - 1 < m
  BY <1>2
<1>4. m - 1 \in S
  BY <1>2, <1>3
<1>5. (m - 1) + 1 \in S
  BY <1>3, <1>4
<1> QED BY <1>2, <1>5

(* The recursion in Keep is well defined. *)
LEMMA KeepUnfolds ==
  ASSUME NEW s, Len(s) \in Nat, NEW S
  PROVE  \E g : /\ g[0] = <<>>
                /\ \A i \in 1 .. Len(s) :
                     g[i] = IF s[i] \in S THEN Append(g[i - 1], s[i]) ELSE g[i - 1]
                /\ Keep(s, S) = g[Len(s)]
<1> DEFINE Def(g, i) == IF i = 0 THEN <<>>
                        ELSE IF s[i] \in S THEN Append(g[i - 1], s[i]) ELSE g[i - 1]
           kept[i \in 0 .. Len(s)] ==
             IF i = 0 THEN <<>>
             ELSE IF s[i] \in S THEN Append(kept[i - 1], s[i]) ELSE kept[i - 1]
           Done == {n \in Nat : \E g : g = [i \in 0 .. n |-> Def(g, i)]}
<1>1. 0 \in Done
  <2>1. [i \in 0 .. 0 |-> <<>>] = [i \in 0 .. 0 |-> Def([j \in 0 .. 0 |-> <<>>], i)]
    OBVIOUS
  <2> QED BY <2>1
<1>2. ASSUME NEW n \in Nat, n \in Done PROVE n + 1 \in Done
  <2>1. PICK g : g = [i \in 0 .. n |-> Def(g, i)]
    BY <1>2
  <2> DEFINE h == [i \in 0 .. n + 1 |-> IF i = n + 1 THEN Def(g, i) ELSE g[i]]
  <2>2. ASSUME NEW i \in 0 .. n + 1 PROVE h[i] = Def(h, i)
    <3>1. CASE i = 0
      <4>1. g[0] = Def(g, 0)
        BY <2>1
      <4> QED BY <3>1, <4>1
    <3>2. CASE i \in 1 .. n
      <4>1. i \in 0 .. n /\ i # 0 /\ i # n + 1 /\ i - 1 \in 0 .. n /\ i - 1 # n + 1
        BY <3>2
      <4>2. h[i] = g[i] /\ h[i - 1] = g[i - 1]
        BY <4>1
      <4>3. g[i] = Def(g, i)
        <5> HIDE DEF Def, h
        <5> QED BY <2>1, <4>1, Zenon
      <4> HIDE DEF h
      <4> QED BY <4>1, <4>2, <4>3
    <3>3. CASE i = n + 1
      <4>1. h[i] = Def(g, i) /\ i - 1 \in 0 .. n + 1 /\ i - 1 # n + 1
        BY <3>3
      <4>2. h[i - 1] = g[i - 1]
        BY <4>1
      <4> HIDE DEF h
      <4> QED BY <3>3, <4>1, <4>2
    <3> QED BY <3>1, <3>2, <3>3
  <2>3. h = [i \in 0 .. n + 1 |-> h[i]]
    OBVIOUS
  <2> HIDE DEF h, Def
  <2>4. h = [i \in 0 .. n + 1 |-> Def(h, i)]
    BY <2>2, <2>3
  <2> QED BY <2>4
<1> HIDE DEF Done
<1>3. Len(s) \in Done
  BY <1>1, <1>2, SetInduction
<1>4. \E g : g = [i \in 0 .. Len(s) |-> Def(g, i)]
  BY <1>3 DEF Done
<1>5. kept = [i \in 0 .. Len(s) |-> Def(kept, i)]
  BY <1>4, Zenon
<1>6. Keep(s, S) = kept[Len(s)]
  BY Zenon DEF Keep
<1> HIDE DEF kept
<1>7. \A i \in 0 .. Len(s) : kept[i] = Def(kept, i)
  <2> HIDE DEF Def
  <2> QED BY <1>5, Zenon
<1>8. /\ kept[0] = <<>>
      /\ \A i \in 1 .. Len(s) :
           kept[i] = IF s[i] \in S THEN Append(kept[i - 1], s[i]) ELSE kept[i - 1]
  BY <1>7
<1> QED BY <1>6, <1>8

(* It keeps the elements that are in S, and none twice that is there once. *)
LEMMA KeepIs ==
  ASSUME NEW T, NEW s \in Seq(T), NEW S
  PROVE  /\ Keep(s, S) \in Seq(T)
         /\ \A a \in 1 .. Len(Keep(s, S)) :
              \E b \in 1 .. Len(s) : Keep(s, S)[a] = s[b] /\ s[b] \in S
         /\ \A b \in 1 .. Len(s) : s[b] \in S => \E a \in 1 .. Len(Keep(s, S)) : Keep(s, S)[a] = s[b]
         /\ (\A a, b \in 1 .. Len(s) : s[a] = s[b] => a = b) =>
              \A a, b \in 1 .. Len(Keep(s, S)) : Keep(s, S)[a] = Keep(s, S)[b] => a = b
<1>0. Len(s) \in Nat /\ \A i \in 1 .. Len(s) : s[i] \in T
  BY LenProperties, ElementOfSeq
<1>1. PICK g : /\ g[0] = <<>>
               /\ \A i \in 1 .. Len(s) :
                    g[i] = IF s[i] \in S THEN Append(g[i - 1], s[i]) ELSE g[i - 1]
               /\ Keep(s, S) = g[Len(s)]
  BY <1>0, KeepUnfolds
<1> DEFINE Once == \A a, b \in 1 .. Len(s) : s[a] = s[b] => a = b
           Good(i) ==
             /\ g[i] \in Seq(T)
             /\ \A a \in 1 .. Len(g[i]) : \E b \in 1 .. i : g[i][a] = s[b] /\ s[b] \in S
             /\ \A b \in 1 .. i : s[b] \in S => \E a \in 1 .. Len(g[i]) : g[i][a] = s[b]
             /\ Once => \A a, b \in 1 .. Len(g[i]) : g[i][a] = g[i][b] => a = b
           Done == {i \in Nat : i <= Len(s) => Good(i)}
<1>2. 0 \in Done
  <2>1. g[0] \in Seq(T) /\ Len(g[0]) = 0
    BY <1>1, EmptySeq
  <2> QED BY <2>1
<1>3. ASSUME NEW n \in Nat, n \in Done PROVE n + 1 \in Done
  <2>1. SUFFICES ASSUME n + 1 <= Len(s) PROVE Good(n + 1)
    OBVIOUS
  <2>2. Good(n) /\ n + 1 \in 1 .. Len(s) /\ (n + 1) - 1 = n
    BY <1>0, <1>3, <2>1
  <2>3. g[n + 1] = IF s[n + 1] \in S THEN Append(g[n], s[n + 1]) ELSE g[n]
    BY <1>1, <2>2
  <2>4. CASE s[n + 1] \notin S
    <3>1. g[n + 1] = g[n]
      BY <2>3, <2>4
    <3>2. \A b \in 1 .. n + 1 : b = n + 1 \/ b \in 1 .. n
      OBVIOUS
    <3>3. \A b \in 1 .. n : b \in 1 .. n + 1
      OBVIOUS
    <3> QED BY <2>2, <2>4, <3>1, <3>2, <3>3
  <2>5. CASE s[n + 1] \in S
    <3> DEFINE r == g[n]
               q == g[n + 1]
    <3>1. r \in Seq(T) /\ Len(r) \in Nat /\ s[n + 1] \in T
      BY <1>0, <2>2, LenProperties
    <3>2. /\ q \in Seq(T) /\ Len(q) = Len(r) + 1
          /\ \A a \in 1 .. Len(r) : q[a] = r[a]
          /\ q[Len(r) + 1] = s[n + 1]
      BY <2>3, <2>5, <3>1, AppendProperties
    <3>3. /\ \A b \in 1 .. n + 1 : b = n + 1 \/ b \in 1 .. n
          /\ \A b \in 1 .. n : b \in 1 .. n + 1 /\ b \in 1 .. Len(s) /\ b # n + 1
          /\ \A a \in 1 .. Len(q) : a = Len(r) + 1 \/ a \in 1 .. Len(r)
          /\ \A a \in 1 .. Len(r) : a \in 1 .. Len(q)
          /\ n + 1 \in 1 .. n + 1 /\ Len(r) + 1 \in 1 .. Len(q)
      BY <1>0, <2>1, <3>1, <3>2
    <3> HIDE DEF r, q
    <3>4. /\ \A a \in 1 .. Len(r) : \E b \in 1 .. n : r[a] = s[b] /\ s[b] \in S
          /\ \A b \in 1 .. n : s[b] \in S => \E a \in 1 .. Len(r) : r[a] = s[b]
          /\ Once => \A a, b \in 1 .. Len(r) : r[a] = r[b] => a = b
      BY <2>2 DEF r
    <3>5. \A a \in 1 .. Len(q) : \E b \in 1 .. n + 1 : q[a] = s[b] /\ s[b] \in S
      BY <2>5, <3>2, <3>3, <3>4
    <3>6. \A b \in 1 .. n + 1 : s[b] \in S => \E a \in 1 .. Len(q) : q[a] = s[b]
      BY <3>2, <3>3, <3>4
    <3>7. Once => \A a \in 1 .. Len(r) : r[a] # s[n + 1]
      BY <2>2, <3>3, <3>4
    <3>8. ASSUME Once, NEW a \in 1 .. Len(q), NEW b \in 1 .. Len(q), q[a] = q[b]
          PROVE  a = b
      <4>1. CASE a \in 1 .. Len(r) /\ b \in 1 .. Len(r)
        BY <3>2, <3>4, <3>8, <4>1
      <4>2. CASE a = Len(r) + 1 /\ b \in 1 .. Len(r)
        BY <3>2, <3>7, <3>8, <4>2
      <4>3. CASE b = Len(r) + 1 /\ a \in 1 .. Len(r)
        BY <3>2, <3>7, <3>8, <4>3
      <4> QED BY <3>3, <4>1, <4>2, <4>3
    <3> QED BY <3>2, <3>5, <3>6, <3>8 DEF q
  <2> QED BY <2>4, <2>5
<1> HIDE DEF Done
<1>4. Len(s) \in Done
  BY <1>0, <1>2, <1>3, SetInduction
<1>5. Good(Len(s))
  <2> HIDE DEF Good
  <2> QED BY <1>0, <1>4 DEF Done
<1> QED BY <1>1, <1>5

(* The kernel finds a free number. *)
LEMMA FreeFdIs ==
  ASSUME FileInv
  PROVE  FreeFd \in Fds /\ file[FreeFd] = None
<1> DEFINE S == {fd \in Fds : file[fd] = None}
<1>1. S \in SUBSET Nat /\ MAX_CLIENTS \in S
  BY TableAssumption DEF Fds, FileInv
<1>2. PICK m \in S : \A n \in S : ~ (n < m)
  BY <1>1, LeastIs
<1>3. m \in Fds /\ file[m] = None
  OBVIOUS
<1>4. \A other \in 1 .. m - 1 : file[other] # None
  <2>1. SUFFICES ASSUME NEW other \in 1 .. m - 1, file[other] = None PROVE FALSE
    OBVIOUS
  <2>2. m \in Nat /\ m <= MAX_CLIENTS /\ other \in Nat /\ other < m
    BY <1>3, TableAssumption DEF Fds
  <2>3. other \in S
    BY <2>1, <2>2, TableAssumption DEF Fds
  <2> QED BY <1>2, <2>2, <2>3
<1> HIDE DEF S
<1> QED BY <1>3, <1>4 DEF FreeFd

LEMMA HalfIs ==
  ASSUME NEW n \in Nat
  PROVE  /\ n % 2 = 1 => (n + 1) \div 2 = (n \div 2) + 1 /\ (n + 1) % 2 # 1
         /\ n % 2 # 1 => (n + 1) \div 2 = n \div 2 /\ (n + 1) % 2 = 1
OBVIOUS

LEMMA PlacesDiffer ==
  /\ \A fd : <<"read", fd>> # <<"done">>
  /\ \A p \in {"loop", "wait", "events", "accept", "leave"} : <<p>> # <<"done">>
OBVIOUS

-----------------------------------------------------------------------------
LEMMA InitIInv == Init => IInv
<1> SUFFICES ASSUME Init PROVE IInv
  OBVIOUS
<1> USE DEF Init
<1>1. FileInv
  BY NoneAssumption, TableAssumption, PlacesDiffer DEF FileInv, Fds
<1>2. PlaceInv
  BY NoneAssumption, EmptySeq DEF PlaceInv
<1>3. RequestInv
  BY DEF RequestInv
<1> QED BY <1>1, <1>2, <1>3 DEF IInv

(* Steps that touch neither the table nor what is read. *)
LEMMA QuietIInv ==
  ASSUME IInv, UNCHANGED <<file, slot, reader, place, backlog, got, handled>>,
         at' = <<"done">> <=> at = <<"done">>
  PROVE  IInv'
<1>1. FileInv'
  BY DEF IInv, FileInv
<1>2. PlaceInv'
  BY DEF IInv, PlaceInv
<1>3. RequestInv'
  BY DEF IInv, RequestInv
<1> QED BY <1>1, <1>2, <1>3 DEF IInv

LEMMA QuietSteps ==
  ASSUME Loop \/ Wait \/ Dispatch \/ HandledAll \/ AcceptedAll \/ AcceptFails \/ Signal
         \/ (\E fd \in Fds : ReadNothing(fd))
         \/ (\E c \in Clients : Send(c) \/ Close(c) \/ Reset(c) \/ ResetAfterWrite(c))
  PROVE  /\ UNCHANGED <<file, slot, reader, place, backlog, got, handled>>
         /\ at' = <<"done">> <=> at = <<"done">>
<1> USE PlacesDiffer DEF Goto, tableVars, netVars, dataVars
<1>1. CASE Loop
  BY <1>1 DEF Loop
<1>2. CASE Wait
  BY <1>2 DEF Wait
<1>3. CASE Dispatch
  BY <1>3 DEF Dispatch
<1>4. CASE HandledAll
  BY <1>4 DEF HandledAll
<1>5. CASE AcceptedAll
  BY <1>5 DEF AcceptedAll
<1>6. CASE AcceptFails
  BY <1>6 DEF AcceptFails
<1>7. CASE Signal
  BY <1>7 DEF Signal
<1>8. CASE \E fd \in Fds : ReadNothing(fd)
  BY <1>8 DEF ReadNothing
<1>9. CASE \E c \in Clients : Send(c)
  BY <1>9 DEF Send
<1>10. CASE \E c \in Clients : Close(c) \/ Reset(c) \/ ResetAfterWrite(c)
  BY <1>10 DEF Close, Reset, ResetAfterWrite, Ending
<1> QED BY <1>1, <1>2, <1>3, <1>4, <1>5, <1>6, <1>7, <1>8, <1>9, <1>10

(* A connection that arrives. *)
LEMMA ConnectIInv ==
  ASSUME IInv, NEW c \in Clients, Connect(c)
  PROVE  IInv'
<1>1. /\ place[c] = "new" /\ place' = [place EXCEPT ![c] = "backlog"]
      /\ backlog' = Append(backlog, c)
      /\ UNCHANGED <<at, file, slot, reader, got, handled>>
  BY DEF Connect, tableVars, dataVars
<1>2. FileInv'
  BY <1>1 DEF IInv, FileInv
<1>3. PlaceInv'
  <2>1. /\ place \in [Clients -> {"new", "backlog", "open", "rejected", "gone"}]
        /\ backlog \in Seq(Clients) /\ Len(backlog) \in Nat
        /\ \A i \in 1 .. Len(backlog) : place[backlog[i]] = "backlog" /\ backlog[i] \in Clients
        /\ \A i, j \in 1 .. Len(backlog) : backlog[i] = backlog[j] => i = j
        /\ \A d \in Clients : place[d] = "open" <=> \E fd \in Fds : file[fd] = d
    BY ElementOfSeq, LenProperties DEF IInv, PlaceInv
  <2>2. /\ backlog' \in Seq(Clients) /\ Len(backlog') = Len(backlog) + 1
        /\ \A i \in 1 .. Len(backlog) : backlog'[i] = backlog[i]
        /\ backlog'[Len(backlog) + 1] = c
    BY <1>1, <2>1, AppendProperties
  <2>3. /\ place' \in [Clients -> {"new", "backlog", "open", "rejected", "gone"}]
        /\ place'[c] = "backlog" /\ \A d \in Clients : d # c => place'[d] = place[d]
    BY <1>1, <2>1
  <2>4. \A i \in 1 .. Len(backlog') : i \in 1 .. Len(backlog) \/ i = Len(backlog) + 1
    BY <2>1, <2>2
  <2>5. \A i \in 1 .. Len(backlog) : backlog[i] # c
    BY <1>1, <2>1
  <2>6. \A i \in 1 .. Len(backlog') : place'[backlog'[i]] = "backlog"
    BY <2>1, <2>2, <2>3, <2>4, <2>5
  <2>7. \A i, j \in 1 .. Len(backlog') : backlog'[i] = backlog'[j] => i = j
    BY <2>1, <2>2, <2>4, <2>5
  <2>8. \A d \in Clients : place'[d] = "open" <=> \E fd \in Fds : file'[fd] = d
    BY <1>1, <2>1, <2>3
  <2> QED BY <2>2, <2>3, <2>6, <2>7, <2>8 DEF PlaceInv
<1>4. RequestInv'
  BY <1>1 DEF IInv, RequestInv, PlaceInv
<1> QED BY <1>2, <1>3, <1>4 DEF IInv

(* The oldest waiting connection leaves the backlog. *)
LEMMA BacklogTail ==
  ASSUME PlaceInv, backlog # <<>>
  PROVE  /\ Head(backlog) \in Clients /\ place[Head(backlog)] = "backlog"
         /\ Tail(backlog) \in Seq(Clients)
         /\ \A i \in 1 .. Len(Tail(backlog)) :
              Tail(backlog)[i] # Head(backlog) /\ place[Tail(backlog)[i]] = "backlog"
         /\ \A i, j \in 1 .. Len(Tail(backlog)) : Tail(backlog)[i] = Tail(backlog)[j] => i = j
<1>1. /\ backlog \in Seq(Clients) /\ Len(backlog) \in Nat /\ Len(backlog) >= 1
      /\ \A i \in 1 .. Len(backlog) : backlog[i] \in Clients /\ place[backlog[i]] = "backlog"
      /\ \A i, j \in 1 .. Len(backlog) : backlog[i] = backlog[j] => i = j
  BY ElementOfSeq, LenProperties, EmptySeq DEF PlaceInv
<1>2. /\ Tail(backlog) \in Seq(Clients) /\ Len(Tail(backlog)) = Len(backlog) - 1
      /\ \A i \in 1 .. Len(backlog) - 1 : Tail(backlog)[i] = backlog[i + 1]
      /\ Head(backlog) = backlog[1]
  BY <1>1, HeadTailProperties
<1>3. \A i \in 1 .. Len(backlog) - 1 : i + 1 \in 1 .. Len(backlog) /\ i + 1 # 1
  BY <1>1
<1>4. 1 \in 1 .. Len(backlog)
  BY <1>1
<1>5. \A i \in 1 .. Len(Tail(backlog)) :
        Tail(backlog)[i] # Head(backlog) /\ place[Tail(backlog)[i]] = "backlog"
  BY ONLY <1>1, <1>2, <1>3, <1>4
<1>6. ASSUME NEW i \in 1 .. Len(backlog) - 1, NEW j \in 1 .. Len(backlog) - 1,
             Tail(backlog)[i] = Tail(backlog)[j]
      PROVE  i = j
  <2>1. backlog[i + 1] = backlog[j + 1]
    BY <1>2, <1>6
  <2>2. i + 1 = j + 1
    BY <1>1, <1>3, <2>1
  <2> QED BY <1>1, <2>2
<1> QED BY <1>1, <1>2, <1>4, <1>5, <1>6

(* accept() gives the connection a descriptor with a fresh reader, or it   *)
(* is closed at once.                                                      *)
LEMMA AcceptIInv ==
  ASSUME IInv, Accept
  PROVE  IInv'
<1> DEFINE c == Head(backlog)
           f == FreeFd
<1>1. /\ backlog # <<>> /\ at = <<"accept">> /\ at' = <<"accept">>
      /\ backlog' = Tail(backlog)
      /\ UNCHANGED <<got, handled>>
  BY DEF Accept, Goto, dataVars
<1>2. /\ c \in Clients /\ place[c] = "backlog" /\ c # None
      /\ backlog' \in Seq(Clients)
      /\ \A i \in 1 .. Len(backlog') : backlog'[i] # c /\ place[backlog'[i]] = "backlog"
      /\ \A i, j \in 1 .. Len(backlog') : backlog'[i] = backlog'[j] => i = j
  BY <1>1, BacklogTail, NoneAssumption DEF IInv
<1>3. f \in Fds /\ file[f] = None
  BY FreeFdIs DEF IInv
<1>4. /\ file \in [Fds -> Clients \cup {None}] /\ slot \in [Fds -> BOOLEAN]
      /\ file[MAX_CLIENTS] = None
      /\ \A fd, other \in Fds : file[fd] = file[other] /\ file[fd] # None => fd = other
      /\ \A fd \in Fds : slot[fd] <=> file[fd] # None
      /\ place \in [Clients -> {"new", "backlog", "open", "rejected", "gone"}]
      /\ \A d \in Clients : place[d] = "open" <=> \E fd \in Fds : file[fd] = d
  BY <1>1, PlacesDiffer DEF IInv, FileInv, PlaceInv
<1>5. \A i \in 1 .. Len(backlog') : backlog'[i] \in Clients
  BY <1>2, ElementOfSeq
<1>6. \A fd \in Fds : file[fd] # c
  BY <1>2, <1>4
<1>7. CASE f < MAX_CLIENTS
  <2>1. /\ place' = [place EXCEPT ![c] = "open"]
        /\ file' = [file EXCEPT ![f] = c]
        /\ slot' = [slot EXCEPT ![f] = TRUE]
        /\ reader' = [reader EXCEPT ![f] = <<>>]
    BY <1>7 DEF Accept, Accepted
  <2>2. f # MAX_CLIENTS /\ MAX_CLIENTS \in Fds
    BY <1>7, TableAssumption DEF Fds
  <2>3. /\ file' \in [Fds -> Clients \cup {None}] /\ slot' \in [Fds -> BOOLEAN]
        /\ file'[f] = c /\ \A fd \in Fds : fd # f => file'[fd] = file[fd]
        /\ slot'[f] = TRUE /\ \A fd \in Fds : fd # f => slot'[fd] = slot[fd]
    BY <1>2, <1>3, <1>4, <2>1
  <2>4. /\ place' \in [Clients -> {"new", "backlog", "open", "rejected", "gone"}]
        /\ place'[c] = "open" /\ \A d \in Clients : d # c => place'[d] = place[d]
    BY <1>2, <1>4, <2>1
  <2> HIDE DEF c, f
  <2>5. FileInv'
    <3>1. \A fd, other \in Fds : file'[fd] = file'[other] /\ file'[fd] # None => fd = other
      BY <1>4, <1>6, <2>3
    <3>2. file'[MAX_CLIENTS] = None
      BY <1>4, <2>2, <2>3
    <3>3. \A fd \in Fds : slot'[fd] <=> file'[fd] # None
      BY <1>2, <1>4, <2>3
    <3>4. at' # <<"done">>
      BY <1>1, PlacesDiffer
    <3> QED BY <2>3, <3>1, <3>2, <3>3, <3>4 DEF FileInv
  <2>6. PlaceInv'
    <3>1. \A d \in Clients : place'[d] = "open" <=> \E fd \in Fds : file'[fd] = d
      BY <1>2, <1>3, <1>4, <1>6, <2>3, <2>4, NoneAssumption
    <3>2. \A i \in 1 .. Len(backlog') : place'[backlog'[i]] = "backlog"
      BY <1>2, <1>5, <2>4
    <3> QED BY <1>2, <2>4, <3>1, <3>2 DEF PlaceInv
  <2>7. RequestInv'
    <3>1. /\ got[c] = 0 /\ RequestInv
      BY <1>2 DEF IInv, RequestInv
    <3>2. /\ DOMAIN reader' = Fds /\ reader'[f] = <<>>
          /\ \A fd \in Fds : fd # f => reader'[fd] = reader[fd]
      BY <1>3, <2>1, <3>1 DEF RequestInv
    <3>3. \A d \in Clients : place'[d] \in {"new", "backlog"} => place[d] \in {"new", "backlog"}
      BY <2>4
    <3>4. \A fd \in Fds : file'[fd] # None =>
            reader'[fd] = IF got[file'[fd]] % 2 = 1
                            THEN <<Part(file'[fd], got[file'[fd]])>> ELSE <<>>
      <4>1. SUFFICES ASSUME NEW fd \in Fds, file'[fd] # None
                     PROVE  reader'[fd] = IF got[file'[fd]] % 2 = 1
                                            THEN <<Part(file'[fd], got[file'[fd]])>> ELSE <<>>
        OBVIOUS
      <4>2. CASE fd = f
        <5>1. ~ (got[file'[fd]] % 2 = 1)
          BY <2>3, <3>1, <4>2
        <5> QED BY <3>2, <4>2, <5>1
      <4>3. CASE fd # f
        BY <2>3, <3>1, <3>2, <4>1, <4>3 DEF RequestInv
      <4> QED BY <4>2, <4>3
    <3>5. \A d \in Clients : place'[d] \in {"new", "backlog"} => got[d] = 0
      BY <3>1, <3>3 DEF RequestInv
    <3> QED BY <1>1, <3>1, <3>2, <3>4, <3>5 DEF RequestInv
  <2> QED BY <2>5, <2>6, <2>7 DEF IInv
<1>8. CASE ~ (f < MAX_CLIENTS)
  <2>1. /\ place' = [place EXCEPT ![c] = "rejected"]
        /\ UNCHANGED <<file, slot, reader>>
    BY <1>8 DEF Accept, tableVars
  <2>2. /\ place' \in [Clients -> {"new", "backlog", "open", "rejected", "gone"}]
        /\ place'[c] = "rejected" /\ \A d \in Clients : d # c => place'[d] = place[d]
    BY <1>2, <1>4, <2>1
  <2>3. FileInv'
    BY <1>1, <2>1 DEF IInv, FileInv
  <2>4. PlaceInv'
    <3>1. \A d \in Clients : place'[d] = "open" <=> \E fd \in Fds : file'[fd] = d
      BY <1>4, <1>6, <2>1, <2>2
    <3>2. \A i \in 1 .. Len(backlog') : place'[backlog'[i]] = "backlog"
      BY <1>2, <1>5, <2>2
    <3> QED BY <1>2, <2>2, <3>1, <3>2 DEF PlaceInv
  <2>5. RequestInv'
    BY <1>1, <2>1, <2>2 DEF IInv, RequestInv
  <2> QED BY <2>3, <2>4, <2>5 DEF IInv
<1> QED BY <1>7, <1>8

(* One part is read; with the part before it, it may make a request. *)
LEMMA ReadPartIInv ==
  ASSUME IInv, NEW f \in Fds, ReadPart(f)
  PROVE  IInv'
<1> DEFINE c == file[f]
           part == Part(c, got[c] + 1)
<1>1. /\ at = <<"read", f>> /\ at' = <<"read", f>>
      /\ got' = [got EXCEPT ![c] = got[c] + 1]
      /\ reader' = [reader EXCEPT ![f] = IF reader[f] = <<>> THEN <<part>> ELSE <<>>]
      /\ UNCHANGED <<file, slot, place, backlog>>
  BY DEF ReadPart, Goto
<1>2. IF reader[f] # <<>> /\ IsRequest(reader[f][1], part)
        THEN handled' = [handled EXCEPT ![c] = handled[c] + 1]
        ELSE handled' = handled
  BY DEF ReadPart
<1>3. FileInv'
  BY <1>1, PlacesDiffer DEF IInv, FileInv
<1>4. PlaceInv'
  BY <1>1 DEF IInv, PlaceInv
<1>5. /\ got \in [Clients -> Nat] /\ handled \in [Clients -> Nat] /\ DOMAIN reader = Fds
      /\ \A d \in Clients : handled[d] = got[d] \div 2
      /\ \A d \in Clients : place[d] \in {"new", "backlog"} => got[d] = 0
      /\ \A fd \in Fds : file[fd] # None =>
           reader[fd] = IF got[file[fd]] % 2 = 1 THEN <<Part(file[fd], got[file[fd]])>> ELSE <<>>
      /\ file \in [Fds -> Clients \cup {None}]
      /\ \A fd, other \in Fds : file[fd] = file[other] /\ file[fd] # None => fd = other
      /\ \A d \in Clients : place[d] = "open" <=> \E fd \in Fds : file[fd] = d
  BY DEF IInv, RequestInv, FileInv, PlaceInv
<1>6. /\ DOMAIN reader' = Fds
      /\ reader'[f] = IF reader[f] = <<>> THEN <<part>> ELSE <<>>
      /\ \A fd \in Fds : fd # f => reader'[fd] = reader[fd]
  BY <1>1, <1>5
<1>7. CASE c = None
  <2>1. got' = got /\ handled' = handled
    BY <1>1, <1>2, <1>5, <1>7, NoneAssumption
  <2>2. \A fd \in Fds : file[fd] # None => fd # f
    BY <1>7
  <2> HIDE DEF c, part
  <2>3. RequestInv'
    BY <1>1, <1>5, <1>6, <2>1, <2>2 DEF RequestInv
  <2> QED BY <1>3, <1>4, <2>3 DEF IInv
<1>8. CASE c # None
  <2>1. c \in Clients /\ got[c] \in Nat /\ place[c] = "open"
    BY <1>5, <1>8
  <2>2. /\ got' \in [Clients -> Nat] /\ got'[c] = got[c] + 1
        /\ \A d \in Clients : d # c => got'[d] = got[d]
    BY <1>1, <1>5, <2>1
  <2>3. \A fd \in Fds : fd # f => file[fd] # c
    BY <1>5, <1>8
  <2>4. /\ handled' \in [Clients -> Nat]
        /\ handled'[c] = got'[c] \div 2
        /\ \A d \in Clients : d # c => handled'[d] = handled[d]
        /\ reader'[f] = IF got'[c] % 2 = 1 THEN <<Part(c, got'[c])>> ELSE <<>>
    <3>1. CASE got[c] % 2 = 1
      <4>1. reader[f] = <<Part(c, got[c])>>
        BY <1>5, <1>8, <3>1
      <4>2. reader[f] # <<>> /\ IsRequest(reader[f][1], part)
        BY <2>1, <3>1, <4>1 DEF IsRequest, Part
      <4>3. handled' = [handled EXCEPT ![c] = handled[c] + 1]
        BY <1>2, <4>2
      <4>4. (got[c] + 1) \div 2 = (got[c] \div 2) + 1 /\ (got[c] + 1) % 2 # 1
        BY <2>1, <3>1, HalfIs
      <4>5. handled[c] = got[c] \div 2 /\ handled[c] \in Nat
        BY <1>5, <2>1
      <4> HIDE DEF c, part
      <4>6. handled'[c] = handled[c] + 1 /\ handled' \in [Clients -> Nat]
            /\ \A d \in Clients : d # c => handled'[d] = handled[d]
        BY <1>5, <2>1, <4>3, <4>5
      <4> QED BY <1>6, <2>2, <4>2, <4>4, <4>5, <4>6
    <3>2. CASE got[c] % 2 # 1
      <4>1. reader[f] = <<>>
        BY <1>5, <1>8, <3>2
      <4>2. handled' = handled
        BY <1>2, <4>1
      <4>3. (got[c] + 1) \div 2 = got[c] \div 2 /\ (got[c] + 1) % 2 = 1
        BY <2>1, <3>2, HalfIs
      <4>4. handled'[c] = got[c] \div 2
        BY <1>5, <2>1, <4>2
      <4> QED BY <1>5, <1>6, <2>2, <4>1, <4>2, <4>3, <4>4
    <3> QED BY <3>1, <3>2
  <2> HIDE DEF part
  <2>5. \A d \in Clients : handled'[d] = got'[d] \div 2
    BY <1>5, <2>2, <2>4
  <2>6. \A d \in Clients : place'[d] \in {"new", "backlog"} => got'[d] = 0
    BY <1>1, <1>5, <2>1, <2>2
  <2>7. \A fd \in Fds : file'[fd] # None =>
          reader'[fd] = IF got'[file'[fd]] % 2 = 1
                          THEN <<Part(file'[fd], got'[file'[fd]])>> ELSE <<>>
    <3>1. SUFFICES ASSUME NEW fd \in Fds, file[fd] # None
                   PROVE  reader'[fd] = IF got'[file[fd]] % 2 = 1
                                          THEN <<Part(file[fd], got'[file[fd]])>> ELSE <<>>
      BY <1>1
    <3>2. CASE fd = f
      BY <2>4, <3>2
    <3>3. CASE fd # f
      <4>1. file[fd] \in Clients /\ file[fd] # c
        BY <1>5, <2>3, <3>1, <3>3
      <4>2. got'[file[fd]] = got[file[fd]] /\ reader'[fd] = reader[fd]
        BY <1>6, <2>2, <3>3, <4>1
      <4> QED BY <1>5, <3>1, <4>2
    <3> QED BY <3>2, <3>3
  <2>8. RequestInv'
    BY <1>6, <2>2, <2>4, <2>5, <2>6, <2>7 DEF RequestInv
  <2> QED BY <1>3, <1>4, <2>8 DEF IInv
<1> QED BY <1>7, <1>8

(* do_read() closes the descriptor. *)
LEMMA ReadEndIInv ==
  ASSUME IInv, NEW f \in Fds, ReadEnd(f)
  PROVE  IInv'
<1> DEFINE c == file[f]
<1>1. /\ at = <<"read", f>> /\ at' = <<"events">>
      /\ place' = [place EXCEPT ![c] = "gone"]
      /\ file' = [file EXCEPT ![f] = None]
      /\ slot' = [slot EXCEPT ![f] = FALSE]
      /\ UNCHANGED <<reader, backlog, got, handled>>
  BY DEF ReadEnd, Goto, dataVars
<1>2. /\ file \in [Fds -> Clients \cup {None}] /\ slot \in [Fds -> BOOLEAN]
      /\ file[MAX_CLIENTS] = None
      /\ \A fd, other \in Fds : file[fd] = file[other] /\ file[fd] # None => fd = other
      /\ \A fd \in Fds : slot[fd] <=> file[fd] # None
      /\ place \in [Clients -> {"new", "backlog", "open", "rejected", "gone"}]
      /\ \A d \in Clients : place[d] = "open" <=> \E fd \in Fds : file[fd] = d
      /\ backlog \in Seq(Clients)
      /\ \A i \in 1 .. Len(backlog) : place[backlog[i]] = "backlog"
      /\ \A i, j \in 1 .. Len(backlog) : backlog[i] = backlog[j] => i = j
  BY <1>1, PlacesDiffer DEF IInv, FileInv, PlaceInv
<1>3. /\ file' \in [Fds -> Clients \cup {None}] /\ slot' \in [Fds -> BOOLEAN]
      /\ file'[f] = None /\ \A fd \in Fds : fd # f => file'[fd] = file[fd]
      /\ slot'[f] = FALSE /\ \A fd \in Fds : fd # f => slot'[fd] = slot[fd]
  BY <1>1, <1>2
<1>4. MAX_CLIENTS \in Fds
  BY TableAssumption DEF Fds
<1>5. FileInv'
  BY <1>1, <1>2, <1>3, <1>4, PlacesDiffer DEF FileInv
<1>6. /\ place' \in [Clients -> {"new", "backlog", "open", "rejected", "gone"}]
      /\ \A d \in Clients : place'[d] = IF d = c THEN "gone" ELSE place[d]
  BY <1>1, <1>2
<1>7. PlaceInv'
  <2>1. \A d \in Clients : place'[d] = "open" <=> \E fd \in Fds : file'[fd] = d
    BY <1>2, <1>3, <1>6, NoneAssumption
  <2>2. \A i \in 1 .. Len(backlog) : backlog[i] \in Clients /\ backlog[i] # c
    BY <1>2, ElementOfSeq
  <2>3. \A i \in 1 .. Len(backlog') : place'[backlog'[i]] = "backlog"
    BY <1>1, <1>2, <1>6, <2>2
  <2> QED BY <1>1, <1>2, <1>6, <2>1, <2>3 DEF PlaceInv
<1>8. RequestInv'
  BY <1>1, <1>3, <1>6 DEF IInv, RequestInv
<1> QED BY <1>5, <1>7, <1>8 DEF IInv

(* The end of main() *)
LEMMA LeaveIInv ==
  ASSUME IInv, Leave
  PROVE  IInv'
<1>1. /\ at = <<"leave">> /\ at' = <<"done">>
      /\ file' = [fd \in Fds |-> IF slot[fd] THEN None ELSE file[fd]]
      /\ backlog' = <<>>
      /\ place' = [d \in Clients |->
                     IF place[d] = "backlog" \/ \E fd \in Fds : slot[fd] /\ file[fd] = d
                     THEN "gone" ELSE place[d]]
      /\ UNCHANGED <<slot, reader, got, handled>>
  BY DEF Leave, Goto, dataVars
<1>2. /\ file \in [Fds -> Clients \cup {None}] /\ slot \in [Fds -> BOOLEAN]
      /\ \A fd \in Fds : slot[fd] <=> file[fd] # None
      /\ place \in [Clients -> {"new", "backlog", "open", "rejected", "gone"}]
      /\ \A d \in Clients : place[d] = "open" <=> \E fd \in Fds : file[fd] = d
  BY <1>1, PlacesDiffer DEF IInv, FileInv, PlaceInv
<1>3. \A fd \in Fds : file'[fd] = None
  BY <1>1, <1>2
<1>4. MAX_CLIENTS \in Fds
  BY TableAssumption DEF Fds
<1>5. FileInv'
  BY <1>1, <1>2, <1>3, <1>4 DEF FileInv
<1>6. \A d \in Clients : place'[d] # "open"
  BY <1>1, <1>2, NoneAssumption
<1>7. PlaceInv'
  <2>1. place' \in [Clients -> {"new", "backlog", "open", "rejected", "gone"}]
    BY <1>1, <1>2
  <2>2. backlog' \in Seq(Clients) /\ Len(backlog') = 0
    BY <1>1, EmptySeq
  <2> QED BY <1>3, <1>6, <2>1, <2>2, NoneAssumption DEF PlaceInv
<1>8. RequestInv'
  BY <1>1, <1>3 DEF IInv, RequestInv
<1> QED BY <1>5, <1>7, <1>8 DEF IInv

LEMMA NextIInv == IInv /\ [Next]_vars => IInv'
<1> SUFFICES ASSUME IInv, [Next]_vars PROVE IInv'
  OBVIOUS
<1>1. CASE Server
  BY <1>1, QuietSteps, QuietIInv, AcceptIInv, ReadPartIInv, ReadEndIInv, LeaveIInv DEF Server
<1>2. CASE Environment
  BY <1>2, QuietSteps, QuietIInv, ConnectIInv DEF Environment
<1>3. CASE UNCHANGED vars
  BY <1>3, QuietIInv DEF vars, tableVars, netVars, dataVars
<1> QED BY <1>1, <1>2, <1>3 DEF Next

THEOREM Invariance == Spec => []IInv
BY InitIInv, NextIInv, PTL DEF Spec

-----------------------------------------------------------------------------
(* Edges and events. *)

Reported(fd) == \E i \in 1 .. Len(events) : events[i].fd = fd

(* epoll lists a descriptor once, and only as long as it is open. *)
ListInv ==
  /\ ready \in Seq(Fds \cup {listen_fd})
  /\ \A i, j \in 1 .. Len(ready) : ready[i] = ready[j] => i = j
  /\ \A fd \in Fds : Contains(ready, fd) => file[fd] # None

(* A batch names a descriptor once, and what is still to be handled is     *)
(* open and the connection it was reported for: only its own event closes  *)
(* a descriptor.                                                           *)
BatchInv ==
  /\ events \in Seq([fd : Fds \cup {listen_fd}, client : Clients \cup {None}])
  /\ Len(events) <= MAX_EVENTS
  /\ \A i, j \in 1 .. Len(events) : events[i].fd = events[j].fd => i = j
  /\ \A i \in 1 .. Len(events) :
       events[i].fd # listen_fd =>
         file[events[i].fd] # None /\ file[events[i].fd] = events[i].client
  /\ at \in {<<"loop">>, <<"wait">>, <<"leave">>, <<"done">>} => events = <<>>
  /\ \A fd \in Fds : at = <<"read", fd>> => file[fd] # None /\ ~ Reported(fd)

(* What there is to read or to accept is listed, reported, or being read   *)
(* or accepted; a failing accept() is the exception.                       *)
EdgeInv ==
  /\ \A fd \in Fds :
       file[fd] # None /\ Readable(file[fd]) =>
         Contains(ready, fd) \/ Reported(fd) \/ at = <<"read", fd>>
  /\ backlog # <<>> /\ ~failed =>
       Contains(ready, listen_fd) \/ Reported(listen_fd) \/ at = <<"accept">>

EInv == ListInv /\ BatchInv /\ EdgeInv

StateInv ==
  /\ g_running \in BOOLEAN /\ killed \in BOOLEAN /\ failed \in BOOLEAN
  /\ at \in {<<p>> : p \in {"loop", "wait", "events", "accept", "leave", "done"}}
            \cup {<<"read", fd>> : fd \in Fds}
  /\ \A fd \in Fds : Len(reader[fd]) <= 1
  /\ peer \in [Clients -> {"up", "fin", "dead", "reset", "broken"}]
  /\ arrived \in [Clients -> 0 .. MaxParts]
  /\ \A c \in Clients : got[c] <= arrived[c]

LEMMA PlacesAre ==
  /\ \A p, q \in {"loop", "wait", "events", "accept", "leave", "done"} : <<p>> = <<q>> => p = q
  /\ \A fd : \A p \in {"loop", "wait", "events", "accept", "leave", "done"} : <<"read", fd>> # <<p>>
  /\ \A fd, other : <<"read", fd>> = <<"read", other>> => fd = other
OBVIOUS

LEMMA ListenIs == listen_fd \notin Fds
BY TableAssumption DEF listen_fd, Fds

(* Adding an edge to the list. *)
LEMMA WithEdgeIs ==
  ASSUME NEW T, NEW list \in Seq(T), NEW fd \in T
  PROVE  /\ WithEdge(list, fd) \in Seq(T)
         /\ (\A i, j \in 1 .. Len(list) : list[i] = list[j] => i = j) =>
              \A i, j \in 1 .. Len(WithEdge(list, fd)) :
                WithEdge(list, fd)[i] = WithEdge(list, fd)[j] => i = j
         /\ \A x : Contains(WithEdge(list, fd), x) <=> Contains(list, x) \/ x = fd
<1>1. CASE Contains(list, fd)
  BY <1>1 DEF WithEdge
<1>2. CASE ~ Contains(list, fd)
  <2> DEFINE more == Append(list, fd)
  <2>1. WithEdge(list, fd) = more
    BY <1>2 DEF WithEdge
  <2>2. /\ more \in Seq(T) /\ Len(more) = Len(list) + 1 /\ Len(list) \in Nat
        /\ \A i \in 1 .. Len(list) : more[i] = list[i]
        /\ more[Len(list) + 1] = fd
    BY AppendProperties, LenProperties
  <2> HIDE DEF more
  <2>3. \A i \in 1 .. Len(list) : list[i] # fd
    BY <1>2 DEF Contains
  <2>4. /\ \A i \in 1 .. Len(more) : i \in 1 .. Len(list) \/ i = Len(list) + 1
        /\ \A i \in 1 .. Len(list) : i \in 1 .. Len(more)
        /\ Len(list) + 1 \in 1 .. Len(more)
    BY <2>2
  <2>5. ASSUME \A i, j \in 1 .. Len(list) : list[i] = list[j] => i = j,
               NEW i \in 1 .. Len(more), NEW j \in 1 .. Len(more), more[i] = more[j]
        PROVE  i = j
    <3>1. CASE i \in 1 .. Len(list) /\ j \in 1 .. Len(list)
      BY <2>2, <2>5, <3>1
    <3>2. CASE i = Len(list) + 1 /\ j \in 1 .. Len(list)
      BY <2>2, <2>3, <2>5, <3>2
    <3>3. CASE j = Len(list) + 1 /\ i \in 1 .. Len(list)
      BY <2>2, <2>3, <2>5, <3>3
    <3> QED BY <2>4, <3>1, <3>2, <3>3
  <2>6. ASSUME NEW x PROVE Contains(more, x) <=> Contains(list, x) \/ x = fd
    BY <2>2, <2>4 DEF Contains
  <2> QED BY <2>1, <2>2, <2>5, <2>6
<1> QED BY <1>1, <1>2

(* The list without what is not in S. *)
LEMMA KeepList ==
  ASSUME NEW S, ListInv
  PROVE  /\ Keep(ready, S) \in Seq(Fds \cup {listen_fd})
         /\ \A i, j \in 1 .. Len(Keep(ready, S)) : Keep(ready, S)[i] = Keep(ready, S)[j] => i = j
         /\ \A x : Contains(Keep(ready, S), x) <=> Contains(ready, x) /\ x \in S
<1>1. /\ ready \in Seq(Fds \cup {listen_fd})
      /\ \A i, j \in 1 .. Len(ready) : ready[i] = ready[j] => i = j
  BY DEF ListInv
<1> DEFINE r == Keep(ready, S)
<1>2. /\ r \in Seq(Fds \cup {listen_fd})
      /\ \A a \in 1 .. Len(r) : \E b \in 1 .. Len(ready) : r[a] = ready[b] /\ ready[b] \in S
      /\ \A b \in 1 .. Len(ready) : ready[b] \in S => \E a \in 1 .. Len(r) : r[a] = ready[b]
      /\ \A a, b \in 1 .. Len(r) : r[a] = r[b] => a = b
  BY <1>1, KeepIs
<1> HIDE DEF r
<1>3. ASSUME NEW x PROVE Contains(r, x) <=> Contains(ready, x) /\ x \in S
  BY <1>2 DEF Contains
<1> QED BY <1>2, <1>3 DEF r

(* An edge on an open connection. *)
LEMMA EdgeIs ==
  ASSUME FileInv, PlaceInv, ListInv, NEW c \in Clients, Edge(c)
  PROVE  /\ ready' \in Seq(Fds \cup {listen_fd})
         /\ \A i, j \in 1 .. Len(ready') : ready'[i] = ready'[j] => i = j
         /\ \A x : Contains(ready', x) <=> Contains(ready, x) \/ (x \in Fds /\ file[x] = c)
<1>1. CASE place[c] = "open"
  <2>1. PICK fd \in Fds : file[fd] = c
    BY <1>1 DEF PlaceInv
  <2>2. \A other \in Fds : file[other] = c <=> other = fd
    BY <2>1, NoneAssumption DEF FileInv
  <2>3. FdOf(c) = fd
    BY <2>1, <2>2 DEF FdOf
  <2>4. ready' = WithEdge(ready, fd)
    BY <1>1, <2>3 DEF Edge
  <2>5. /\ ready \in Seq(Fds \cup {listen_fd}) /\ fd \in Fds \cup {listen_fd}
        /\ \A i, j \in 1 .. Len(ready) : ready[i] = ready[j] => i = j
    BY DEF ListInv
  <2> DEFINE T == Fds \cup {listen_fd}
             list == WithEdge(ready, fd)
  <2>6. /\ ready' \in Seq(T)
        /\ \A i, j \in 1 .. Len(ready') : ready'[i] = ready'[j] => i = j
        /\ \A x : Contains(ready', x) <=> Contains(ready, x) \/ x = fd
    <3>1. ready \in Seq(T) /\ fd \in T
      BY <2>5
    <3> HIDE DEF T
    <3>2. /\ list \in Seq(T)
          /\ (\A i, j \in 1 .. Len(ready) : ready[i] = ready[j] => i = j) =>
               \A i, j \in 1 .. Len(list) : list[i] = list[j] => i = j
          /\ \A x : Contains(list, x) <=> Contains(ready, x) \/ x = fd
      BY <3>1, WithEdgeIs
    <3> QED BY <2>4, <2>5, <3>2
  <2>7. \A x : x \in Fds /\ file[x] = c <=> x = fd
    BY <2>1, <2>2
  <2> QED BY ONLY <2>6, <2>7
<1>2. CASE place[c] # "open"
  BY <1>2 DEF Edge, PlaceInv, ListInv
<1> QED BY <1>1, <1>2

-----------------------------------------------------------------------------
LEMMA InitEInv == Init => EInv
<1> SUFFICES ASSUME Init PROVE EInv
  OBVIOUS
<1>1. ready = <<>> /\ events = <<>> /\ backlog = <<>> /\ at = <<"loop">> /\ file = [fd \in Fds |-> None]
  BY DEF Init
<1>2. /\ ready \in Seq(Fds \cup {listen_fd}) /\ Len(ready) = 0
      /\ events \in Seq([fd : Fds \cup {listen_fd}, client : Clients \cup {None}]) /\ Len(events) = 0
  BY <1>1, EmptySeq
<1>3. ListInv
  BY <1>2 DEF ListInv, Contains
<1>4. BatchInv
  BY <1>1, <1>2, PlacesAre, TableAssumption DEF BatchInv
<1>5. EdgeInv
  BY <1>1 DEF EdgeInv
<1> QED BY <1>3, <1>4, <1>5 DEF EInv

(* Steps that read or accept nothing, and learn of nothing. *)
LEMMA ControlEInv ==
  ASSUME EInv, Loop \/ HandledAll \/ AcceptedAll \/ AcceptFails \/ Signal
               \/ (\E fd \in Fds : ReadNothing(fd))
  PROVE  EInv'
<1>1. UNCHANGED <<events, ready, file, peer, got, arrived, backlog>>
  BY DEF Loop, HandledAll, AcceptedAll, AcceptFails, Signal, ReadNothing, Goto,
         tableVars, netVars, dataVars
<1>2. /\ at' \in {<<"loop">>, <<"wait">>, <<"leave">>, <<"done">>} => events = <<>>
      /\ \A fd \in Fds : at' = <<"read", fd>> => at = <<"read", fd>>
      /\ \A fd \in Fds : at = <<"read", fd>> /\ at' # <<"read", fd>> => ~ Readable(file[fd])
      /\ at = <<"accept">> /\ at' # <<"accept">> => backlog = <<>> \/ failed'
      /\ ~ failed' /\ failed => backlog = <<>>
  <2>1. CASE Loop
    BY <2>1, PlacesAre DEF Loop, Goto, netVars, EInv, BatchInv
  <2>2. CASE HandledAll
    BY <2>2, PlacesAre DEF HandledAll, Goto, netVars
  <2>3. CASE AcceptedAll
    BY <2>3, PlacesAre DEF AcceptedAll, Goto
  <2>4. CASE AcceptFails
    BY <2>4, PlacesAre DEF AcceptFails, Goto
  <2>5. CASE Signal
    BY <2>5, PlacesAre DEF Signal, netVars, EInv, BatchInv
  <2>6. CASE \E fd \in Fds : ReadNothing(fd)
    BY <2>6, PlacesAre DEF ReadNothing, Goto, netVars
  <2> QED BY <2>1, <2>2, <2>3, <2>4, <2>5, <2>6
<1>3. ListInv'
  BY <1>1 DEF EInv, ListInv
<1>4. BatchInv'
  BY <1>1, <1>2 DEF EInv, BatchInv, Reported
<1>5. EdgeInv'
  BY <1>1, <1>2 DEF EInv, EdgeInv, Reported, Readable
<1> QED BY <1>3, <1>4, <1>5 DEF EInv

(* epoll_wait() reports a part of what is due and keeps the rest. *)
LEMMA WaitEInv ==
  ASSUME IInv, EInv, Wait
  PROVE  EInv'
<1> DEFINE d == Due
           n == IF Len(d) < MAX_EVENTS THEN Len(d) ELSE MAX_EVENTS
           S == {fd \in Listed : Pending(fd)}
<1>1. /\ at = <<"wait">> /\ at' = <<"events">>
      /\ events' = [i \in 1 .. n |-> Event(d[i])]
      /\ ready' = SubSeq(d, n + 1, Len(d))
      /\ UNCHANGED <<file, peer, got, arrived, backlog, failed>>
  BY DEF Wait, Goto, tableVars, dataVars
<1>2. /\ d \in Seq(Fds \cup {listen_fd})
      /\ \A i, j \in 1 .. Len(d) : d[i] = d[j] => i = j
      /\ \A x : Contains(d, x) <=> Contains(ready, x) /\ x \in S
  BY KeepList DEF EInv, Due
<1>3. \A x : x \in Listed <=> Contains(ready, x)
  BY DEF Listed, Contains
<1> HIDE DEF d
<1>4. /\ Len(d) \in Nat /\ \A i \in 1 .. Len(d) : d[i] \in Fds \cup {listen_fd}
      /\ MAX_EVENTS \in Nat /\ n \in 0 .. Len(d) /\ n <= MAX_EVENTS
  BY <1>2, LenProperties, ElementOfSeq, TableAssumption
<1> HIDE DEF n
<1>5. /\ ready' \in Seq(Fds \cup {listen_fd})
      /\ Len(ready') = Len(d) - n
      /\ \A i \in 1 .. Len(ready') : ready'[i] = d[n + i] /\ n + i \in 1 .. Len(d)
  <2>1. n + 1 \in Int /\ Len(d) \in Int /\ \A i \in n + 1 .. Len(d) : d[i] \in Fds \cup {listen_fd}
    BY <1>4
  <2>2. /\ ready' \in Seq(Fds \cup {listen_fd})
        /\ Len(ready') = IF n + 1 <= Len(d) THEN Len(d) - (n + 1) + 1 ELSE 0
        /\ \A i \in 1 .. Len(d) - (n + 1) + 1 : ready'[i] = d[(n + 1) + i - 1]
    BY <1>1, <2>1, SubSeqProperties
  <2>3. Len(ready') = Len(d) - n
    BY <1>4, <2>2
  <2>4. ASSUME NEW i \in 1 .. Len(ready') PROVE ready'[i] = d[n + i] /\ n + i \in 1 .. Len(d)
    <3>1. i \in 1 .. Len(d) - (n + 1) + 1 /\ (n + 1) + i - 1 = n + i /\ n + i \in 1 .. Len(d)
      BY <1>4, <2>3
    <3> QED BY <2>2, <3>1
  <2> QED BY <2>2, <2>3, <2>4
<1>6. /\ Len(events') = n
      /\ \A i \in 1 .. n : events'[i] = Event(d[i]) /\ i \in 1 .. Len(d)
  BY <1>1, <1>4
<1>7. /\ FileInv /\ file \in [Fds -> Clients \cup {None}]
      /\ \A i \in 1 .. Len(d) : d[i] # listen_fd => d[i] \in Fds /\ file[d[i]] # None
  <2>1. \A i \in 1 .. Len(d) : Contains(d, d[i])
    BY DEF Contains
  <2> QED BY <1>2, <1>4, <2>1 DEF EInv, ListInv, IInv, FileInv
<1>8. /\ \A i \in 1 .. n : events'[i].fd = d[i]
      /\ \A i \in 1 .. n : d[i] # listen_fd => events'[i].client = file[d[i]]
  BY <1>6 DEF Event
<1>9. \A x : Contains(d, x) => Contains(ready', x) \/ Reported(x)'
  <2>1. SUFFICES ASSUME NEW i \in 1 .. Len(d)
                 PROVE  \/ Contains(ready', d[i])
                        \/ \E j \in 1 .. Len(events') : events'[j].fd = d[i]
    BY DEF Contains, Reported
  <2>2. CASE i <= n
    <3>1. i \in 1 .. Len(events') /\ events'[i].fd = d[i]
      BY <1>4, <1>6, <1>8, <2>2
    <3> QED BY <3>1
  <2>3. CASE i > n
    <3>1. i - n \in 1 .. Len(ready') /\ n + (i - n) = i
      BY <1>4, <1>5, <2>3
    <3>2. ready'[i - n] = d[i]
      BY <1>5, <3>1
    <3> QED BY <3>1, <3>2 DEF Contains
  <2> QED BY <1>4, <2>2, <2>3
<1>10. ListInv'
  <2>1. ASSUME NEW i \in 1 .. Len(ready'), NEW j \in 1 .. Len(ready'), ready'[i] = ready'[j]
        PROVE  i = j
    <3>1. n + i = n + j
      BY <1>2, <1>5, <2>1
    <3> QED BY <1>4, <1>5, <3>1
  <2>2. ASSUME NEW fd \in Fds, Contains(ready', fd) PROVE file'[fd] # None
    BY <1>1, <1>5, <1>7, <2>2, ListenIs DEF Contains
  <2> QED BY <1>5, <2>1, <2>2 DEF ListInv
<1>11. BatchInv'
  <2>1. events' \in Seq([fd : Fds \cup {listen_fd}, client : Clients \cup {None}])
    <3>1. ASSUME NEW i \in 1 .. n
          PROVE  Event(d[i]) \in [fd : Fds \cup {listen_fd}, client : Clients \cup {None}]
      BY <1>4, <1>6, <1>7 DEF Event
    <3>2. n \in Nat
      BY <1>4
    <3> QED BY <1>1, <3>1, <3>2, IsASeq
  <2>2. ASSUME NEW i \in 1 .. n, NEW j \in 1 .. n, events'[i].fd = events'[j].fd PROVE i = j
    BY <1>2, <1>6, <1>8, <2>2
  <2>3. \A i \in 1 .. n : events'[i].fd # listen_fd =>
          file'[events'[i].fd] # None /\ file'[events'[i].fd] = events'[i].client
    BY <1>1, <1>6, <1>7, <1>8
  <2> QED BY <1>1, <1>4, <1>6, <2>1, <2>2, <2>3, PlacesAre DEF BatchInv
<1>12. EdgeInv'
  <2>1. ASSUME NEW fd \in Fds, file'[fd] # None, Readable(file[fd]) PROVE Contains(d, fd)
    <3>1. Contains(ready, fd)
      BY <1>1, <2>1, PlacesAre, EmptySeq DEF EInv, EdgeInv, BatchInv, Reported
    <3>2. Pending(fd)
      BY <2>1, ListenIs DEF Pending
    <3> QED BY <1>2, <1>3, <3>1, <3>2
  <2>2. ASSUME backlog # <<>>, ~ failed PROVE Contains(d, listen_fd)
    <3>1. Contains(ready, listen_fd)
      BY <1>1, <2>2, PlacesAre, EmptySeq DEF EInv, EdgeInv, BatchInv, Reported
    <3> QED BY <1>2, <1>3, <2>2, <3>1 DEF Pending
  <2> QED BY <1>1, <1>9, <2>1, <2>2 DEF EdgeInv, Readable
<1> QED BY <1>10, <1>11, <1>12 DEF EInv

(* The next event of the batch. *)
LEMMA DispatchEInv ==
  ASSUME EInv, Dispatch
  PROVE  EInv'
<1> DEFINE h == Head(events)
           E == [fd : Fds \cup {listen_fd}, client : Clients \cup {None}]
<1>1. /\ events # <<>> /\ at = <<"events">> /\ events' = Tail(events)
      /\ at' = IF h.fd = listen_fd THEN <<"accept">> ELSE <<"read", h.fd>>
      /\ UNCHANGED <<ready, file, peer, got, arrived, backlog, failed>>
  BY DEF Dispatch, Goto, tableVars, netVars, dataVars
<1>2. /\ events \in Seq(E) /\ Len(events) \in Nat /\ Len(events) >= 1 /\ Len(events) <= MAX_EVENTS
      /\ MAX_EVENTS \in Nat
  BY <1>1, EmptySeq, LenProperties, TableAssumption DEF EInv, BatchInv
<1>3. /\ events' \in Seq(E) /\ Len(events') = Len(events) - 1
      /\ \A i \in 1 .. Len(events') : events'[i] = events[i + 1]
      /\ h = events[1] /\ h \in E
  <2>1. 1 \in 1 .. Len(events)
    BY <1>2
  <2>2. h = events[1] /\ h \in E
    <3> HIDE DEF E
    <3> QED BY <1>1, <1>2, <2>1, ElementOfSeq
  <2>3. /\ Tail(events) \in Seq(E) /\ Len(Tail(events)) = Len(events) - 1
        /\ \A i \in 1 .. Len(Tail(events)) : Tail(events)[i] = events[i + 1]
    <3> HIDE DEF E
    <3> QED BY <1>1, <1>2, HeadTailProperties
  <2> QED BY <1>1, <2>2, <2>3
<1>4. \A i \in 1 .. Len(events') : i + 1 \in 1 .. Len(events) /\ i + 1 # 1
  BY <1>2, <1>3
<1>5. 1 \in 1 .. Len(events)
  BY <1>2
<1> HIDE DEF h, E
<1>6. \A x : Reported(x) <=> h.fd = x \/ Reported(x)'
  <2>1. ASSUME NEW i \in 1 .. Len(events) PROVE i = 1 \/ (i - 1 \in 1 .. Len(events') /\ (i - 1) + 1 = i)
    BY <1>2, <1>3
  <2>2. ASSUME NEW x, Reported(x) PROVE h.fd = x \/ Reported(x)'
    <3>1. PICK i \in 1 .. Len(events) : events[i].fd = x
      BY <2>2 DEF Reported
    <3>2. CASE i = 1
      BY <1>3, <3>1, <3>2
    <3>3. CASE i - 1 \in 1 .. Len(events') /\ (i - 1) + 1 = i
      <4>1. events'[i - 1].fd = x
        BY <1>3, <3>1, <3>3
      <4>2. \E j \in 1 .. Len(events') : events'[j].fd = x
        BY <3>3, <4>1
      <4> QED BY <4>2 DEF Reported
    <3> QED BY <2>1, <3>2, <3>3
  <2>3. ASSUME NEW x, h.fd = x \/ Reported(x)' PROVE Reported(x)
    BY <1>3, <1>4, <1>5, <2>3 DEF Reported
  <2> QED BY <2>2, <2>3
<1>7. /\ \A i, j \in 1 .. Len(events) : events[i].fd = events[j].fd => i = j
      /\ \A i \in 1 .. Len(events) : events[i].fd # listen_fd =>
           file[events[i].fd] # None /\ file[events[i].fd] = events[i].client
  BY DEF EInv, BatchInv
<1>8. \A i \in 1 .. Len(events') : events'[i].fd # h.fd
  <2>1. SUFFICES ASSUME NEW i \in 1 .. Len(events'), events'[i].fd = h.fd PROVE FALSE
    OBVIOUS
  <2>2. events[i + 1].fd = events[1].fd
    BY <1>3, <2>1
  <2> QED BY <1>4, <1>5, <1>7, <2>2
<1>9. ListInv'
  BY <1>1 DEF EInv, ListInv
<1>10. BatchInv'
  <2>1. Len(events') <= MAX_EVENTS
    BY <1>2, <1>3
  <2>2. ASSUME NEW i \in 1 .. Len(events'), NEW j \in 1 .. Len(events'), events'[i].fd = events'[j].fd
        PROVE  i = j
    <3>1. i + 1 = j + 1
      BY <1>3, <1>4, <1>7, <2>2
    <3> QED BY <1>3, <3>1
  <2>3. \A i \in 1 .. Len(events') : events'[i].fd # listen_fd =>
          file'[events'[i].fd] # None /\ file'[events'[i].fd] = events'[i].client
    BY <1>1, <1>3, <1>4, <1>7
  <2>4. \A fd \in Fds : at' = <<"read", fd>> => file'[fd] # None /\ ~ Reported(fd)'
    <3>1. SUFFICES ASSUME NEW fd \in Fds, at' = <<"read", fd>>
                   PROVE  file[fd] # None /\ ~ Reported(fd)'
      BY <1>1
    <3>2. h.fd = fd /\ fd # listen_fd
      BY <1>1, <3>1, PlacesAre, ListenIs
    <3>3. file[events[1].fd] # None
      BY <1>3, <1>5, <1>7, <3>2
    <3>4. ~ Reported(fd)'
      BY <1>8, <3>2 DEF Reported
    <3> QED BY <1>3, <3>2, <3>3, <3>4
  <2>5. at' \notin {<<"loop">>, <<"wait">>, <<"leave">>, <<"done">>}
    BY <1>1, PlacesAre
  <2> QED BY <1>3, <2>1, <2>2, <2>3, <2>4, <2>5 DEF BatchInv, E
<1>11. EdgeInv'
  <2>1. at # <<"accept">> /\ \A fd \in Fds : at # <<"read", fd>>
    BY <1>1, PlacesAre
  <2>2. ASSUME NEW fd \in Fds, file[fd] # None, Readable(file[fd])
        PROVE  Contains(ready, fd) \/ Reported(fd)' \/ at' = <<"read", fd>>
    BY <1>1, <1>6, <2>1, <2>2, ListenIs DEF EInv, EdgeInv
  <2>3. ASSUME backlog # <<>>, ~ failed
        PROVE  Contains(ready, listen_fd) \/ Reported(listen_fd)' \/ at' = <<"accept">>
    BY <1>1, <1>6, <2>1, <2>3 DEF EInv, EdgeInv
  <2> QED BY <1>1, <2>2, <2>3 DEF EdgeInv, Readable
<1> QED BY <1>9, <1>10, <1>11 DEF EInv

(* A connection that is accepted may have been readable for long. *)
LEMMA AcceptEInv ==
  ASSUME IInv, EInv, Accept
  PROVE  EInv'
<1> DEFINE c == Head(backlog)
           f == FreeFd
<1>1. /\ backlog # <<>> /\ at = <<"accept">> /\ at' = <<"accept">>
      /\ UNCHANGED <<events, peer, got, arrived, failed>>
  BY DEF Accept, Goto, dataVars
<1>2. c \in Clients /\ f \in Fds /\ file[f] = None /\ file \in [Fds -> Clients \cup {None}]
  BY <1>1, BacklogTail, FreeFdIs DEF IInv, FileInv
<1>3. ~ Contains(ready, f) /\ ~ Reported(f)
  BY <1>2, ListenIs DEF EInv, ListInv, BatchInv, Reported
<1>4. CASE f < MAX_CLIENTS
  <2>1. /\ file' = [file EXCEPT ![f] = c]
        /\ ready' = IF Readable(c) THEN WithEdge(ready, f) ELSE ready
    BY <1>4 DEF Accept, Accepted
  <2>2. file'[f] = c /\ c # None /\ \A fd \in Fds : fd # f => file'[fd] = file[fd]
    BY <1>2, <2>1, NoneAssumption
  <2> HIDE DEF c, f
  <2> DEFINE T == Fds \cup {listen_fd}
  <2>3. /\ ready' \in Seq(T)
        /\ \A i, j \in 1 .. Len(ready') : ready'[i] = ready'[j] => i = j
        /\ \A x : Contains(ready', x) <=> Contains(ready, x) \/ (x = f /\ Readable(c))
    <3>1. /\ ready \in Seq(T) /\ f \in T
          /\ \A i, j \in 1 .. Len(ready) : ready[i] = ready[j] => i = j
      BY <1>2 DEF EInv, ListInv
    <3> HIDE DEF T
    <3> DEFINE list == WithEdge(ready, f)
    <3>2. /\ list \in Seq(T)
          /\ (\A i, j \in 1 .. Len(ready) : ready[i] = ready[j] => i = j) =>
               \A i, j \in 1 .. Len(list) : list[i] = list[j] => i = j
          /\ \A x : Contains(list, x) <=> Contains(ready, x) \/ x = f
      BY <3>1, WithEdgeIs
    <3> HIDE DEF list
    <3>3. ready' = IF Readable(c) THEN list ELSE ready
      BY <2>1 DEF list
    <3> QED BY <3>1, <3>2, <3>3
  <2>4. ListInv'
    BY <2>2, <2>3 DEF EInv, ListInv
  <2>5. BatchInv'
    <3>1. \A i \in 1 .. Len(events) : events[i].fd # f
      BY <1>3 DEF Reported
    <3>2. \A i \in 1 .. Len(events) : events[i] \in [fd : T, client : Clients \cup {None}]
      BY ElementOfSeq DEF EInv, BatchInv
    <3>3. \A i \in 1 .. Len(events) : events'[i].fd # listen_fd =>
            file'[events'[i].fd] # None /\ file'[events'[i].fd] = events'[i].client
      BY <1>1, <2>2, <3>1, <3>2 DEF EInv, BatchInv
    <3> QED BY <1>1, <3>3, PlacesAre DEF EInv, BatchInv, Reported
  <2>6. EdgeInv'
    <3>1. \A fd \in Fds : at # <<"read", fd>>
      BY <1>1, PlacesAre
    <3>2. ASSUME NEW fd \in Fds, file'[fd] # None, Readable(file'[fd])
          PROVE  Contains(ready', fd) \/ Reported(fd)
      BY <1>2, <2>2, <2>3, <3>1, <3>2 DEF EInv, EdgeInv
    <3> QED BY <1>1, <3>2 DEF EdgeInv, Readable, Reported
  <2> QED BY <2>4, <2>5, <2>6 DEF EInv
<1>5. CASE ~ (f < MAX_CLIENTS)
  <2>1. UNCHANGED <<file, ready>>
    BY <1>5 DEF Accept, tableVars
  <2>2. ListInv' /\ BatchInv'
    BY <1>1, <2>1 DEF EInv, ListInv, BatchInv, Reported
  <2>3. EdgeInv'
    BY <1>1, <2>1 DEF EInv, EdgeInv, Reported, Readable
  <2> QED BY <2>2, <2>3 DEF EInv
<1> QED BY <1>4, <1>5

(* Who is being read stays under the hands of do_read(). *)
LEMMA ReadPartEInv ==
  ASSUME IInv, EInv, StateInv, NEW f \in Fds, ReadPart(f)
  PROVE  EInv'
<1> DEFINE c == file[f]
<1>1. /\ at = <<"read", f>> /\ at' = at
      /\ got' = [got EXCEPT ![c] = got[c] + 1]
      /\ UNCHANGED <<events, ready, file, arrived, backlog, failed>>
      /\ \/ \E x : peer' = [peer EXCEPT ![c] = x]
         \/ peer' = peer
  BY DEF ReadPart, Goto, Write
<1>2. /\ c # None
      /\ \A fd \in Fds : fd # f => file[fd] # c
  BY <1>1 DEF EInv, BatchInv, IInv, FileInv
<1> HIDE DEF c
<1>3. \A d \in Clients : d # c => got'[d] = got[d] /\ peer'[d] = peer[d]
  BY <1>1 DEF IInv, RequestInv, StateInv
<1> USE DEF IInv, FileInv
<1>4. ListInv' /\ BatchInv'
  BY <1>1 DEF EInv, ListInv, BatchInv, Reported
<1>5. EdgeInv'
  <2>1. ASSUME NEW fd \in Fds, file[fd] # None, Readable(file[fd])'
        PROVE  Contains(ready, fd) \/ Reported(fd) \/ at = <<"read", fd>>
    <3>1. CASE fd = f
      BY <1>1, <3>1
    <3>2. CASE fd # f
      BY <1>1, <1>2, <1>3, <2>1, <3>2 DEF Readable, EInv, EdgeInv
    <3> QED BY <3>1, <3>2
  <2> QED BY <1>1, <2>1, PlacesAre DEF EInv, EdgeInv, Readable, Reported
<1> QED BY <1>4, <1>5 DEF EInv

(* The descriptor is closed and off the list. *)
LEMMA ReadEndEInv ==
  ASSUME IInv, EInv, NEW f \in Fds, ReadEnd(f)
  PROVE  EInv'
<1>1. /\ at = <<"read", f>> /\ at' = <<"events">>
      /\ file' = [file EXCEPT ![f] = None]
      /\ ready' = Keep(ready, Listed \ {f})
      /\ UNCHANGED <<events, peer, got, arrived, backlog, failed>>
  BY DEF ReadEnd, Goto, dataVars
<1>2. file \in [Fds -> Clients \cup {None}]
  BY DEF IInv, FileInv
<1>3. file'[f] = None /\ \A fd \in Fds : fd # f => file'[fd] = file[fd]
  BY <1>1, <1>2
<1>4. /\ ready' \in Seq(Fds \cup {listen_fd})
      /\ \A i, j \in 1 .. Len(ready') : ready'[i] = ready'[j] => i = j
      /\ \A x : Contains(ready', x) <=> Contains(ready, x) /\ x # f
  <2>1. \A x : x \in Listed <=> Contains(ready, x)
    BY DEF Listed, Contains
  <2> DEFINE r == Keep(ready, Listed \ {f})
  <2>2. /\ r \in Seq(Fds \cup {listen_fd})
        /\ \A i, j \in 1 .. Len(r) : r[i] = r[j] => i = j
        /\ \A x : Contains(r, x) <=> Contains(ready, x) /\ x \in Listed \ {f}
    BY KeepList DEF EInv
  <2> HIDE DEF r
  <2>3. ready' = r
    BY <1>1 DEF r
  <2> QED BY <2>1, <2>2, <2>3
<1>5. ListInv'
  BY <1>3, <1>4 DEF EInv, ListInv
<1>6. \A i \in 1 .. Len(events) : events[i].fd # f
  BY <1>1 DEF EInv, BatchInv, Reported
<1>7. BatchInv'
  <2>1. \A i \in 1 .. Len(events) :
          events[i] \in [fd : Fds \cup {listen_fd}, client : Clients \cup {None}]
    BY ElementOfSeq DEF EInv, BatchInv
  <2>2. \A i \in 1 .. Len(events) : events[i].fd # listen_fd =>
          file'[events[i].fd] # None /\ file'[events[i].fd] = events[i].client
    BY <1>3, <1>6, <2>1 DEF EInv, BatchInv
  <2> QED BY <1>1, <2>2, PlacesAre DEF EInv, BatchInv, Reported
<1>8. EdgeInv'
  <2>1. ASSUME NEW fd \in Fds, file'[fd] # None, Readable(file'[fd])
        PROVE  Contains(ready', fd) \/ Reported(fd)
    <3>1. fd # f /\ file'[fd] = file[fd]
      BY <1>3, <2>1
    <3>2. at # <<"read", fd>>
      BY <1>1, <3>1, PlacesAre
    <3> QED BY <1>4, <2>1, <3>1, <3>2 DEF EInv, EdgeInv
  <2>2. ASSUME backlog # <<>>, ~ failed PROVE Contains(ready', listen_fd) \/ Reported(listen_fd)
    BY <1>1, <1>4, <2>2, ListenIs, PlacesAre DEF EInv, EdgeInv
  <2> QED BY <1>1, <2>1, <2>2 DEF EdgeInv, Readable, Reported
<1> QED BY <1>5, <1>7, <1>8 DEF EInv

LEMMA LeaveEInv ==
  ASSUME IInv, EInv, Leave
  PROVE  EInv'
<1>1. /\ at = <<"leave">> /\ at' = <<"done">> /\ events' = events
      /\ file' = [fd \in Fds |-> IF slot[fd] THEN None ELSE file[fd]]
      /\ backlog' = <<>> /\ ready' = <<>>
  BY DEF Leave, Goto
<1>2. events = <<>> /\ Len(events) = 0
  BY <1>1, EmptySeq DEF EInv, BatchInv
<1>3. \A fd \in Fds : file'[fd] = None
  BY <1>1, PlacesDiffer DEF IInv, FileInv
<1>4. ready' \in Seq(Fds \cup {listen_fd}) /\ Len(ready') = 0
  BY <1>1, EmptySeq
<1>5. ListInv'
  BY <1>4 DEF ListInv, Contains
<1>6. BatchInv'
  BY <1>1, <1>2, PlacesAre DEF EInv, BatchInv, Reported
<1>7. EdgeInv'
  BY <1>1, <1>3 DEF EdgeInv
<1> QED BY <1>5, <1>6, <1>7 DEF EInv

-----------------------------------------------------------------------------
(* What comes from outside comes with an edge. *)
LEMMA ConnectEInv ==
  ASSUME EInv, NEW c \in Clients, Connect(c)
  PROVE  EInv'
<1>1. /\ ready' = WithEdge(ready, listen_fd)
      /\ UNCHANGED <<at, events, file, peer, got, arrived, failed>>
  BY DEF Connect, tableVars, dataVars
<1> DEFINE T == Fds \cup {listen_fd}
           list == WithEdge(ready, listen_fd)
<1>2. /\ ready \in Seq(T) /\ listen_fd \in T
      /\ \A i, j \in 1 .. Len(ready) : ready[i] = ready[j] => i = j
  BY DEF EInv, ListInv
<1>3. /\ list \in Seq(T)
      /\ (\A i, j \in 1 .. Len(ready) : ready[i] = ready[j] => i = j) =>
           \A i, j \in 1 .. Len(list) : list[i] = list[j] => i = j
      /\ \A x : Contains(list, x) <=> Contains(ready, x) \/ x = listen_fd
  <2> HIDE DEF T
  <2> QED BY <1>2, WithEdgeIs
<1> HIDE DEF list
<1>4. ready' = list
  BY <1>1 DEF list
<1>5. ListInv'
  BY <1>1, <1>2, <1>3, <1>4, ListenIs DEF EInv, ListInv
<1>6. BatchInv'
  BY <1>1 DEF EInv, BatchInv, Reported
<1>7. EdgeInv'
  BY <1>1, <1>3, <1>4 DEF EInv, EdgeInv, Readable, Reported
<1> QED BY <1>5, <1>6, <1>7 DEF EInv

LEMMA ArrivalEInv ==
  ASSUME IInv, EInv, StateInv, NEW c \in Clients,
         Send(c) \/ Close(c) \/ Reset(c) \/ ResetAfterWrite(c)
  PROVE  EInv'
<1>1. /\ Edge(c)
      /\ UNCHANGED <<at, events, file, got, backlog, failed>>
      /\ \A d \in Clients : d # c => peer'[d] = peer[d] /\ arrived'[d] = arrived[d]
  BY DEF Send, Close, Reset, ResetAfterWrite, Ending, tableVars, dataVars, StateInv
<1>2. /\ ready' \in Seq(Fds \cup {listen_fd})
      /\ \A i, j \in 1 .. Len(ready') : ready'[i] = ready'[j] => i = j
      /\ \A x : Contains(ready', x) <=> Contains(ready, x) \/ (x \in Fds /\ file[x] = c)
  BY <1>1, EdgeIs DEF IInv, EInv
<1>3. ListInv'
  BY <1>1, <1>2, NoneAssumption DEF EInv, ListInv
<1>4. BatchInv'
  BY <1>1 DEF EInv, BatchInv, Reported
<1>5. EdgeInv'
  <2>1. ASSUME NEW fd \in Fds, file[fd] # None, Readable(file[fd])'
        PROVE  Contains(ready', fd) \/ Reported(fd) \/ at = <<"read", fd>>
    BY <1>1, <1>2, <2>1 DEF Readable, EInv, EdgeInv, IInv, FileInv
  <2> QED BY <1>1, <1>2, <2>1 DEF EInv, EdgeInv, Readable, Reported
<1> QED BY <1>3, <1>4, <1>5 DEF EInv

LEMMA NextEInv == IInv /\ EInv /\ StateInv /\ [Next]_vars => EInv'
<1> SUFFICES ASSUME IInv, EInv, StateInv, [Next]_vars PROVE EInv'
  OBVIOUS
<1>1. CASE Server
  BY <1>1, ControlEInv, WaitEInv, DispatchEInv, AcceptEInv, ReadPartEInv, ReadEndEInv, LeaveEInv
     DEF Server
<1>2. CASE Environment
  BY <1>2, ControlEInv, ConnectEInv, ArrivalEInv DEF Environment
<1>3. CASE UNCHANGED vars
  BY <1>3 DEF vars, tableVars, netVars, dataVars, EInv, ListInv, BatchInv, EdgeInv, Readable, Reported
<1> QED BY <1>1, <1>2, <1>3 DEF Next

(* The other variables. *)
LEMMA InitStateInv == Init => StateInv
<1> SUFFICES ASSUME Init PROVE StateInv
  OBVIOUS
<1>1. \A fd \in Fds : Len(reader[fd]) = 0
  BY DEF Init
<1>2. 0 \in 0 .. MaxParts
  BY BoundAssumption
<1>3. /\ arrived \in [Clients -> 0 .. MaxParts]
      /\ \A c \in Clients : got[c] <= arrived[c]
  BY <1>2 DEF Init
<1>4. at \in {<<p>> : p \in {"loop", "wait", "events", "accept", "leave", "done"}}
  BY DEF Init
<1>5. /\ g_running \in BOOLEAN /\ killed \in BOOLEAN /\ failed \in BOOLEAN
      /\ peer \in [Clients -> {"up", "fin", "dead", "reset", "broken"}]
  BY DEF Init
<1> QED BY ONLY <1>1, <1>3, <1>4, <1>5 DEF StateInv

LEMMA NextStateInv == IInv /\ EInv /\ StateInv /\ [Next]_vars => StateInv'
<1> SUFFICES ASSUME IInv, EInv, StateInv, [Next]_vars PROVE StateInv'
  OBVIOUS
<1> USE DEF StateInv
<1>1. CASE Loop \/ Wait \/ HandledAll \/ AcceptedAll \/ AcceptFails \/ Leave \/ Signal
  BY <1>1 DEF Loop, Wait, HandledAll, AcceptedAll, AcceptFails, Leave, Signal, Goto,
              tableVars, netVars, dataVars
<1>2. CASE Dispatch
  <2>1. Head(events).fd \in Fds \cup {listen_fd}
    <3>1. Head(events) \in [fd : Fds \cup {listen_fd}, client : Clients \cup {None}]
      BY <1>2, HeadTailProperties DEF Dispatch, EInv, BatchInv
    <3> QED BY <3>1
  <2>2. at' \in {<<"accept">>} \cup {<<"read", fd>> : fd \in Fds}
    BY <1>2, <2>1 DEF Dispatch, Goto
  <2> QED BY <1>2, <2>2 DEF Dispatch, tableVars, netVars, dataVars
<1>3. CASE Accept
  <2>1. \/ reader' = reader
        \/ reader' = [reader EXCEPT ![FreeFd] = <<>>]
    BY <1>3 DEF Accept, tableVars
  <2>2. DOMAIN reader = Fds /\ Len(<<>>) = 0
    BY DEF IInv, RequestInv
  <2>3. \A fd \in Fds : reader'[fd] = reader[fd] \/ reader'[fd] = <<>>
    BY <2>1, <2>2
  <2>4. \A fd \in Fds : Len(reader'[fd]) <= 1
    BY <2>2, <2>3
  <2> QED BY <1>3, <2>4 DEF Accept, Goto, dataVars
<1>4. ASSUME NEW f \in Fds, ReadPart(f) PROVE StateInv'
  <2> DEFINE c == file[f]
             part == Part(c, got[c] + 1)
  <2>1. /\ at = <<"read", f>> /\ at' = at /\ got[c] < arrived[c]
        /\ got' = [got EXCEPT ![c] = got[c] + 1]
        /\ reader' = [reader EXCEPT ![f] = IF reader[f] = <<>> THEN <<part>> ELSE <<>>]
        /\ UNCHANGED <<g_running, failed, arrived>>
    BY <1>4 DEF ReadPart, Goto
  <2>2. c \in Clients /\ got \in [Clients -> Nat] /\ DOMAIN reader = Fds
    BY <2>1 DEF EInv, BatchInv, IInv, FileInv, RequestInv
  <2>3. peer' \in [Clients -> {"up", "fin", "dead", "reset", "broken"}] /\ killed' \in BOOLEAN
    <3>1. \/ UNCHANGED <<peer, killed>>
          \/ Write(c)
      BY <1>4 DEF ReadPart
    <3>2. ASSUME Write(c) PROVE peer' \in [Clients -> {"up", "fin", "dead", "reset", "broken"}]
      <4> DEFINE x == CASE peer[c] = "fin" -> "dead" [] peer[c] = "reset" -> "broken"
                        [] OTHER -> peer[c]
      <4>1. x \in {"up", "fin", "dead", "reset", "broken"}
        BY <2>2
      <4>2. peer' = [peer EXCEPT ![c] = x]
        BY <3>2 DEF Write
      <4> HIDE DEF x
      <4> QED BY <4>1, <4>2
    <3>3. ASSUME Write(c) PROVE killed' \in BOOLEAN
      BY <3>3 DEF Write
    <3> QED BY <3>1, <3>2, <3>3
  <2> HIDE DEF c, part
  <2>4. Len(<<part>>) = 1 /\ Len(<<>>) = 0
    OBVIOUS
  <2>5. \A fd \in Fds : reader'[fd] \in {reader[fd], <<part>>, <<>>}
    BY <2>1, <2>2
  <2>6. \A fd \in Fds : Len(reader'[fd]) <= 1
    <3>1. SUFFICES ASSUME NEW fd \in Fds PROVE Len(reader'[fd]) <= 1
      OBVIOUS
    <3>2. reader'[fd] = reader[fd] \/ reader'[fd] = <<part>> \/ reader'[fd] = <<>>
      BY <2>5
    <3>3. Len(reader[fd]) <= 1
      OBVIOUS
    <3>4. CASE reader'[fd] = <<part>>
      BY <2>4, <3>4
    <3>5. CASE reader'[fd] = <<>>
      BY <2>4, <3>5
    <3> QED BY <3>2, <3>3, <3>4, <3>5
  <2>7. \A d \in Clients : got'[d] <= arrived'[d]
    BY <2>1, <2>2
  <2> QED BY <2>1, <2>3, <2>6, <2>7
<1>5. ASSUME NEW f \in Fds, ReadNothing(f) \/ ReadEnd(f) PROVE StateInv'
  BY <1>5 DEF ReadNothing, ReadEnd, Goto, tableVars, netVars, dataVars
<1>6. ASSUME NEW c \in Clients, Connect(c) \/ Close(c) \/ Reset(c) \/ ResetAfterWrite(c)
      PROVE  StateInv'
  BY <1>6 DEF Connect, Close, Reset, ResetAfterWrite, Ending, tableVars, netVars, dataVars
<1>7. ASSUME NEW c \in Clients, Send(c) PROVE StateInv'
  <2>1. /\ arrived[c] < MaxParts /\ arrived' = [arrived EXCEPT ![c] = arrived[c] + 1]
        /\ UNCHANGED <<g_running, killed, failed, at, reader, peer, got>>
    BY <1>7 DEF Send, tableVars, dataVars
  <2>2. arrived' \in [Clients -> 0 .. MaxParts] /\ \A d \in Clients : arrived[d] <= arrived'[d]
    BY <2>1, BoundAssumption
  <2>3. \A d \in Clients : got[d] \in Nat /\ arrived[d] \in Nat /\ arrived'[d] \in Nat
    BY <2>2, BoundAssumption DEF IInv, RequestInv
  <2>4. \A d \in Clients : got'[d] <= arrived'[d]
    BY <2>1, <2>2, <2>3
  <2> QED BY <2>1, <2>2, <2>4
<1>8. CASE UNCHANGED vars
  BY <1>8 DEF vars, tableVars, netVars, dataVars
<1> QED BY <1>1, <1>2, <1>3, <1>4, <1>5, <1>6, <1>7, <1>8 DEF Next, Server, Environment

THEOREM EdgeInvariance == Spec => [](EInv /\ StateInv)
<1>1. Init => EInv /\ StateInv
  BY InitEInv, InitStateInv
<1>2. IInv /\ (EInv /\ StateInv) /\ [Next]_vars => (EInv /\ StateInv)'
  BY NextEInv, NextStateInv
<1> QED BY <1>1, <1>2, Invariance, PTL DEF Spec

-----------------------------------------------------------------------------
(* Whatever connections come and go, the table and the kernel agree, a     *)
(* client that is turned away leaves nothing behind, and main() closes all *)
(* that is open.                                                           *)
THEOREM NothingLeaks == Spec => []NoLeak
<1>1. IInv => NoLeak
  BY DEF IInv, FileInv, PlaceInv, NoLeak
<1> QED BY <1>1, Invariance, PTL

(* Requests are taken from the stream whole, also on a descriptor whose    *)
(* last connection broke off in the middle of one.                         *)
THEOREM RequestsStayIntact == Spec => []RequestsIntact
<1>1. IInv => RequestsIntact
  BY DEF IInv, RequestInv, RequestsIntact
<1> QED BY <1>1, Invariance, PTL

(* When the server goes to wait, everything that came in is handled or     *)
(* listed, and no event is used for another connection than its own: edges *)
(* and batches of any length, and descriptors that are given out again.    *)
THEOREM NoEdgeIsLost == Spec => []EventsExact
<1>1. ASSUME EInv PROVE EventsExact
  <2>1. at = <<"wait">> => /\ \A x : ~ Reported(x)
                           /\ \A fd \in Fds : at # <<"read", fd>>
                           /\ at # <<"accept">>
    BY <1>1, EmptySeq, PlacesAre DEF EInv, BatchInv, Reported
  <2> QED BY <1>1, <2>1 DEF EInv, BatchInv, EdgeInv, EventsExact
<1>2. EInv /\ StateInv => EventsExact
  BY <1>1
<1> QED BY <1>2, EdgeInvariance, PTL

(* The state of a server is one its code can be in, whatever its clients   *)
(* do: no batch is longer than the array epoll_wait() fills, and no reader *)
(* holds more than a part of a request.                                    *)
THEOREM TypeCorrect == Spec => []TypeOK
<1>1. ASSUME IInv, EInv, StateInv PROVE TypeOK
  <2>1. \A i \in 1 .. Len(ready) : ready[i] \in Fds \cup {listen_fd}
    BY <1>1, ElementOfSeq DEF EInv, ListInv
  <2>2. IsInjective(ready)
    BY <1>1, LenProperties DEF EInv, ListInv, IsInjective
  <2>3. IsInjective(backlog)
    BY <1>1, LenProperties DEF IInv, PlaceInv, IsInjective
  <2>4. \A c \in Clients : handled[c] <= got[c] /\ got[c] <= arrived[c] /\ arrived[c] <= MaxParts
    <3>1. SUFFICES ASSUME NEW c \in Clients
                   PROVE  handled[c] <= got[c] /\ got[c] <= arrived[c] /\ arrived[c] <= MaxParts
      OBVIOUS
    <3>2. got[c] \in Nat /\ handled[c] = got[c] \div 2
      BY <1>1 DEF IInv, RequestInv
    <3>3. handled[c] <= got[c]
      BY <3>2
    <3> QED BY <1>1, <3>3, BoundAssumption DEF StateInv
  <2> QED BY <1>1, <2>1, <2>2, <2>3, <2>4
          DEF IInv, FileInv, PlaceInv, EInv, BatchInv, StateInv, TypeOK
<1>2. IInv /\ (EInv /\ StateInv) => TypeOK
  BY <1>1
<1> QED BY <1>2, Invariance, EdgeInvariance, PTL

=============================================================================
