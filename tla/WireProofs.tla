----------------------------- MODULE WireProofs -----------------------------
(***************************************************************************)
(* Theorems about messages and about Wire, for any transfer size, any      *)
(* words and any number of messages.  First what << and >> promise each    *)
(* other, for bodies and data of any length, and where that ends: at the   *)
(* widths of header.size and of size_t.  Then the types of the connection, *)
(* with what they rest on: each end has at most one write of each kind.    *)
(*                                                                         *)
(* The rest holds while no two writes of an end have mixed.  It climbs     *)
(* from the words that are under way (Flow, and Pending for the writes     *)
(* that still own some of them) to the buffers an end has begun (Layout:   *)
(* which of them is the validation, the header or the body of which        *)
(* message, and where writer and reader are in them) and from there to the *)
(* messages (Received, Known).  Sound is all of it for one direction.      *)
(***************************************************************************)
EXTENDS Wire, SequenceTheorems, FiniteSetTheorems, TLAPS

MessagesOf(Word) == [id : Nat, size : Nat, body : Seq(Word)]

LEMMA ModSmall == ASSUME NEW m \in Nat \ {0}, NEW k \in 0 .. m - 1 PROVE k % m = k
OBVIOUS

LEMMA ModNegative ==
  ASSUME NEW m \in Nat \ {0}, NEW k \in Int, k < 0, -m < k
  PROVE  k % m = k + m
OBVIOUS

(* header.size tells the length of the body exactly when the body is       *)
(* shorter than header.size has values.                                    *)
THEOREM SizeTrueWhileItFits ==
  ASSUME NEW Word, NEW msg \in MessagesOf(Word), NEW data \in Seq(Word)
  PROVE  LET pushed == Push(msg, data)
         IN  pushed.size = Len(pushed.body) <=> Len(pushed.body) < UInt32
<1>1. /\ Push(msg, data).body = msg.body \o data
      /\ Push(msg, data).size = Len(msg.body \o data) % UInt32
  BY DEF Push, WithBody, MessagesOf
<1>2. Len(msg.body \o data) \in Nat
  BY ConcatProperties, LenProperties DEF MessagesOf
<1>3. \A n \in Nat : n % UInt32 = n <=> n < UInt32
  BY NetMessageAssumption
<1> QED
  BY <1>1, <1>2, <1>3

(* >> copies from inside the body exactly when the body is as long as the  *)
(* datum; otherwise the offset has wrapped.                                *)
THEOREM PopDefinedWhenLongEnough ==
  ASSUME NEW Word, NEW msg \in MessagesOf(Word), NEW n \in Nat,
         Len(msg.body) < SizeT, n < SizeT
  PROVE  PopDefined(msg, n) <=> n <= Len(msg.body)
<1> DEFINE l == Len(msg.body)
<1>1. l \in Nat /\ l < SizeT /\ SizeT \in Nat \ {0}
  BY LenProperties, NetMessageAssumption DEF MessagesOf
<1> HIDE DEF l
<1>2. CASE n <= l
  <2>1. (l - n) % SizeT = l - n
    BY <1>1, <1>2, ModSmall
  <2>2. Offset(msg, n) = l - n
    BY <2>1 DEF Offset, l
  <2>3. PopDefined(msg, n) <=> l - n + n <= l
    BY <2>2 DEF PopDefined, l
  <2> QED
    BY <1>1, <1>2, <2>3 DEF l
<1>3. CASE ~(n <= l)
  <2>1. (l - n) % SizeT = l - n + SizeT
    BY <1>1, <1>3, ModNegative
  <2>2. Offset(msg, n) = l - n + SizeT
    BY <2>1 DEF Offset, l
  <2>3. PopDefined(msg, n) <=> l - n + SizeT + n <= l
    BY <2>2 DEF PopDefined, l
  <2> QED
    BY <1>1, <1>3, <2>3 DEF l
<1> QED
  BY <1>2, <1>3

(* Reading back the two parts of what << has joined.                       *)
LEMMA PartsOfConcat ==
  ASSUME NEW Word, NEW b \in Seq(Word), NEW data \in Seq(Word)
  PROVE  /\ b \o data \in Seq(Word)
         /\ Len(b \o data) = Len(b) + Len(data)
         /\ SubSeq(b \o data, 1, Len(b)) = b
         /\ SubSeq(b \o data, Len(b) + 1, Len(b) + Len(data)) = data
<1>1. b \o data \in Seq(Word) /\ Len(b \o data) = Len(b) + Len(data)
  BY ConcatProperties
<1>2. SubSeq(b \o data, 1, Len(b)) = b
  BY SubSeqOfConcat1, SubSeqFull, LenProperties
<1>3. SubSeq(b \o data, Len(b) + 1, Len(b) + Len(data)) = data
  BY SubSeqOfConcat2, SubSeqFull, LenProperties
<1> QED
  BY <1>1, <1>2, <1>3

(* A pop undoes the push before it: the datum comes out as it went in, and *)
(* the body and its size are what they were.                               *)
THEOREM PopUndoesPush ==
  ASSUME NEW Word, NEW msg \in MessagesOf(Word), NEW data \in Seq(Word),
         msg.size = Len(msg.body) % UInt32,
         Len(msg.body) + Len(data) < SizeT
  PROVE  LET pushed == Push(msg, data)
             n == Len(data)
         IN  /\ PopDefined(pushed, n)
             /\ Popped(pushed, n) = data
             /\ AfterPop(pushed, n) = msg
<1> DEFINE b == msg.body
           p == Push(msg, data)
<1>1. /\ b \in Seq(Word) /\ Len(b) \in Nat /\ Len(data) \in Nat
      /\ SizeT \in Nat \ {0} /\ Len(b) + Len(data) < SizeT
  BY LenProperties, NetMessageAssumption DEF MessagesOf
<1>2. msg = [id |-> msg.id, size |-> Len(b) % UInt32, body |-> b]
  <2>1. msg = [id |-> msg.id, size |-> msg.size, body |-> msg.body]
    BY DEF MessagesOf
  <2> QED
    BY <2>1
<1>3. p = [id |-> msg.id, size |-> Len(b \o data) % UInt32, body |-> b \o data]
  BY DEF Push, WithBody
<1> HIDE DEF b, p
<1>4. /\ Len(p.body) = Len(b) + Len(data)
      /\ SubSeq(p.body, 1, Len(b)) = b
      /\ SubSeq(p.body, Len(b) + 1, Len(b) + Len(data)) = data
  BY <1>1, <1>3, PartsOfConcat
<1>5. Offset(p, Len(data)) = Len(b)
  <2>1. Len(b) + Len(data) - Len(data) = Len(b) /\ Len(b) \in 0 .. SizeT - 1
    BY <1>1
  <2>2. Len(b) % SizeT = Len(b)
    BY <1>1, <2>1, ModSmall
  <2> QED
    BY <1>4, <2>1, <2>2 DEF Offset
<1>6. PopDefined(p, Len(data))
  BY <1>1, <1>4, <1>5 DEF PopDefined
<1>7. Popped(p, Len(data)) = data
  BY <1>4, <1>5 DEF Popped
<1>8. AfterPop(p, Len(data)) = msg
  <2>1. AfterPop(p, Len(data)) = WithBody(p, b)
    BY <1>4, <1>5 DEF AfterPop
  <2> QED
    BY <1>2, <1>3, <2>1 DEF WithBody
<1> QED
  BY <1>6, <1>7, <1>8 DEF p
-----------------------------------------------------------------------------
(* Each end has at most one write of each kind in async_write_some.        *)
Orders == {<< >>, <<"validation">>, <<"message">>, <<"validation", "message">>,
           <<"message", "validation">>}

Asks(q, w) == \E i \in DOMAIN q : q[i] = w

LEMMA RequestAdded ==
  ASSUME NEW q \in Orders, NEW w \in Writes, ~Asks(q, w)
  PROVE  /\ Append(q, w) \in Orders
         /\ \A x \in Writes : Asks(Append(q, w), x) <=> Asks(q, x) \/ x = w
<1>1. CASE q = << >>
  <2>1. Append(q, w) = <<w>>
    BY <1>1
  <2> QED
    BY <1>1, <2>1 DEF Orders, Asks, Writes
<1>2. CASE \E v \in Writes : q = <<v>>
  <2>1. PICK v \in Writes : q = <<v>>
    BY <1>2
  <2>2. v # w
    BY <2>1 DEF Asks
  <2>3. Append(<<v>>, w) = <<v, w>>
    <3>1. <<v>> \in Seq(Writes) /\ Len(<<v>>) = 1 /\ <<v>>[1] = v
      OBVIOUS
    <3>2. <<v, w>> \in Seq(Writes) /\ Len(<<v, w>>) = 2 /\ <<v, w>>[1] = v /\ <<v, w>>[2] = w
      OBVIOUS
    <3> DEFINE a == Append(<<v>>, w)
    <3>3. a \in Seq(Writes) /\ Len(a) = 2 /\ a[1] = v /\ a[2] = w
      BY <3>1, AppendProperties
    <3> HIDE DEF a
    <3>4. \A i \in 1 .. 2 : i = 1 \/ i = 2
      OBVIOUS
    <3>5. a = <<v, w>>
      BY <3>2, <3>3, <3>4, SeqEqual
    <3> QED
      BY <3>5 DEF a
  <2> QED
    BY <2>1, <2>2, <2>3 DEF Orders, Asks, Writes
<1>3. CASE q = <<"validation", "message">> \/ q = <<"message", "validation">>
  BY <1>3 DEF Asks, Writes
<1> QED
  BY <1>1, <1>2, <1>3 DEF Orders, Writes

LEMMA RequestServed ==
  ASSUME NEW q \in Orders, q # << >>
  PROVE  /\ Head(q) \in Writes /\ Tail(q) \in Orders /\ Asks(q, Head(q))
         /\ \A x \in Writes : Asks(Tail(q), x) <=> Asks(q, x) /\ x # Head(q)
<1>1. CASE \E v \in Writes : q = <<v>>
  <2>1. PICK v \in Writes : q = <<v>>
    BY <1>1
  <2>2. Head(q) = v /\ Tail(q) = << >>
    BY <2>1
  <2> QED
    BY <2>1, <2>2 DEF Orders, Asks
<1>2. CASE \E v, w \in Writes : v # w /\ q = <<v, w>>
  <2>1. PICK v \in Writes, w \in Writes : v # w /\ q = <<v, w>>
    BY <1>2
  <2>2. Head(q) = v /\ Tail(q) = <<w>>
    BY <2>1
  <2> QED
    BY <2>1, <2>2 DEF Orders, Asks, Writes
<1> QED
  BY <1>1, <1>2 DEF Orders, Writes
-----------------------------------------------------------------------------
(* A write that is outstanding either waits in async_write_some or has had *)
(* words taken; one that waits has words left.                             *)
Kinds == {"none", "validation", "header", "body"}
KindsOf(w) == IF w = "validation" THEN {"validation"} ELSE {"header", "body"}
Operations == [kind : Kinds, data : Seq(Words), done : Nat]

Left(x, m) == Len(x.data) - x.done - m

WriteIs(w, x, m, q, b) ==
  /\ x.kind = "none" => x = Idle /\ m = 0 /\ ~Asks(q, w)
  /\ x.kind # "none" => /\ x.kind \in KindsOf(w)
                        /\ x.data # << >>
                        /\ b # << >>
                        /\ m = 0 <=> Asks(q, w)
  /\ Left(x, m) >= 0
  /\ Asks(q, w) => Left(x, m) > 0

WriteTrue(e, w) == WriteIs(w, writing[e][w], moved[e][w], requests[e], begun[e])

WritesTyped ==
  /\ writing \in [Ends -> [Writes -> Operations]]
  /\ requests \in [Ends -> Orders]
  /\ moved \in [Ends -> [Writes -> Nat]]
  /\ begun \in [Ends -> Seq(Seq(Words))]
  /\ \A e \in Ends, w \in Writes : WriteTrue(e, w)

LEMMA IdleTyped == Idle \in Operations /\ Len(<< >>) = 0 /\ Idle.kind = "none"
BY DEF Idle, Operations, Kinds

LEMMA BeginTyped ==
  ASSUME WritesTyped, NEW e \in Ends, NEW w \in Writes, NEW d \in Operations,
         d.kind \in KindsOf(w), d.data # << >>, d.done = 0, ~Asks(requests[e], w),
         Begin(e, w, d), moved' = [moved EXCEPT ![e][w] = 0]
  PROVE  WritesTyped'
<1>1. writing' \in [Ends -> [Writes -> Operations]]
  BY DEF WritesTyped, Begin
<1>2. requests[e] \in Orders /\ requests' = [requests EXCEPT ![e] = Append(requests[e], w)]
  BY DEF WritesTyped, Begin
<1>3. /\ Append(requests[e], w) \in Orders
      /\ \A x \in Writes : Asks(Append(requests[e], w), x) <=> Asks(requests[e], x) \/ x = w
  BY <1>2, RequestAdded
<1>4. requests' \in [Ends -> Orders]
  BY <1>2, <1>3 DEF WritesTyped
<1>5. moved' \in [Ends -> [Writes -> Nat]]
  BY DEF WritesTyped
<1>6. begun' \in [Ends -> Seq(Seq(Words))] /\ begun'[e] # << >>
  <2>1. begun[e] \in Seq(Seq(Words)) /\ d.data \in Seq(Words)
    BY DEF WritesTyped, Operations
  <2>2. Append(begun[e], d.data) \in Seq(Seq(Words)) /\ Append(begun[e], d.data) # << >>
    BY <2>1, AppendProperties, EmptySeq
  <2> QED
    BY <2>2 DEF WritesTyped, Begin
<1>7. ASSUME NEW f \in Ends, NEW x \in Writes
      PROVE  WriteIs(x, writing'[f][x], moved'[f][x], requests'[f], begun'[f])
  <2>0. WriteIs(x, writing[f][x], moved[f][x], requests[f], begun[f])
    BY DEF WritesTyped, WriteTrue
  <2>1. CASE f # e
    <3>1. /\ writing'[f][x] = writing[f][x] /\ moved'[f][x] = moved[f][x]
          /\ requests'[f] = requests[f] /\ begun'[f] = begun[f]
      BY <2>1 DEF Begin, WritesTyped
    <3> QED
      BY <2>0, <3>1
  <2>2. CASE f = e /\ x # w
    <3>1. /\ writing'[f][x] = writing[f][x] /\ moved'[f][x] = moved[f][x]
          /\ Asks(requests'[f], x) <=> Asks(requests[f], x)
          /\ begun'[f] # << >>
      BY <1>2, <1>3, <1>6, <2>2 DEF Begin, WritesTyped
    <3> QED
      BY <2>0, <3>1 DEF WriteIs
  <2>3. CASE f = e /\ x = w
    <3>1. /\ writing'[f][x] = d /\ moved'[f][x] = 0
          /\ Asks(requests'[f], x) /\ begun'[f] # << >>
      BY <1>2, <1>3, <1>6, <2>3 DEF Begin, WritesTyped
    <3>2. Left(d, 0) > 0
      <4>1. Len(d.data) \in Nat /\ Len(d.data) # 0
        BY EmptySeq, LenProperties DEF Operations
      <4> QED
        BY <4>1 DEF Left
    <3>3. d.kind # "none" /\ d.kind \in KindsOf(x) /\ d.data # << >>
      BY <2>3 DEF KindsOf
    <3>4. Left(d, 0) >= 0
      BY <3>2, LenProperties DEF Left, Operations
    <3> QED
      BY <3>1, <3>2, <3>3, <3>4 DEF WriteIs
  <2> QED
    BY <2>1, <2>2, <2>3
<1> QED
  BY <1>1, <1>4, <1>5, <1>6, <1>7 DEF WritesTyped, WriteTrue

LEMMA FinishTyped ==
  ASSUME WritesTyped, NEW e \in Ends, NEW w \in Writes, ~Asks(requests[e], w),
         Finish(e, w), moved' = [moved EXCEPT ![e][w] = 0]
  PROVE  WritesTyped'
<1>1. writing' \in [Ends -> [Writes -> Operations]]
  BY IdleTyped DEF WritesTyped, Finish
<1>2. requests' = requests /\ begun' = begun
  BY DEF Finish
<1>3. ASSUME NEW f \in Ends, NEW x \in Writes
      PROVE  WriteIs(x, writing'[f][x], moved'[f][x], requests'[f], begun'[f])
  <2>0. WriteIs(x, writing[f][x], moved[f][x], requests[f], begun[f])
    BY DEF WritesTyped, WriteTrue
  <2>1. CASE f # e \/ x # w
    <3>1. writing'[f][x] = writing[f][x] /\ moved'[f][x] = moved[f][x]
      BY <2>1 DEF Finish, WritesTyped
    <3> QED
      BY <1>2, <2>0, <3>1
  <2>2. CASE f = e /\ x = w
    <3>1. writing'[f][x] = Idle /\ moved'[f][x] = 0
      BY <2>2 DEF Finish, WritesTyped
    <3>2. Left(Idle, 0) = 0
      BY DEF Left, Idle
    <3> QED
      BY <1>2, <2>2, <3>1, <3>2, IdleTyped DEF WriteIs
  <2> QED
    BY <2>1, <2>2
<1>4. moved' \in [Ends -> [Writes -> Nat]]
  BY DEF WritesTyped
<1> QED
  BY <1>1, <1>2, <1>3, <1>4 DEF WritesTyped, WriteTrue

LEMMA ContinueTyped ==
  ASSUME WritesTyped, NEW e \in Ends, NEW w \in Writes, WriteContinues(e, w)
  PROVE  WritesTyped'
<1> DEFINE x == writing[e][w]
           m == moved[e][w]
           c == [x EXCEPT !.done = x.done + m]
<1>1. /\ x \in Operations /\ m \in Nat /\ requests[e] \in Orders
      /\ WriteIs(w, x, m, requests[e], begun[e])
  BY DEF WritesTyped, WriteTrue
<1>2. /\ m > 0 /\ Left(x, m) > 0
      /\ writing' = [writing EXCEPT ![e][w] = c]
      /\ requests' = [requests EXCEPT ![e] = Append(requests[e], w)]
      /\ moved' = [moved EXCEPT ![e][w] = 0]
      /\ begun' = begun
  BY DEF WriteContinues, WriteSome, Unsent, Left
<1>3. /\ x.kind # "none" /\ ~Asks(requests[e], w)
  BY <1>1, <1>2 DEF WriteIs
<1>4. /\ c \in Operations /\ c.kind = x.kind /\ c.data = x.data /\ c.done = x.done + m
  BY <1>1 DEF Operations
<1>5. Left(c, 0) = Left(x, m)
  BY <1>1, <1>4, LenProperties DEF Left, Operations
<1>6. /\ Append(requests[e], w) \in Orders
      /\ \A v \in Writes : Asks(Append(requests[e], w), v) <=> Asks(requests[e], v) \/ v = w
  BY <1>1, <1>3, RequestAdded
<1> HIDE DEF x, m, c
<1>7. /\ writing' \in [Ends -> [Writes -> Operations]]
      /\ requests' \in [Ends -> Orders]
      /\ moved' \in [Ends -> [Writes -> Nat]]
      /\ begun' \in [Ends -> Seq(Seq(Words))]
  BY <1>2, <1>4, <1>6 DEF WritesTyped
<1>8. ASSUME NEW f \in Ends, NEW v \in Writes
      PROVE  WriteIs(v, writing'[f][v], moved'[f][v], requests'[f], begun'[f])
  <2>0. WriteIs(v, writing[f][v], moved[f][v], requests[f], begun[f])
    BY DEF WritesTyped, WriteTrue
  <2>1. CASE f # e
    <3>1. /\ writing'[f][v] = writing[f][v] /\ moved'[f][v] = moved[f][v]
          /\ requests'[f] = requests[f] /\ begun'[f] = begun[f]
      BY <1>2, <2>1 DEF WritesTyped
    <3> QED
      BY <2>0, <3>1
  <2>2. CASE f = e /\ v # w
    <3>1. /\ writing'[f][v] = writing[f][v] /\ moved'[f][v] = moved[f][v]
          /\ Asks(requests'[f], v) <=> Asks(requests[f], v)
          /\ begun'[f] = begun[f]
      BY <1>2, <1>6, <2>2 DEF WritesTyped
    <3> QED
      BY <2>0, <3>1 DEF WriteIs
  <2>3. CASE f = e /\ v = w
    <3>1. /\ writing'[f][v] = c /\ moved'[f][v] = 0
          /\ Asks(requests'[f], v) /\ begun'[f] = begun[f]
      BY <1>2, <1>6, <2>3 DEF WritesTyped
    <3> QED
      BY <1>1, <1>2, <1>3, <1>4, <1>5, <2>3, <3>1 DEF WriteIs
  <2> QED
    BY <2>1, <2>2, <2>3
<1> QED
  BY <1>7, <1>8 DEF WritesTyped, WriteTrue

(* What a transfer does, with the write named that it serves.              *)
LEMMA TransferIs ==
  ASSUME WritesTyped, NEW e \in Ends, Transfer(e)
  PROVE  \E w \in Writes, n \in Nat :
           LET x == writing[e][w]
           IN  /\ ~broken /\ requests[e] # << >> /\ w = Head(requests[e])
               /\ n > 0 /\ moved[e][w] = 0 /\ x.kind # "none" /\ n <= Left(x, 0)
               /\ stream' = [stream EXCEPT ![Peer(e)] =
                    stream[Peer(e)] \o SubSeq(x.data, x.done + 1, x.done + n)]
               /\ moved' = [moved EXCEPT ![e][w] = n]
               /\ mixed' = mixed \cup {y \in {e} : \E o \in Writes \ {w} : HalfSent(e, o)}
               /\ requests' = [requests EXCEPT ![e] = Tail(requests[e])]
               /\ writing' = writing /\ begun' = begun
<1> DEFINE w == Head(requests[e])
           x == writing[e][w]
<1>1. requests[e] # << >> /\ requests[e] \in Orders
  BY DEF Transfer, WritesTyped
<1>2. w \in Writes /\ Asks(requests[e], w)
  BY <1>1, RequestServed
<1>3. PICK n \in 1 .. AtMost(Unsent(e, w)) :
        /\ stream' = [stream EXCEPT ![Peer(e)] =
                        @ \o SubSeq(x.data, x.done + 1, x.done + n)]
        /\ moved' = [moved EXCEPT ![e][w] = n]
        /\ mixed' = mixed \cup {y \in {e} : \E o \in Writes \ {w} : HalfSent(e, o)}
  BY DEF Transfer
<1> HIDE DEF w
<1>4. /\ x \in Operations /\ moved[e][w] \in Nat
      /\ WriteIs(w, x, moved[e][w], requests[e], begun[e])
  BY <1>2 DEF WritesTyped, WriteTrue
<1>5. x.kind # "none" /\ moved[e][w] = 0 /\ Left(x, 0) > 0
  BY <1>2, <1>4 DEF WriteIs
<1>6. Unsent(e, w) = Left(x, 0) /\ Left(x, 0) \in Nat
  BY <1>4, <1>5, LenProperties DEF Unsent, Left, Operations
<1>7. n \in Nat /\ n > 0 /\ n <= Left(x, 0)
  BY <1>6, WireAssumption DEF AtMost
<1>8. /\ ~broken /\ requests' = [requests EXCEPT ![e] = Tail(requests[e])]
      /\ writing' = writing /\ begun' = begun
  BY DEF Transfer
<1>9. stream' = [stream EXCEPT ![Peer(e)] =
                   stream[Peer(e)] \o SubSeq(x.data, x.done + 1, x.done + n)]
  BY <1>3
<1> QED
  BY <1>1, <1>2, <1>3, <1>5, <1>7, <1>8, <1>9 DEF w

LEMMA TransferTyped ==
  ASSUME WritesTyped, NEW e \in Ends, Transfer(e)
  PROVE  WritesTyped'
<1>1. PICK w \in Writes, n \in Nat :
        /\ requests[e] # << >> /\ w = Head(requests[e])
        /\ n > 0 /\ moved[e][w] = 0 /\ writing[e][w].kind # "none"
        /\ n <= Left(writing[e][w], 0)
        /\ moved' = [moved EXCEPT ![e][w] = n]
        /\ requests' = [requests EXCEPT ![e] = Tail(requests[e])]
        /\ writing' = writing /\ begun' = begun
  BY TransferIs
<1>2. /\ Tail(requests[e]) \in Orders
      /\ \A x \in Writes : Asks(Tail(requests[e]), x) <=> Asks(requests[e], x) /\ x # w
  BY <1>1, RequestServed DEF WritesTyped
<1>3. requests' \in [Ends -> Orders] /\ moved' \in [Ends -> [Writes -> Nat]]
  BY <1>1, <1>2 DEF WritesTyped
<1>4. ASSUME NEW f \in Ends, NEW v \in Writes
      PROVE  WriteIs(v, writing[f][v], moved'[f][v], requests'[f], begun[f])
  <2>0. WriteIs(v, writing[f][v], moved[f][v], requests[f], begun[f])
    BY DEF WritesTyped, WriteTrue
  <2>1. CASE f # e
    <3>1. moved'[f][v] = moved[f][v] /\ requests'[f] = requests[f]
      BY <1>1, <2>1 DEF WritesTyped
    <3> QED
      BY <2>0, <3>1
  <2>2. CASE f = e /\ v # w
    <3>1. /\ moved'[f][v] = moved[f][v]
          /\ Asks(requests'[f], v) <=> Asks(requests[f], v)
      BY <1>1, <1>2, <2>2 DEF WritesTyped
    <3> QED
      BY <2>0, <3>1 DEF WriteIs
  <2>3. CASE f = e /\ v = w
    <3>1. moved'[f][v] = n /\ ~Asks(requests'[f], v)
      BY <1>1, <1>2, <2>3 DEF WritesTyped
    <3>2. Left(writing[e][w], n) = Left(writing[e][w], 0) - n
      BY LenProperties DEF Left, WritesTyped, Operations
    <3>3. Left(writing[e][w], 0) \in Int
      BY LenProperties DEF Left, WritesTyped, Operations
    <3>4. Left(writing[e][w], n) >= 0
      BY <1>1, <3>2, <3>3
    <3> QED
      BY <1>1, <2>0, <2>3, <3>1, <3>4 DEF WriteIs
  <2> QED
    BY <2>1, <2>2, <2>3
<1> QED
  BY <1>1, <1>3, <1>4 DEF WritesTyped, WriteTrue
-----------------------------------------------------------------------------
(* The messages the two programs make.                                     *)
Made(id, data) == [id |-> id, size |-> Len(data), body |-> data]

LEMMA WordSizes ==
  /\ UInt32 \in Nat /\ UInt32 > 3
  /\ {0, 1, 2, 3} \subseteq Words
  /\ \A k \in {0, 1, 2} : k % UInt32 = k
  /\ HeaderSize = 2 /\ ValidationSize = 2 /\ TimePointSize = 2 /\ IDSize = 1
<1>1. UInt32 \in Nat /\ UInt32 > 3
  BY WireAssumption, NetMessageAssumption DEF Words, MessageAll
<1> QED
  BY <1>1, ModSmall DEF Words, HeaderSize, ValidationSize, TimePointSize, IDSize

LEMMA PushOnEmpty ==
  ASSUME NEW id \in {ServerAccept, ServerPing, MessageAll}, NEW data \in Seq(Words),
         Len(data) \in {0, 1, 2}
  PROVE  /\ Push(Message(id), data) = Made(id, data)
         /\ Made(id, data) \in Messages
<1>1. << >> \o data = data
  BY ConcatEmptySeq
<1>2. Message(id).body = << >> /\ Message(id).id = id
  BY DEF Message
<1>3. Push(Message(id), data) = [id |-> id, size |-> Len(data) % UInt32, body |-> data]
  BY <1>1, <1>2 DEF Push, WithBody
<1>4. id \in Words /\ Len(data) \in Words /\ Len(data) % UInt32 = Len(data)
  BY WordSizes DEF ServerAccept, ServerPing, MessageAll
<1> QED
  BY <1>3, <1>4 DEF Made, Messages

LEMMA MessageMade ==
  ASSUME NEW id \in {ServerAccept, ServerPing, MessageAll}
  PROVE  Message(id) = Made(id, << >>) /\ Message(id) \in Messages
<1>1. Message(id) = Made(id, << >>)
  BY DEF Message, Made
<1>2. << >> \in Seq(Words) /\ Len(<< >>) \in {0, 1, 2}
  OBVIOUS
<1>3. Made(id, << >>) \in Messages
  BY <1>2, PushOnEmpty
<1> QED
  BY <1>1, <1>3

LEMMA WordsOf ==
  ASSUME NEW n \in Nat, NEW f \in [1 .. n -> Words]
  PROVE  f \in Seq(Words) /\ Len(f) = n
<1>1. f \in Seq(Words)
  BY SeqDef
<1>2. DOMAIN f = 1 .. n /\ DOMAIN f = 1 .. Len(f) /\ Len(f) \in Nat
  BY <1>1, LenProperties
<1>3. 1 .. n = 1 .. Len(f) => n = Len(f)
  BY <1>2
<1> QED
  BY <1>1, <1>2, <1>3

LEMMA ConstantsTyped ==
  /\ Challenge \in Seq(Words) /\ Len(Challenge) = 2
  /\ Answer \in Seq(Words) /\ Len(Answer) = 2
  /\ OtherAnswer \in Seq(Words) /\ Len(OtherAnswer) = 2
  /\ OtherID \in Seq(Words) /\ Len(OtherID) = 1
  /\ \A k \in DOMAIN TimePoints : TimePoints[k] \in Seq(Words) /\ Len(TimePoints[k]) = 2
<1>1. /\ Challenge \in [1 .. 2 -> Words] /\ Answer \in [1 .. 2 -> Words]
      /\ OtherAnswer \in [1 .. 2 -> Words] /\ OtherID \in [1 .. 1 -> Words]
  BY WireAssumption DEF ValidationSize, IDSize
<1>2. \A k \in DOMAIN TimePoints : TimePoints[k] \in [1 .. 2 -> Words]
  BY WireAssumption, ElementOfSeq, LenProperties DEF TimePointSize
<1> QED
  BY <1>1, <1>2, WordsOf

ClientMessages == {Made(ServerPing, TimePoints[k]) : k \in DOMAIN TimePoints}
                  \cup {Made(MessageAll, << >>)}
Greet == Made(MessageAll, OtherID)

LEMMA MadeTyped ==
  /\ ClientMessages \subseteq Messages /\ Greet \in Messages
  /\ Push(Message(MessageAll), OtherID) = Greet
  /\ \A k \in DOMAIN TimePoints :
       Push(Message(ServerPing), TimePoints[k]) = Made(ServerPing, TimePoints[k])
<1>1. /\ Push(Message(MessageAll), OtherID) = Greet /\ Greet \in Messages
  BY ConstantsTyped, PushOnEmpty DEF Greet
<1>2. ASSUME NEW k \in DOMAIN TimePoints
      PROVE  /\ Push(Message(ServerPing), TimePoints[k]) = Made(ServerPing, TimePoints[k])
             /\ Made(ServerPing, TimePoints[k]) \in Messages
  BY ConstantsTyped, PushOnEmpty
<1>3. Made(MessageAll, << >>) \in Messages
  BY MessageMade
<1> QED
  BY <1>1, <1>2, <1>3 DEF ClientMessages
-----------------------------------------------------------------------------
(* The queue of an end is what it was given and has not written, and a     *)
(* message is being written exactly when there is one.                     *)
Outbox(out, all) ==
  /\ Len(out) <= Len(all)
  /\ \A j \in 1 .. Len(out) : out[j] = all[Len(all) - Len(out) + j]

QueuesTyped ==
  /\ m_qMessagesOut \in [Ends -> Seq(Messages)]
  /\ sent \in [Ends -> Seq(Messages)]
  /\ \A e \in Ends : /\ m_qMessagesOut[e] = << >> <=> writing[e]["message"].kind = "none"
                     /\ Outbox(m_qMessagesOut[e], sent[e])

LEMMA OutboxSent ==
  ASSUME NEW S, NEW out \in Seq(S), NEW all \in Seq(S), NEW x \in S, Outbox(out, all)
  PROVE  Outbox(Append(out, x), Append(all, x))
<1>1. /\ Append(out, x) \in Seq(S) /\ Len(Append(out, x)) = Len(out) + 1
      /\ \A i \in 1 .. Len(out) : Append(out, x)[i] = out[i]
      /\ Append(out, x)[Len(out) + 1] = x
  BY AppendProperties
<1>2. /\ Append(all, x) \in Seq(S) /\ Len(Append(all, x)) = Len(all) + 1
      /\ \A i \in 1 .. Len(all) : Append(all, x)[i] = all[i]
      /\ Append(all, x)[Len(all) + 1] = x
  BY AppendProperties
<1>3. Len(out) \in Nat /\ Len(all) \in Nat /\ Len(out) <= Len(all)
  BY LenProperties DEF Outbox
<1>4. ASSUME NEW j \in 1 .. Len(out) + 1
      PROVE  Append(out, x)[j] = Append(all, x)[Len(all) + 1 - (Len(out) + 1) + j]
  <2>1. Len(all) + 1 - (Len(out) + 1) + j = Len(all) - Len(out) + j
    BY <1>3
  <2>2. CASE j \in 1 .. Len(out)
    <3>1. Len(all) - Len(out) + j \in 1 .. Len(all)
      BY <1>3, <2>2
    <3> QED
      BY <1>1, <1>2, <2>1, <2>2, <3>1 DEF Outbox
  <2>3. CASE j = Len(out) + 1
    <3>1. Len(all) - Len(out) + j = Len(all) + 1
      BY <1>3, <2>3
    <3> QED
      BY <1>1, <1>2, <2>1, <2>3, <3>1
  <2> QED
    BY <1>3, <2>2, <2>3
<1> DEFINE o == Append(out, x)
           a == Append(all, x)
<1>5. Len(o) = Len(out) + 1 /\ Len(a) = Len(all) + 1
  BY <1>1, <1>2
<1>6. \A j \in 1 .. Len(out) + 1 : o[j] = a[Len(all) + 1 - (Len(out) + 1) + j]
  BY <1>4
<1> HIDE DEF o, a
<1>7. Outbox(o, a)
  BY <1>3, <1>5, <1>6 DEF Outbox
<1> QED
  BY <1>7 DEF o, a

LEMMA OutboxPopped ==
  ASSUME NEW S, NEW out \in Seq(S), NEW all \in Seq(S), Outbox(out, all), out # << >>
  PROVE  Outbox(Tail(out), all)
<1>1. /\ Len(Tail(out)) = Len(out) - 1
      /\ \A i \in 1 .. Len(Tail(out)) : Tail(out)[i] = out[i + 1]
  BY HeadTailProperties
<1>2. Len(out) \in Nat \ {0} /\ Len(all) \in Nat /\ Len(out) <= Len(all)
  BY EmptySeq, LenProperties DEF Outbox
<1>3. ASSUME NEW j \in 1 .. Len(Tail(out))
      PROVE  Tail(out)[j] = all[Len(all) - Len(Tail(out)) + j]
  <2>1. /\ j + 1 \in 1 .. Len(out)
        /\ Len(all) - Len(Tail(out)) + j = Len(all) - Len(out) + (j + 1)
    BY <1>1, <1>2
  <2> QED
    BY <1>1, <2>1 DEF Outbox
<1> QED
  BY <1>1, <1>2, <1>3 DEF Outbox

LEMMA HeaderTyped ==
  ASSUME NEW msg \in Messages
  PROVE  /\ Header(msg) \in Operations /\ Header(msg).kind = "header"
         /\ Header(msg).data # << >> /\ Header(msg).done = 0
         /\ Header(msg).data = <<msg.id, msg.size>>
         /\ <<msg.id, msg.size>> \in Seq(Words) /\ Len(<<msg.id, msg.size>>) = 2
<1>1. msg.id \in Words /\ msg.size \in Words
  BY DEF Messages
<1>2. /\ <<msg.id, msg.size>> \in Seq(Words) /\ Len(<<msg.id, msg.size>>) = 2
      /\ <<msg.id, msg.size>> # << >>
  BY <1>1
<1>3. Header(msg) = [kind |-> "header", data |-> <<msg.id, msg.size>>, done |-> 0]
  BY DEF Header, Data
<1> HIDE DEF Header
<1> QED
  BY <1>2, <1>3 DEF Operations, Kinds

LEMMA QueueSent ==
  ASSUME QueuesTyped, NEW e \in Ends, NEW msg \in Messages,
         m_qMessagesOut' = [m_qMessagesOut EXCEPT ![e] = Append(m_qMessagesOut[e], msg)],
         sent' = [sent EXCEPT ![e] = Append(sent[e], msg)],
         writing'[e]["message"].kind # "none",
         \A f \in Ends \ {e} : writing'[f] = writing[f]
  PROVE  QueuesTyped'
<1>1. m_qMessagesOut[e] \in Seq(Messages) /\ sent[e] \in Seq(Messages)
      /\ Outbox(m_qMessagesOut[e], sent[e])
  BY DEF QueuesTyped
<1>2. /\ Append(m_qMessagesOut[e], msg) \in Seq(Messages)
      /\ Append(sent[e], msg) \in Seq(Messages)
      /\ Append(m_qMessagesOut[e], msg) # << >>
  BY <1>1, AppendProperties, EmptySeq
<1>3. Outbox(Append(m_qMessagesOut[e], msg), Append(sent[e], msg))
  BY <1>1, OutboxSent
<1>4. ASSUME NEW f \in Ends
      PROVE  /\ m_qMessagesOut'[f] = << >> <=> writing'[f]["message"].kind = "none"
             /\ Outbox(m_qMessagesOut'[f], sent'[f])
  <2>1. CASE f = e
    <3>1. /\ m_qMessagesOut'[f] = Append(m_qMessagesOut[e], msg)
          /\ sent'[f] = Append(sent[e], msg)
      BY <2>1 DEF QueuesTyped
    <3> QED
      BY <1>2, <1>3, <2>1, <3>1
  <2>2. CASE f # e
    BY <2>2 DEF QueuesTyped
  <2> QED
    BY <2>1, <2>2
<1> QED
  BY <1>2, <1>4 DEF QueuesTyped

LEMMA SendTyped ==
  ASSUME WritesTyped, QueuesTyped, NEW e \in Ends, NEW msg \in Messages, Send(e, msg)
  PROVE  WritesTyped' /\ QueuesTyped'
<1>1. /\ m_qMessagesOut' = [m_qMessagesOut EXCEPT ![e] = Append(m_qMessagesOut[e], msg)]
      /\ sent' = [sent EXCEPT ![e] = Append(sent[e], msg)]
      /\ m_qMessagesOut[e] = << >> => Begin(e, "message", Header(msg)) /\ moved' = moved
      /\ m_qMessagesOut[e] # << >> => /\ writing' = writing /\ requests' = requests
                                      /\ moved' = moved /\ begun' = begun
  BY DEF Send, writes
<1>2. CASE m_qMessagesOut[e] = << >>
  <2>1. writing[e]["message"].kind = "none" /\ "message" \in Writes
    BY <1>2 DEF QueuesTyped, Writes
  <2>2. moved[e]["message"] = 0 /\ ~Asks(requests[e], "message")
    BY <2>1 DEF WritesTyped, WriteTrue, WriteIs
  <2>3. moved' = [moved EXCEPT ![e]["message"] = 0]
    BY <1>1, <1>2, <2>1, <2>2 DEF WritesTyped
  <2>4. Header(msg).kind \in KindsOf("message")
    BY HeaderTyped DEF KindsOf
  <2>5. WritesTyped'
    BY <1>1, <1>2, <2>1, <2>2, <2>3, <2>4, HeaderTyped, BeginTyped
  <2>6. writing'[e]["message"] = Header(msg) /\ \A f \in Ends \ {e} : writing'[f] = writing[f]
    BY <1>1, <1>2, <2>1 DEF Begin, WritesTyped
  <2>7. writing'[e]["message"].kind # "none"
    BY <2>6, HeaderTyped
  <2> QED
    BY <1>1, <2>5, <2>6, <2>7, QueueSent
<1>3. CASE m_qMessagesOut[e] # << >>
  <2>1. writing'[e]["message"].kind # "none"
    BY <1>1, <1>3 DEF QueuesTyped
  <2>2. WritesTyped'
    BY <1>1, <1>3 DEF WritesTyped, WriteTrue
  <2> QED
    BY <1>1, <1>3, <2>1, <2>2, QueueSent
<1> QED
  BY <1>2, <1>3

LEMMA PopTyped ==
  ASSUME WritesTyped, QueuesTyped, NEW e \in Ends, m_qMessagesOut[e] # << >>,
         ~Asks(requests[e], "message"), moved' = [moved EXCEPT ![e]["message"] = 0],
         sent' = sent, PopAndWriteNext(e)
  PROVE  WritesTyped' /\ QueuesTyped'
<1> DEFINE q == m_qMessagesOut[e]
<1>1. /\ m_qMessagesOut' = [m_qMessagesOut EXCEPT ![e] = Tail(q)]
      /\ Tail(q) # << >> => Begin(e, "message", Header(Head(Tail(q))))
      /\ Tail(q) = << >> => Finish(e, "message")
  BY DEF PopAndWriteNext
<1>2. q \in Seq(Messages) /\ Tail(q) \in Seq(Messages) /\ Outbox(q, sent[e])
      /\ "message" \in Writes /\ sent[e] \in Seq(Messages)
  BY HeadTailProperties DEF QueuesTyped, Writes
<1>3. Outbox(Tail(q), sent[e])
  BY <1>2, OutboxPopped
<1>4. /\ WritesTyped'
      /\ Tail(q) = << >> <=> writing'[e]["message"].kind = "none"
      /\ \A f \in Ends \ {e} : writing'[f] = writing[f]
  <2>1. CASE Tail(q) # << >>
    <3>1. Head(Tail(q)) \in Messages
      BY <1>2, <2>1, HeadTailProperties
    <3> DEFINE h == Header(Head(Tail(q)))
    <3>2. /\ h \in Operations /\ h.kind = "header" /\ h.data # << >> /\ h.done = 0
          /\ Begin(e, "message", h)
      BY <1>1, <2>1, <3>1, HeaderTyped
    <3> HIDE DEF h
    <3>3. h.kind \in KindsOf("message")
      BY <3>2 DEF KindsOf
    <3>4. WritesTyped'
      BY <1>2, <3>2, <3>3, BeginTyped
    <3>5. writing'[e]["message"] = h /\ \A f \in Ends \ {e} : writing'[f] = writing[f]
      BY <1>2, <3>2 DEF Begin, WritesTyped
    <3> QED
      BY <2>1, <3>2, <3>4, <3>5
  <2>2. CASE Tail(q) = << >>
    <3>1. WritesTyped'
      BY <1>1, <1>2, <2>2, FinishTyped
    <3>2. writing'[e]["message"] = Idle /\ \A f \in Ends \ {e} : writing'[f] = writing[f]
      BY <1>1, <1>2, <2>2 DEF Finish, WritesTyped
    <3> QED
      BY <2>2, <3>1, <3>2, IdleTyped
  <2> QED
    BY <2>1, <2>2
<1>5. ASSUME NEW f \in Ends
      PROVE  /\ m_qMessagesOut'[f] = << >> <=> writing'[f]["message"].kind = "none"
             /\ Outbox(m_qMessagesOut'[f], sent'[f])
  <2>1. CASE f = e
    <3>1. m_qMessagesOut'[f] = Tail(q) /\ sent'[f] = sent[e]
      BY <1>1, <2>1 DEF QueuesTyped
    <3> QED
      BY <1>3, <1>4, <2>1, <3>1
  <2>2. CASE f # e
    BY <1>1, <1>4, <2>2 DEF QueuesTyped
  <2> QED
    BY <2>1, <2>2
<1>6. m_qMessagesOut' \in [Ends -> Seq(Messages)] /\ sent' \in [Ends -> Seq(Messages)]
  BY <1>1, <1>2 DEF QueuesTyped
<1> QED
  BY <1>4, <1>5, <1>6 DEF QueuesTyped

LEMMA WrittenIs ==
  ASSUME WritesTyped, NEW e \in Ends, NEW w \in Writes, NEW k \in Kinds, k # "none",
         Written(e, w, k)
  PROVE  /\ e \in open /\ writing[e][w].kind = k /\ Left(writing[e][w], moved[e][w]) = 0
         /\ moved' = [moved EXCEPT ![e][w] = 0]
         /\ ~Asks(requests[e], w)
<1>1. /\ e \in open /\ writing[e][w].kind = k /\ Left(writing[e][w], moved[e][w]) = 0
      /\ moved[e][w] > 0 /\ moved' = [moved EXCEPT ![e][w] = 0]
  BY DEF Written, WriteSome, Unsent, Left
<1>2. ~Asks(requests[e], w)
  BY <1>1 DEF WritesTyped, WriteTrue, WriteIs
<1> QED
  BY <1>1, <1>2

(* The handler that ends the write of a header goes on to the body, or to  *)
(* the next message; the one that ends a body, to the next message.        *)
LEMMA MessageWritten ==
  ASSUME WritesTyped, QueuesTyped, NEW e \in Ends, WriteHeader(e) \/ WriteBody(e)
  PROVE  /\ m_qMessagesOut[e] # << >> /\ Head(m_qMessagesOut[e]) \in Messages
         /\ ~Asks(requests[e], "message") /\ moved' = [moved EXCEPT ![e]["message"] = 0]
         /\ Left(writing[e]["message"], moved[e]["message"]) = 0
         /\ writing[e]["message"].kind = "header" \/ writing[e]["message"].kind = "body"
         /\ sent' = sent
         /\ LET msg == Head(m_qMessagesOut[e])
            IN  IF writing[e]["message"].kind = "header" /\ msg.body # << >>
                THEN /\ Begin(e, "message", Data("body", msg.body))
                     /\ m_qMessagesOut' = m_qMessagesOut
                ELSE PopAndWriteNext(e)
<1>1. /\ "message" \in Writes /\ {"header", "body"} \subseteq Kinds
      /\ "header" # "none" /\ "body" # "none"
  BY DEF Writes, Kinds
<1>2. CASE WriteHeader(e)
  <2>1. Written(e, "message", "header") /\ sent' = sent
    BY <1>2 DEF WriteHeader, program
  <2>2. /\ Left(writing[e]["message"], moved[e]["message"]) = 0
        /\ moved' = [moved EXCEPT ![e]["message"] = 0] /\ ~Asks(requests[e], "message")
        /\ writing[e]["message"].kind = "header"
    BY <1>1, <2>1, WrittenIs
  <2>3. m_qMessagesOut[e] # << >> /\ Head(m_qMessagesOut[e]) \in Messages
    BY <2>2, HeadTailProperties DEF QueuesTyped
  <2>4. LET msg == Head(m_qMessagesOut[e])
        IN  IF msg.body # << >>
            THEN /\ Begin(e, "message", Data("body", msg.body))
                 /\ m_qMessagesOut' = m_qMessagesOut
            ELSE PopAndWriteNext(e)
    BY <1>2 DEF WriteHeader
  <2> QED
    BY <2>1, <2>2, <2>3, <2>4
<1>3. CASE WriteBody(e)
  <2>1. Written(e, "message", "body") /\ sent' = sent /\ PopAndWriteNext(e)
    BY <1>3 DEF WriteBody, program
  <2>2. /\ Left(writing[e]["message"], moved[e]["message"]) = 0
        /\ moved' = [moved EXCEPT ![e]["message"] = 0] /\ ~Asks(requests[e], "message")
        /\ writing[e]["message"].kind = "body"
    BY <1>1, <2>1, WrittenIs
  <2>3. m_qMessagesOut[e] # << >> /\ Head(m_qMessagesOut[e]) \in Messages
    BY <2>2, HeadTailProperties DEF QueuesTyped
  <2> QED
    BY <2>1, <2>2, <2>3
<1> QED
  BY <1>2, <1>3

LEMMA BodyTyped ==
  ASSUME NEW msg \in Messages, msg.body # << >>
  PROVE  LET b == Data("body", msg.body)
         IN  /\ b \in Operations /\ b.kind = "body" /\ b.data = msg.body /\ b.done = 0
             /\ b.data # << >>
BY DEF Data, Operations, Kinds, Messages

LEMMA WriteTyped ==
  ASSUME WritesTyped, QueuesTyped, NEW e \in Ends, WriteHeader(e) \/ WriteBody(e)
  PROVE  WritesTyped' /\ QueuesTyped'
<1> DEFINE msg == Head(m_qMessagesOut[e])
<1>1. /\ m_qMessagesOut[e] # << >> /\ msg \in Messages
      /\ ~Asks(requests[e], "message") /\ moved' = [moved EXCEPT ![e]["message"] = 0]
      /\ sent' = sent
      /\ IF writing[e]["message"].kind = "header" /\ msg.body # << >>
         THEN /\ Begin(e, "message", Data("body", msg.body))
              /\ m_qMessagesOut' = m_qMessagesOut
         ELSE PopAndWriteNext(e)
  BY MessageWritten
<1> HIDE DEF msg
<1>2. CASE writing[e]["message"].kind = "header" /\ msg.body # << >>
  <2> DEFINE b == Data("body", msg.body)
  <2>1. b \in Operations /\ b.kind = "body" /\ b.done = 0 /\ b.data # << >>
    BY <1>1, <1>2, BodyTyped
  <2>2. Begin(e, "message", b) /\ m_qMessagesOut' = m_qMessagesOut
    BY <1>1, <1>2
  <2> HIDE DEF b
  <2>3. b.kind \in KindsOf("message") /\ "message" \in Writes
    BY <2>1 DEF KindsOf, Writes
  <2>4. WritesTyped'
    BY <1>1, <2>1, <2>2, <2>3, BeginTyped
  <2>5. writing'[e]["message"] = b /\ \A f \in Ends \ {e} : writing'[f] = writing[f]
    BY <2>2, <2>3 DEF Begin, WritesTyped
  <2>6. writing'[e]["message"].kind # "none"
    BY <2>1, <2>5
  <2>7. \A f \in Ends : m_qMessagesOut'[f] = << >> <=> writing'[f]["message"].kind = "none"
    BY <1>1, <2>2, <2>5, <2>6 DEF QueuesTyped
  <2>8. QueuesTyped'
    BY <1>1, <2>2, <2>7 DEF QueuesTyped
  <2> QED
    BY <2>4, <2>8
<1>3. CASE ~(writing[e]["message"].kind = "header" /\ msg.body # << >>)
  BY <1>1, <1>3, PopTyped
<1> QED
  BY <1>2, <1>3
-----------------------------------------------------------------------------
(* Reads: no handler runs past the end of its buffer.                      *)
Reads == [kind : Kinds, size : Nat, got : Seq(Words)]

ReadIs(r) == /\ r.kind = "none" => r = Nothing
             /\ r.kind # "none" => Len(r.got) < r.size
             /\ r.kind \in {"validation", "header"} => r.size = 2

ReadsTyped ==
  /\ stream \in [Ends -> Seq(Words)]
  /\ reading \in [Ends -> Reads]
  /\ filled \in [Ends -> Seq(Seq(Words))]
  /\ m_qMessagesIn \in [Ends -> Seq(Messages)]
  /\ m_msgTemporaryIn \in [Ends -> Messages]
  /\ \A e \in Ends : ReadIs(reading[e])

LEMMA BufferTyped ==
  ASSUME NEW k \in Kinds, NEW n \in Nat
  PROVE  /\ Buffer(k, n) \in Reads /\ Buffer(k, n).kind = k /\ Buffer(k, n).size = n
         /\ Buffer(k, n).got = << >>
         /\ (k = "none" => n = 0) /\ (k # "none" => n > 0)
              /\ (k \in {"validation", "header"} => n = 2) => ReadIs(Buffer(k, n))
<1>1. /\ Buffer(k, n) = [kind |-> k, size |-> n, got |-> << >>] /\ << >> \in Seq(Words)
      /\ Len(<< >>) = 0
  BY DEF Buffer
<1>2. Buffer(k, n) \in Reads
  BY <1>1 DEF Reads
<1>3. n = 0 /\ k = "none" => Buffer(k, n) = Nothing
  BY DEF Nothing
<1> QED
  BY <1>1, <1>2, <1>3 DEF ReadIs

LEMMA PeerOf == \A e \in Ends : Peer(e) \in Ends /\ Peer(e) # e /\ Peer(Peer(e)) = e
                                /\ \A d \in Ends : d = e \/ d = Peer(e)
BY DEF Ends, Peer

(* What one handler of a read takes from the stream.                       *)
LEMMA TakenFromStream ==
  ASSUME ReadsTyped, NEW e \in Ends, NEW n \in 1 .. MaxTransfer, ReadSome(e, n)
  PROVE  /\ n \in Nat /\ n > 0 /\ n <= Len(stream[e])
         /\ Len(reading[e].got) + n <= reading[e].size
         /\ Got(e, n) \in Seq(Words) /\ Len(Got(e, n)) = Len(reading[e].got) + n
         /\ SubSeq(stream[e], n + 1, Len(stream[e])) \in Seq(Words)
         /\ stream' = [stream EXCEPT ![e] = SubSeq(stream[e], n + 1, Len(stream[e]))]
         /\ stream' \in [Ends -> Seq(Words)]
<1>1. /\ n \in Nat /\ n > 0 /\ n <= Len(stream[e])
      /\ n <= AtMost(reading[e].size - Len(reading[e].got))
      /\ stream' = [stream EXCEPT ![e] = SubSeq(stream[e], n + 1, Len(stream[e]))]
  BY WireAssumption DEF ReadSome
<1>2. /\ stream[e] \in Seq(Words) /\ reading[e] \in Reads
      /\ reading[e].got \in Seq(Words) /\ reading[e].size \in Nat
      /\ Len(reading[e].got) \in Nat /\ Len(stream[e]) \in Nat
  BY LenProperties DEF ReadsTyped, Reads
<1>3. Len(reading[e].got) + n <= reading[e].size
  BY <1>1, <1>2, WireAssumption DEF AtMost
<1>4. \A i \in 1 .. Len(stream[e]) : stream[e][i] \in Words
  BY <1>2, ElementOfSeq
<1>5. SubSeq(stream[e], 1, n) \in Seq(Words) /\ Len(SubSeq(stream[e], 1, n)) = n
  <2>1. 1 \in Int /\ n \in Int /\ \A i \in 1 .. n : stream[e][i] \in Words
    BY <1>1, <1>2, <1>4
  <2>2. /\ SubSeq(stream[e], 1, n) \in Seq(Words)
        /\ Len(SubSeq(stream[e], 1, n)) = IF 1 <= n THEN n - 1 + 1 ELSE 0
    BY <2>1, SubSeqProperties
  <2> QED
    BY <1>1, <2>2
<1>6. SubSeq(stream[e], n + 1, Len(stream[e])) \in Seq(Words)
  <2>1. n + 1 \in Int /\ Len(stream[e]) \in Int
        /\ \A i \in n + 1 .. Len(stream[e]) : stream[e][i] \in Words
    BY <1>1, <1>2, <1>4
  <2> QED
    BY <2>1, SubSeqProperties
<1>7. Got(e, n) \in Seq(Words) /\ Len(Got(e, n)) = Len(reading[e].got) + n
  BY <1>2, <1>5, ConcatProperties DEF Got
<1> QED
  BY <1>1, <1>3, <1>6, <1>7 DEF ReadsTyped

LEMMA FilledIs ==
  ASSUME ReadsTyped, NEW e \in Ends, NEW k \in Kinds, NEW n \in 1 .. MaxTransfer,
         Filled(e, k, n)
  PROVE  /\ e \in open /\ reading[e].kind = k /\ ReadSome(e, n)
         /\ Got(e, n) \in Seq(Words) /\ Len(Got(e, n)) = reading[e].size
         /\ stream' \in [Ends -> Seq(Words)]
         /\ filled' = [filled EXCEPT ![e] = Append(filled[e], Got(e, n))]
         /\ filled' \in [Ends -> Seq(Seq(Words))]
         /\ Len(filled'[e]) = Len(filled[e]) + 1
<1>1. /\ reading[e].kind = k /\ ReadSome(e, n) /\ Len(Got(e, n)) = reading[e].size
      /\ filled' = [filled EXCEPT ![e] = Append(filled[e], Got(e, n))]
  BY DEF Filled
<1>2. Got(e, n) \in Seq(Words) /\ stream' \in [Ends -> Seq(Words)]
  BY <1>1, TakenFromStream
<1>3. /\ Append(filled[e], Got(e, n)) \in Seq(Seq(Words))
      /\ Len(Append(filled[e], Got(e, n))) = Len(filled[e]) + 1
  BY <1>2, AppendProperties DEF ReadsTyped
<1>4. e \in open
  BY <1>1 DEF ReadSome
<1> QED
  BY <1>1, <1>2, <1>3, <1>4 DEF ReadsTyped

LEMMA MessageChanged ==
  ASSUME NEW old \in Messages, NEW i \in Words, NEW n \in Words, NEW b \in Seq(Words)
  PROVE  /\ [old EXCEPT !.id = i, !.size = n] = [id |-> i, size |-> n, body |-> old.body]
         /\ [old EXCEPT !.body = b] = [id |-> old.id, size |-> old.size, body |-> b]
<1>1. \A x \in Messages : x = [id |-> x.id, size |-> x.size, body |-> x.body]
  BY DEF Messages
<1> DEFINE x == [old EXCEPT !.id = i, !.size = n]
           y == [old EXCEPT !.body = b]
<1>2. x \in Messages /\ x.id = i /\ x.size = n /\ x.body = old.body
  BY DEF Messages
<1>3. y \in Messages /\ y.id = old.id /\ y.size = old.size /\ y.body = b
  BY DEF Messages
<1> HIDE DEF x, y
<1>4. x = [id |-> i, size |-> n, body |-> old.body]
  BY <1>1, <1>2
<1>5. y = [id |-> old.id, size |-> old.size, body |-> b]
  BY <1>1, <1>3
<1> QED
  BY <1>4, <1>5 DEF x, y

(* The handlers of ReadHeader and ReadBody.                                *)
LEMMA ReadHeaderIs ==
  ASSUME ReadsTyped, NEW e \in Ends, ReadHeader(e)
  PROVE  \E n \in 1 .. MaxTransfer, id \in Words, size \in Words :
           LET old == m_msgTemporaryIn[e]
               msg == [id |-> id, size |-> size, body |-> old.body]
               kept == [id |-> id, size |-> size, body |-> Resized(old.body, size)]
           IN  /\ Filled(e, "header", n)
               /\ id = Got(e, n)[1] /\ size = Got(e, n)[2]
               /\ msg \in Messages
               /\ size > 0 => /\ m_msgTemporaryIn' = [m_msgTemporaryIn EXCEPT ![e] = kept]
                              /\ reading' = [reading EXCEPT ![e] = Buffer("body", size)]
                              /\ m_qMessagesIn' = m_qMessagesIn
                              /\ kept \in Messages
               /\ ~(size > 0) =>
                    /\ m_msgTemporaryIn' = [m_msgTemporaryIn EXCEPT ![e] = msg]
                    /\ reading' = [reading EXCEPT ![e] = Buffer("header", 2)]
                    /\ m_qMessagesIn' = [m_qMessagesIn EXCEPT ![e] =
                                           Append(m_qMessagesIn[e], msg)]
<1> DEFINE old == m_msgTemporaryIn[e]
<1>1. PICK n \in 1 .. MaxTransfer :
        /\ Filled(e, "header", n)
        /\ LET id == Got(e, n)[1]
               size == Got(e, n)[2]
               msg == [old EXCEPT !.id = id, !.size = size]
           IN IF size > 0
              THEN /\ m_msgTemporaryIn' = [m_msgTemporaryIn EXCEPT ![e] =
                        [msg EXCEPT !.body = Resized(@, size)]]
                   /\ StartRead(e, "body", size)
                   /\ UNCHANGED m_qMessagesIn
              ELSE /\ m_msgTemporaryIn' = [m_msgTemporaryIn EXCEPT ![e] = msg]
                   /\ AddToIncomingMessageQueue(e, msg)
  BY DEF ReadHeader
<1> DEFINE id == Got(e, n)[1]
           size == Got(e, n)[2]
           msg == [id |-> id, size |-> size, body |-> old.body]
           kept == [id |-> id, size |-> size, body |-> Resized(old.body, size)]
<1>2. /\ reading[e].kind = "header" /\ Got(e, n) \in Seq(Words)
      /\ Len(Got(e, n)) = reading[e].size
  BY <1>1, FilledIs DEF Kinds
<1>3. reading[e].size = 2
  BY <1>2 DEF ReadsTyped, ReadIs
<1>4. id \in Words /\ size \in Words
  BY <1>2, <1>3, ElementOfSeq, SMTT(60)
<1>5. old \in Messages /\ old.body \in Seq(Words)
  BY DEF ReadsTyped, Messages
<1>6. Resized(old.body, size) \in Seq(Words)
  <2>1. size \in Nat /\ 0 \in Words
    BY <1>4, WordSizes DEF Words
  <2>2. \A i \in 1 .. size : i <= Len(old.body) => old.body[i] \in Words
    BY <1>5, <2>1, ElementOfSeq, LenProperties
  <2>3. Resized(old.body, size) \in [1 .. size -> Words]
    BY <2>1, <2>2 DEF Resized
  <2> QED
    BY <2>1, <2>3, WordsOf
<1>7. msg \in Messages /\ kept \in Messages /\ msg.body = old.body
  BY <1>4, <1>5, <1>6 DEF Messages
<1>8. /\ [old EXCEPT !.id = id, !.size = size] = msg
      /\ [msg EXCEPT !.body = Resized(old.body, size)] = kept
  <2>1. [old EXCEPT !.id = id, !.size = size] = msg
    BY <1>4, <1>5, <1>6, MessageChanged
  <2>2. \A b \in Seq(Words) :
          [msg EXCEPT !.body = b] = [id |-> msg.id, size |-> msg.size, body |-> b]
    BY <1>4, <1>7, MessageChanged
  <2> QED
    BY <1>6, <2>1, <2>2
<1> HIDE DEF id, size, old
<1>9. CASE size > 0
  <2>1. /\ m_msgTemporaryIn' = [m_msgTemporaryIn EXCEPT ![e] =
              [[old EXCEPT !.id = id, !.size = size] EXCEPT !.body = Resized(@, size)]]
        /\ StartRead(e, "body", size) /\ m_qMessagesIn' = m_qMessagesIn
    BY <1>1, <1>9 DEF id, size, old
  <2>2. [[old EXCEPT !.id = id, !.size = size] EXCEPT !.body = Resized(@, size)] = kept
    BY <1>7, <1>8
  <2>3. reading' = [reading EXCEPT ![e] = Buffer("body", size)]
    BY <2>1 DEF StartRead
  <2>4. m_msgTemporaryIn' = [m_msgTemporaryIn EXCEPT ![e] = kept]
    BY <2>1, <2>2
  <2> QED
    BY <1>1, <1>4, <1>7, <1>8, <1>9, <2>1, <2>3, <2>4 DEF id, size, old
<1>10. CASE ~(size > 0)
  <2>1. /\ m_msgTemporaryIn' = [m_msgTemporaryIn EXCEPT ![e] =
              [old EXCEPT !.id = id, !.size = size]]
        /\ AddToIncomingMessageQueue(e, [old EXCEPT !.id = id, !.size = size])
    BY <1>1, <1>10 DEF id, size, old
  <2>2. /\ m_msgTemporaryIn' = [m_msgTemporaryIn EXCEPT ![e] = msg]
        /\ AddToIncomingMessageQueue(e, msg)
    BY <1>8, <2>1
  <2>3. /\ reading' = [reading EXCEPT ![e] = Buffer("header", 2)]
        /\ m_qMessagesIn' = [m_qMessagesIn EXCEPT ![e] = Append(m_qMessagesIn[e], msg)]
    BY <2>2 DEF AddToIncomingMessageQueue, StartRead, HeaderSize
  <2> QED
    BY <1>1, <1>4, <1>7, <1>10, <2>2, <2>3 DEF id, size, old
<1> QED
  BY <1>9, <1>10

LEMMA ReadBodyIs ==
  ASSUME ReadsTyped, NEW e \in Ends, ReadBody(e)
  PROVE  \E n \in 1 .. MaxTransfer :
           LET old == m_msgTemporaryIn[e]
               msg == [id |-> old.id, size |-> old.size, body |-> Got(e, n)]
           IN  /\ Filled(e, "body", n)
               /\ msg \in Messages
               /\ m_msgTemporaryIn' = [m_msgTemporaryIn EXCEPT ![e] = msg]
               /\ reading' = [reading EXCEPT ![e] = Buffer("header", 2)]
               /\ m_qMessagesIn' = [m_qMessagesIn EXCEPT ![e] =
                                      Append(m_qMessagesIn[e], msg)]
<1> DEFINE old == m_msgTemporaryIn[e]
<1>1. PICK n \in 1 .. MaxTransfer :
        /\ Filled(e, "body", n)
        /\ m_msgTemporaryIn' = [m_msgTemporaryIn EXCEPT ![e] = [old EXCEPT !.body = Got(e, n)]]
        /\ AddToIncomingMessageQueue(e, [old EXCEPT !.body = Got(e, n)])
  BY DEF ReadBody
<1> DEFINE msg == [id |-> old.id, size |-> old.size, body |-> Got(e, n)]
<1>2. Got(e, n) \in Seq(Words)
  BY <1>1, FilledIs DEF Kinds
<1>3. old \in Messages
  BY DEF ReadsTyped
<1>4. [old EXCEPT !.body = Got(e, n)] = msg /\ msg \in Messages
  <2>1. old.id \in Words /\ old.size \in Words
    BY <1>3 DEF Messages
  <2>2. msg \in Messages
    BY <1>2, <2>1 DEF Messages
  <2> QED
    BY <1>2, <1>3, <2>1, <2>2, MessageChanged
<1>5. /\ m_msgTemporaryIn' = [m_msgTemporaryIn EXCEPT ![e] = msg]
      /\ AddToIncomingMessageQueue(e, msg)
  BY <1>1, <1>4
<1>6. /\ reading' = [reading EXCEPT ![e] = Buffer("header", 2)]
      /\ m_qMessagesIn' = [m_qMessagesIn EXCEPT ![e] = Append(m_qMessagesIn[e], msg)]
  BY <1>5 DEF AddToIncomingMessageQueue, StartRead, HeaderSize
<1> QED
  BY <1>1, <1>4, <1>5, <1>6
-----------------------------------------------------------------------------
(* The order of the handshake, whatever the stream has in it.              *)
Handshake ==
  /\ reading["client"].kind = "validation" => /\ writing["client"]["validation"].kind = "none"
                                              /\ filled["client"] = << >>
                                              /\ m_qMessagesIn["client"] = << >>
  /\ reading["client"].kind = "none" => /\ Len(filled["client"]) = 1
                                        /\ m_qMessagesIn["client"] = << >>
  /\ writing["client"]["validation"].kind # "none" => reading["client"].kind = "none"
  /\ reading["server"].kind = "validation" => /\ filled["server"] = << >>
                                              /\ m_qMessagesIn["server"] = << >>
  /\ reading["server"].kind = "none" => /\ Len(filled["server"]) <= 1
                                        /\ m_qMessagesIn["server"] = << >>
  /\ begun["server"] = << >> => /\ reading["server"].kind = "none"
                                /\ filled["server"] = << >>
  /\ \A e \in Ends : begun[e] = << >> => sent[e] = << >>

ProgramTyped ==
  /\ open \subseteq Ends /\ broken \in BOOLEAN /\ mixed \subseteq Ends
  /\ handled \in Nat /\ greetings \in 0 .. MaxGreetings

Typed == WritesTyped /\ QueuesTyped /\ ReadsTyped /\ Handshake /\ ProgramTyped

LEMMA TypedIsTypeOK == Typed => TypeOK
<1> SUFFICES ASSUME Typed PROVE TypeOK
  OBVIOUS
<1>1. \A e \in Ends : Len(reading[e].got) <= reading[e].size
  <2> SUFFICES ASSUME NEW e \in Ends PROVE Len(reading[e].got) <= reading[e].size
    OBVIOUS
  <2>1. reading[e] \in Reads /\ ReadIs(reading[e])
    BY DEF Typed, ReadsTyped
  <2>2. Len(reading[e].got) \in Nat /\ reading[e].size \in Nat
    BY <2>1, LenProperties DEF Reads
  <2>3. Len(Nothing.got) <= Nothing.size
    BY DEF Nothing, Buffer
  <2> QED
    BY <2>1, <2>2, <2>3 DEF ReadIs
<1>2. \A e \in Ends, w \in Writes : Unsent(e, w) >= 0
  BY DEF Typed, WritesTyped, WriteTrue, WriteIs, Unsent, Left
<1>3. Orders \subseteq Seq(Writes)
  BY DEF Orders, Writes
<1>4. requests \in [Ends -> Seq(Writes)]
  BY <1>3 DEF Typed, WritesTyped
<1>5. /\ writing \in [Ends -> [Writes -> Operations]] /\ moved \in [Ends -> [Writes -> Nat]]
      /\ begun \in [Ends -> Seq(Seq(Words))]
  BY DEF Typed, WritesTyped
<1>6. /\ stream \in [Ends -> Seq(Words)] /\ reading \in [Ends -> Reads]
      /\ m_qMessagesIn \in [Ends -> Seq(Messages)]
      /\ m_msgTemporaryIn \in [Ends -> Messages]
      /\ filled \in [Ends -> Seq(Seq(Words))]
  BY DEF Typed, ReadsTyped
<1>7. m_qMessagesOut \in [Ends -> Seq(Messages)] /\ sent \in [Ends -> Seq(Messages)]
  BY DEF Typed, QueuesTyped
<1>8. /\ open \subseteq Ends /\ broken \in BOOLEAN /\ mixed \subseteq Ends
      /\ handled \in Nat /\ greetings \in 0 .. MaxGreetings
  BY DEF Typed, ProgramTyped
<1>9. /\ writing \in [Ends -> [Writes -> [kind : {"none", "validation", "header", "body"},
                                          data : Seq(Words), done : Nat]]]
      /\ reading \in [Ends -> [kind : {"none", "validation", "header", "body"},
                               size : Nat, got : Seq(Words)]]
  BY <1>5, <1>6 DEF Operations, Reads, Kinds
<1> QED
  BY <1>1, <1>2, <1>4, <1>5, <1>6, <1>7, <1>8, <1>9 DEF TypeOK
-----------------------------------------------------------------------------
LEMMA InitTyped == Init => Typed
<1> SUFFICES ASSUME Init PROVE Typed
  OBVIOUS
<1> USE DEF Init
<1>1. << >> \in Orders /\ \A w : ~Asks(<< >>, w)
  BY DEF Orders, Asks
<1>2. Left(Idle, 0) = 0
  BY DEF Left, Idle
<1>3. \A w \in Writes : WriteIs(w, Idle, 0, << >>, << >>)
  BY <1>1, <1>2, IdleTyped DEF WriteIs
<1>4. WritesTyped
  BY <1>1, <1>3, IdleTyped DEF WritesTyped, WriteTrue
<1>5. QueuesTyped
  <2>1. \A e \in Ends : writing[e]["message"].kind = "none"
    BY IdleTyped DEF Writes
  <2>2. Outbox(<< >>, << >>)
    BY DEF Outbox
  <2> QED
    BY <2>1, <2>2 DEF QueuesTyped
<1>6. /\ Buffer("validation", ValidationSize) \in Reads
      /\ ReadIs(Buffer("validation", ValidationSize))
      /\ Buffer("validation", ValidationSize).kind = "validation"
      /\ Nothing \in Reads /\ ReadIs(Nothing) /\ Nothing.kind = "none"
  <2>1. "validation" \in Kinds /\ "none" \in Kinds /\ ValidationSize = 2
    BY DEF Kinds, ValidationSize
  <2>2. ValidationSize \in Nat /\ ValidationSize > 0 /\ 0 \in Nat
    BY <2>1
  <2> QED
    BY <2>1, <2>2, BufferTyped DEF Nothing
<1>7. Message(0) \in Messages
  BY MessageMade DEF ServerAccept
<1>8. /\ reading["client"] = Buffer("validation", ValidationSize)
      /\ reading["server"] = Nothing
      /\ reading \in [Ends -> Reads] /\ \A e \in Ends : ReadIs(reading[e])
  BY <1>6 DEF Ends
<1>9. ReadsTyped
  BY <1>7, <1>8 DEF ReadsTyped
<1>10. Handshake
  <2>1. "client" \in Ends /\ "server" \in Ends /\ "validation" \in Writes
    BY DEF Ends, Writes
  <2>2. Len(<< >>) = 0
    OBVIOUS
  <2> QED
    BY <1>6, <1>8, <2>1, <2>2, IdleTyped DEF Handshake
<1>11. ProgramTyped
  <2>1. MaxGreetings \in Nat
    BY WireAssumption
  <2>2. greetings \in 0 .. MaxGreetings /\ handled \in Nat
    BY <2>1
  <2>3. open \subseteq Ends /\ mixed \subseteq Ends /\ broken \in BOOLEAN
    OBVIOUS
  <2> QED
    BY <2>2, <2>3 DEF ProgramTyped
<1> QED
  BY <1>4, <1>5, <1>9, <1>10, <1>11 DEF Typed

LEMMA TransferKeeps ==
  ASSUME Typed, NEW e \in Ends, Transfer(e)
  PROVE  Typed'
<1>1. /\ open' = open /\ broken' = broken /\ reading' = reading /\ filled' = filled
      /\ m_qMessagesOut' = m_qMessagesOut /\ m_qMessagesIn' = m_qMessagesIn
      /\ m_msgTemporaryIn' = m_msgTemporaryIn /\ handled' = handled
      /\ greetings' = greetings /\ sent' = sent /\ writing' = writing /\ begun' = begun
  BY DEF Transfer, transport, inputs, program
<1>2. WritesTyped'
  BY TransferTyped DEF Typed
<1>3. PICK w \in Writes, n \in Nat :
        /\ n > 0 /\ n <= Left(writing[e][w], 0)
        /\ stream' = [stream EXCEPT ![Peer(e)] = stream[Peer(e)]
             \o SubSeq(writing[e][w].data, writing[e][w].done + 1, writing[e][w].done + n)]
        /\ mixed' = mixed \cup {y \in {e} : \E o \in Writes \ {w} : HalfSent(e, o)}
  BY TransferIs DEF Typed
<1>4. stream' \in [Ends -> Seq(Words)]
  <2> DEFINE x == writing[e][w]
  <2>1. x.data \in Seq(Words) /\ x.done \in Nat
    BY DEF Typed, WritesTyped, Operations
  <2>2. n <= Len(x.data) - x.done /\ Len(x.data) \in Nat
    BY <1>3, <2>1, LenProperties DEF Left
  <2> HIDE DEF x
  <2>3. \A i \in x.done + 1 .. x.done + n : x.data[i] \in Words
    BY <2>1, <2>2, ElementOfSeq
  <2>4. SubSeq(x.data, x.done + 1, x.done + n) \in Seq(Words)
    <3>1. x.done + 1 \in Int /\ x.done + n \in Int
      BY <2>1
    <3> QED
      BY <2>3, <3>1, SubSeqProperties
  <2>5. stream[Peer(e)] \o SubSeq(x.data, x.done + 1, x.done + n) \in Seq(Words)
    BY <2>4, PeerOf, ConcatProperties DEF Typed, ReadsTyped
  <2> QED
    BY <1>3, <2>5 DEF x, Typed, ReadsTyped
<1>5. QueuesTyped' /\ ReadsTyped'
  BY <1>1, <1>4 DEF Typed, QueuesTyped, ReadsTyped
<1>6. Handshake'
  BY <1>1 DEF Typed, Handshake
<1>7. ProgramTyped'
  BY <1>1, <1>3 DEF Typed, ProgramTyped
<1> QED
  BY <1>2, <1>5, <1>6, <1>7 DEF Typed

LEMMA WriteContinuesKeeps ==
  ASSUME Typed, NEW e \in Ends, NEW w \in Writes, WriteContinues(e, w)
  PROVE  Typed'
<1>1. /\ UNCHANGED <<open, broken, stream, reading, filled, begun, m_qMessagesOut,
                     m_qMessagesIn, m_msgTemporaryIn, handled, greetings, sent, mixed>>
  BY DEF WriteContinues, transport, inputs, program
<1>2. WritesTyped'
  BY ContinueTyped DEF Typed
<1>3. \A f \in Ends, x \in Writes : writing'[f][x].kind = writing[f][x].kind
  BY DEF WriteContinues, Typed, WritesTyped, Operations
<1>4. "message" \in Writes /\ "validation" \in Writes /\ "client" \in Ends
  BY DEF Writes, Ends
<1>5. QueuesTyped' /\ ReadsTyped' /\ ProgramTyped'
  BY <1>1, <1>3, <1>4 DEF Typed, QueuesTyped, ReadsTyped, ProgramTyped
<1>6. Handshake'
  BY <1>1, <1>3, <1>4 DEF Typed, Handshake
<1> QED
  BY <1>2, <1>5, <1>6 DEF Typed

LEMMA ReadContinuesKeeps ==
  ASSUME Typed, NEW e \in Ends, ReadContinues(e)
  PROVE  Typed'
<1>1. PICK n \in 1 .. MaxTransfer : /\ ReadSome(e, n)
                                   /\ Len(Got(e, n)) < reading[e].size
                                   /\ reading' = [reading EXCEPT ![e].got = Got(e, n)]
  BY DEF ReadContinues
<1>2. /\ UNCHANGED <<open, broken, filled, writing, requests, moved, begun, m_qMessagesOut,
                     m_qMessagesIn, m_msgTemporaryIn, handled, greetings, sent, mixed>>
  BY DEF ReadContinues, transport, writes, program
<1>3. Got(e, n) \in Seq(Words) /\ stream' \in [Ends -> Seq(Words)]
  BY <1>1, TakenFromStream DEF Typed
<1>4. reading[e] \in Reads /\ ReadIs(reading[e])
  BY DEF Typed, ReadsTyped
<1>5. /\ reading' \in [Ends -> Reads]
      /\ reading'[e].kind = reading[e].kind /\ reading'[e].size = reading[e].size
      /\ reading'[e].got = Got(e, n)
      /\ \A f \in Ends : reading'[f].kind = reading[f].kind
      /\ \A f \in Ends \ {e} : reading'[f] = reading[f]
  BY <1>1, <1>3, <1>4 DEF Typed, ReadsTyped, Reads
<1>6. reading[e].kind # "none"
  <2>1. Nothing.size = 0 /\ Len(Got(e, n)) \in Nat
    BY <1>3, LenProperties DEF Nothing, Buffer
  <2> QED
    BY <1>1, <1>4, <2>1 DEF ReadIs
<1>7. ReadIs(reading'[e])
  BY <1>1, <1>4, <1>5, <1>6 DEF ReadIs
<1>8. ReadsTyped'
  BY <1>2, <1>3, <1>5, <1>7 DEF Typed, ReadsTyped
<1>9. Handshake'
  BY <1>2, <1>5 DEF Typed, Handshake, Ends
<1>10. WritesTyped' /\ QueuesTyped' /\ ProgramTyped'
  BY <1>2 DEF Typed, WritesTyped, WriteTrue, QueuesTyped, ProgramTyped
<1> QED
  BY <1>8, <1>9, <1>10 DEF Typed

LEMMA OperationFailsKeeps ==
  ASSUME Typed, NEW e \in Ends, OperationFails(e)
  PROVE  Typed'
<1>1. /\ open' = open \ {e}
      /\ UNCHANGED <<broken, stream, reading, filled, writing, requests, moved, begun,
                     m_qMessagesOut, m_qMessagesIn, m_msgTemporaryIn, handled, greetings,
                     sent, mixed>>
  BY DEF OperationFails, inputs, writes, program
<1> QED
  BY <1>1 DEF Typed, WritesTyped, WriteTrue, QueuesTyped, ReadsTyped, Handshake, ProgramTyped

LEMMA BreakKeeps ==
  ASSUME Typed, Break
  PROVE  Typed'
<1>1. /\ broken' = TRUE
      /\ UNCHANGED <<open, stream, reading, filled, writing, requests, moved, begun,
                     m_qMessagesOut, m_qMessagesIn, m_msgTemporaryIn, handled, greetings,
                     sent, mixed>>
  BY DEF Break, inputs, writes, program
<1>2. WritesTyped' /\ QueuesTyped' /\ ReadsTyped' /\ Handshake'
  BY <1>1 DEF Typed, WritesTyped, WriteTrue, QueuesTyped, ReadsTyped, Handshake
<1>3. ProgramTyped'
  BY <1>1 DEF Typed, ProgramTyped
<1> QED
  BY <1>2, <1>3 DEF Typed

LEMMA ConnectKeeps ==
  ASSUME Typed, ConnectToClient
  PROVE  Typed'
<1> DEFINE d == Data("validation", Challenge)
<1>1. /\ begun["server"] = << >> /\ Begin("server", "validation", d)
      /\ reading' = [reading EXCEPT !["server"] = Buffer("validation", 2)]
      /\ UNCHANGED <<open, broken, stream, filled, moved, m_qMessagesOut,
                     m_qMessagesIn, m_msgTemporaryIn, handled, greetings, sent, mixed>>
  BY DEF ConnectToClient, StartRead, ValidationSize, transport, program
<1>2. "server" \in Ends /\ "client" \in Ends /\ "validation" \in Writes /\ "message" \in Writes
      /\ "client" # "server" /\ "message" # "validation"
  BY DEF Ends, Writes
<1>3. d \in Operations /\ d.kind \in KindsOf("validation") /\ d.data # << >> /\ d.done = 0
  BY ConstantsTyped DEF Data, Operations, Kinds, KindsOf
<1> HIDE DEF d
<1>4. /\ writing["server"]["validation"].kind = "none"
      /\ moved["server"]["validation"] = 0 /\ ~Asks(requests["server"], "validation")
  BY <1>1, <1>2 DEF Typed, WritesTyped, WriteTrue, WriteIs
<1>5. moved' = [moved EXCEPT !["server"]["validation"] = 0]
  BY <1>1, <1>2, <1>4 DEF Typed, WritesTyped
<1>6. WritesTyped'
  BY <1>1, <1>2, <1>3, <1>4, <1>5, BeginTyped DEF Typed
<1>7. /\ \A f \in Ends : writing'[f]["message"] = writing[f]["message"]
      /\ writing'["client"] = writing["client"]
  BY <1>1, <1>2 DEF Begin, Typed, WritesTyped
<1>8. QueuesTyped'
  BY <1>1, <1>7 DEF Typed, QueuesTyped
<1>9. /\ Buffer("validation", 2) \in Reads /\ ReadIs(Buffer("validation", 2))
      /\ Buffer("validation", 2).kind = "validation"
  BY BufferTyped DEF Kinds
<1>10. ReadsTyped'
  BY <1>1, <1>2, <1>9 DEF Typed, ReadsTyped
<1>11. /\ reading'["client"] = reading["client"]
       /\ reading'["server"].kind = "validation"
       /\ reading["server"].kind = "none" /\ filled["server"] = << >>
       /\ m_qMessagesIn["server"] = << >>
  BY <1>1, <1>2, <1>9 DEF Typed, ReadsTyped, Handshake
<1>12. begun'["client"] = begun["client"] /\ begun'["server"] # << >>
  <2>1. begun["server"] \in Seq(Seq(Words)) /\ d.data \in Seq(Words)
    BY <1>2, <1>3 DEF Typed, WritesTyped, Operations
  <2>2. Append(begun["server"], d.data) # << >>
    BY <2>1, AppendProperties, EmptySeq
  <2> QED
    BY <1>1, <1>2, <2>2 DEF Begin, Typed, WritesTyped
<1>13. \A e \in Ends : begun'[e] = << >> => sent[e] = << >>
  BY <1>12 DEF Typed, Handshake, Ends
<1>14. Handshake'
  BY <1>1, <1>7, <1>11, <1>12, <1>13 DEF Typed, Handshake
<1>15. ProgramTyped'
  BY <1>1 DEF Typed, ProgramTyped
<1> QED
  BY <1>6, <1>8, <1>10, <1>14, <1>15 DEF Typed

LEMMA ValidationWrittenKeeps ==
  ASSUME Typed, NEW e \in Ends, ValidationWritten(e)
  PROVE  Typed'
<1>1. /\ Written(e, "validation", "validation") /\ Finish(e, "validation")
      /\ e = "client" => reading' = [reading EXCEPT ![e] = Buffer("header", 2)]
      /\ e # "client" => reading' = reading
      /\ UNCHANGED <<open, broken, stream, filled, m_qMessagesOut,
                     m_qMessagesIn, m_msgTemporaryIn, handled, greetings, sent, mixed>>
  BY DEF ValidationWritten, StartRead, HeaderSize, transport, program
<1>2. "server" \in Ends /\ "client" \in Ends /\ "validation" \in Writes /\ "message" \in Writes
      /\ "client" # "server" /\ "message" # "validation" /\ "validation" \in Kinds
      /\ "validation" # "none"
  BY DEF Ends, Writes, Kinds
<1>3. /\ writing[e]["validation"].kind = "validation"
      /\ moved' = [moved EXCEPT ![e]["validation"] = 0]
      /\ ~Asks(requests[e], "validation")
  BY <1>1, <1>2, WrittenIs DEF Typed
<1>4. WritesTyped'
  BY <1>1, <1>2, <1>3, FinishTyped DEF Typed
<1>5. /\ \A f \in Ends : writing'[f]["message"] = writing[f]["message"]
      /\ \A f \in Ends \ {e} : writing'[f] = writing[f]
      /\ writing'[e]["validation"].kind = "none"
      /\ begun' = begun
  BY <1>1, <1>2, IdleTyped DEF Finish, Typed, WritesTyped
<1>6. QueuesTyped'
  BY <1>1, <1>5 DEF Typed, QueuesTyped
<1>7. /\ Buffer("header", 2) \in Reads /\ ReadIs(Buffer("header", 2))
      /\ Buffer("header", 2).kind = "header"
  BY BufferTyped DEF Kinds
<1>8. ReadsTyped'
  BY <1>1, <1>7 DEF Typed, ReadsTyped
<1>9. Handshake'
  <2>1. CASE e = "client"
    <3>1. reading'["client"].kind = "header" /\ reading'["server"] = reading["server"]
      BY <1>1, <1>2, <1>7, <2>1 DEF Typed, ReadsTyped
    <3> QED
      BY <1>1, <1>2, <1>5, <2>1, <3>1 DEF Typed, Handshake
  <2>2. CASE e # "client"
    BY <1>1, <1>2, <1>5, <2>2 DEF Typed, Handshake
  <2> QED
    BY <2>1, <2>2
<1>10. ProgramTyped'
  BY <1>1 DEF Typed, ProgramTyped
<1> QED
  BY <1>4, <1>6, <1>8, <1>9, <1>10 DEF Typed

LEMMA AnswerReadIs ==
  ASSUME Typed, AnswerRead
  PROVE  \E n \in 1 .. MaxTransfer :
           /\ Filled("server", "validation", n)
           /\ \/ /\ Got("server", n) = Answer
                 /\ reading' = [reading EXCEPT !["server"] = Buffer("header", 2)]
                 /\ open' = open /\ broken' = broken
              \/ /\ Got("server", n) # Answer
                 /\ reading' = [reading EXCEPT !["server"] = Nothing]
                 /\ open' = open \ {"server"} /\ broken' = TRUE
BY DEF AnswerRead, StartRead, ReadNothing, HeaderSize, transport

LEMMA AnswerReadKeeps ==
  ASSUME Typed, AnswerRead
  PROVE  Typed'
<1>1. PICK n \in 1 .. MaxTransfer :
        /\ Filled("server", "validation", n)
        /\ \/ /\ reading' = [reading EXCEPT !["server"] = Buffer("header", 2)]
              /\ open' = open /\ broken' = broken
           \/ /\ reading' = [reading EXCEPT !["server"] = Nothing]
              /\ open' = open \ {"server"} /\ broken' = TRUE
  BY AnswerReadIs
<1>2. UNCHANGED <<writing, requests, moved, begun, m_qMessagesOut, m_qMessagesIn,
                  m_msgTemporaryIn, handled, greetings, sent, mixed>>
  BY DEF AnswerRead, writes, program
<1>3. "server" \in Ends /\ "client" \in Ends /\ "client" # "server"
      /\ "validation" \in Kinds /\ "none" \in Kinds /\ "header" \in Kinds
  BY DEF Ends, Kinds
<1>4. /\ reading["server"].kind = "validation"
      /\ stream' \in [Ends -> Seq(Words)]
      /\ filled' = [filled EXCEPT !["server"] = Append(filled["server"], Got("server", n))]
      /\ filled' \in [Ends -> Seq(Seq(Words))]
      /\ Len(filled'["server"]) = Len(filled["server"]) + 1
  BY <1>1, <1>3, FilledIs DEF Typed
<1>5. /\ Buffer("header", 2) \in Reads /\ ReadIs(Buffer("header", 2))
      /\ Buffer("header", 2).kind = "header"
      /\ Nothing \in Reads /\ ReadIs(Nothing) /\ Nothing.kind = "none"
  BY BufferTyped, <1>3 DEF Nothing
<1>6. /\ reading' \in [Ends -> Reads] /\ reading'["client"] = reading["client"]
      /\ reading'["server"] = Buffer("header", 2) \/ reading'["server"] = Nothing
  BY <1>1, <1>3, <1>5 DEF Typed, ReadsTyped
<1>7. \A f \in Ends : ReadIs(reading'[f])
  BY <1>5, <1>6 DEF Ends, Typed, ReadsTyped
<1>8. ReadsTyped'
  BY <1>2, <1>4, <1>6, <1>7 DEF Typed, ReadsTyped
<1>9. /\ filled["server"] = << >> /\ m_qMessagesIn["server"] = << >>
      /\ begun["server"] # << >>
  BY <1>4 DEF Typed, Handshake
<1>10. Len(filled'["server"]) = 1 /\ filled'["client"] = filled["client"]
  BY <1>3, <1>4, <1>9 DEF Typed, ReadsTyped
<1>11. Handshake'
  BY <1>2, <1>5, <1>6, <1>9, <1>10 DEF Typed, Handshake
<1>12. WritesTyped' /\ QueuesTyped'
  BY <1>2 DEF Typed, WritesTyped, WriteTrue, QueuesTyped
<1>13. ProgramTyped'
  <2>1. open' \subseteq Ends /\ broken' \in BOOLEAN
    BY <1>1 DEF Typed, ProgramTyped
  <2> QED
    BY <1>2, <2>1 DEF Typed, ProgramTyped
<1> QED
  BY <1>8, <1>11, <1>12, <1>13 DEF Typed

LEMMA ChallengeReadIs ==
  ASSUME Typed, ChallengeRead
  PROVE  \E n \in 1 .. MaxTransfer :
           LET d == Data("validation", IF Got("client", n) = Challenge
                                       THEN Answer ELSE OtherAnswer)
           IN  /\ Filled("client", "validation", n)
               /\ Begin("client", "validation", d)
               /\ d \in Operations /\ d.kind = "validation" /\ d.data # << >> /\ d.done = 0
               /\ d.data = IF Got("client", n) = Challenge THEN Answer ELSE OtherAnswer
               /\ reading' = [reading EXCEPT !["client"] = Nothing]
<1>1. PICK n \in 1 .. MaxTransfer :
        /\ Filled("client", "validation", n)
        /\ Begin("client", "validation", Data("validation",
             IF Got("client", n) = Challenge THEN Answer ELSE OtherAnswer))
  BY DEF ChallengeRead
<1> DEFINE a == IF Got("client", n) = Challenge THEN Answer ELSE OtherAnswer
<1>2. a \in Seq(Words) /\ Len(a) = 2
  BY ConstantsTyped
<1> HIDE DEF a
<1>3. /\ Data("validation", a) = [kind |-> "validation", data |-> a, done |-> 0]
      /\ a # << >>
  BY <1>2 DEF Data
<1>4. /\ Data("validation", a) \in Operations /\ Data("validation", a).kind = "validation"
      /\ Data("validation", a).data = a /\ Data("validation", a).done = 0
  BY <1>2, <1>3 DEF Operations, Kinds
<1>5. reading' = [reading EXCEPT !["client"] = Nothing]
  BY DEF ChallengeRead, ReadNothing
<1> QED
  BY <1>1, <1>3, <1>4, <1>5 DEF a

LEMMA ChallengeReadKeeps ==
  ASSUME Typed, ChallengeRead
  PROVE  Typed'
<1>1. PICK n \in 1 .. MaxTransfer, d \in Operations :
        /\ Filled("client", "validation", n)
        /\ Begin("client", "validation", d)
        /\ d.kind = "validation" /\ d.data # << >> /\ d.done = 0
        /\ reading' = [reading EXCEPT !["client"] = Nothing]
  BY ChallengeReadIs
<1>2. UNCHANGED <<open, broken, moved, m_qMessagesOut, m_qMessagesIn,
                  m_msgTemporaryIn, handled, greetings, sent, mixed>>
  BY DEF ChallengeRead, transport, program
<1>3. "server" \in Ends /\ "client" \in Ends /\ "client" # "server"
      /\ "validation" \in Kinds /\ "none" \in Kinds
      /\ "validation" \in Writes /\ "message" \in Writes /\ "message" # "validation"
  BY DEF Ends, Kinds, Writes
<1>4. /\ reading["client"].kind = "validation"
      /\ stream' \in [Ends -> Seq(Words)]
      /\ filled' = [filled EXCEPT !["client"] = Append(filled["client"], Got("client", n))]
      /\ filled' \in [Ends -> Seq(Seq(Words))]
      /\ Len(filled'["client"]) = Len(filled["client"]) + 1
  BY <1>1, <1>3, FilledIs DEF Typed
<1>5. /\ writing["client"]["validation"].kind = "none"
      /\ filled["client"] = << >> /\ m_qMessagesIn["client"] = << >>
  BY <1>4 DEF Typed, Handshake
<1>6. moved["client"]["validation"] = 0 /\ ~Asks(requests["client"], "validation")
  BY <1>3, <1>5 DEF Typed, WritesTyped, WriteTrue, WriteIs
<1>7. moved' = [moved EXCEPT !["client"]["validation"] = 0]
  BY <1>2, <1>3, <1>6 DEF Typed, WritesTyped
<1>8. d.kind \in KindsOf("validation")
  BY <1>1 DEF KindsOf
<1>9. WritesTyped'
  BY <1>1, <1>3, <1>6, <1>7, <1>8, BeginTyped DEF Typed
<1>10. /\ \A f \in Ends : writing'[f]["message"] = writing[f]["message"]
       /\ begun'["server"] = begun["server"]
  BY <1>1, <1>3 DEF Begin, Typed, WritesTyped
<1>11. begun'["client"] # << >>
  <2>1. begun["client"] \in Seq(Seq(Words)) /\ d.data \in Seq(Words)
    BY <1>3 DEF Typed, WritesTyped, Operations
  <2>2. Append(begun["client"], d.data) # << >>
    BY <2>1, AppendProperties, EmptySeq
  <2> QED
    BY <1>1, <1>3, <2>2 DEF Begin, Typed, WritesTyped
<1>12. QueuesTyped'
  BY <1>2, <1>10 DEF Typed, QueuesTyped
<1>13. Nothing \in Reads /\ ReadIs(Nothing) /\ Nothing.kind = "none"
  BY BufferTyped, <1>3 DEF Nothing
<1>14. /\ reading' \in [Ends -> Reads] /\ reading'["server"] = reading["server"]
       /\ reading'["client"] = Nothing
  BY <1>1, <1>3, <1>13 DEF Typed, ReadsTyped
<1>15. \A f \in Ends : ReadIs(reading'[f])
  BY <1>13, <1>14 DEF Ends, Typed, ReadsTyped
<1>16. ReadsTyped'
  BY <1>2, <1>4, <1>14, <1>15 DEF Typed, ReadsTyped
<1>17. Len(filled'["client"]) = 1 /\ filled'["server"] = filled["server"]
  BY <1>3, <1>4, <1>5 DEF Typed, ReadsTyped
<1>18. \A e \in Ends : begun'[e] = << >> => sent[e] = << >>
  BY <1>10, <1>11 DEF Typed, Handshake, Ends
<1>19. Handshake'
  BY <1>2, <1>5, <1>10, <1>13, <1>14, <1>17, <1>18 DEF Typed, Handshake
<1>20. ProgramTyped'
  BY <1>2 DEF Typed, ProgramTyped
<1> QED
  BY <1>9, <1>12, <1>16, <1>19, <1>20 DEF Typed

(* After its handshake an end reads headers and bodies only.               *)
LEMMA MessageReadKeeps ==
  ASSUME Typed, NEW e \in Ends, ReadHeader(e) \/ ReadBody(e)
  PROVE  Typed'
<1>1. UNCHANGED <<open, broken, writing, requests, moved, begun, m_qMessagesOut, handled,
                  greetings, sent, mixed>>
  BY DEF ReadHeader, ReadBody, transport, writes, program
<1>2. /\ stream' \in [Ends -> Seq(Words)]
      /\ reading[e].kind \in {"header", "body"}
      /\ filled' \in [Ends -> Seq(Seq(Words))]
      /\ \A f \in Ends \ {e} : filled'[f] = filled[f]
      /\ m_msgTemporaryIn' \in [Ends -> Messages]
      /\ m_qMessagesIn' \in [Ends -> Seq(Messages)]
      /\ \A f \in Ends \ {e} : m_qMessagesIn'[f] = m_qMessagesIn[f]
      /\ \E k \in Nat : /\ k > 0 /\ reading' = [reading EXCEPT ![e] = Buffer("body", k)]
                        \/ reading' = [reading EXCEPT ![e] = Buffer("header", 2)]
  <2> USE DEF Typed
  <2>0. /\ m_qMessagesIn[e] \in Seq(Messages)
        /\ \A msg \in Messages : Append(m_qMessagesIn[e], msg) \in Seq(Messages)
    BY AppendProperties DEF ReadsTyped
  <2>1. CASE ReadHeader(e)
    <3>1. PICK n \in 1 .. MaxTransfer, id \in Words, size \in Words :
            LET old == m_msgTemporaryIn[e]
                msg == [id |-> id, size |-> size, body |-> old.body]
                kept == [id |-> id, size |-> size, body |-> Resized(old.body, size)]
            IN  /\ Filled(e, "header", n)
                /\ id = Got(e, n)[1] /\ size = Got(e, n)[2]
                /\ msg \in Messages
                /\ size > 0 => /\ m_msgTemporaryIn' = [m_msgTemporaryIn EXCEPT ![e] = kept]
                               /\ reading' = [reading EXCEPT ![e] = Buffer("body", size)]
                               /\ m_qMessagesIn' = m_qMessagesIn
                               /\ kept \in Messages
                /\ ~(size > 0) =>
                     /\ m_msgTemporaryIn' = [m_msgTemporaryIn EXCEPT ![e] = msg]
                     /\ reading' = [reading EXCEPT ![e] = Buffer("header", 2)]
                     /\ m_qMessagesIn' = [m_qMessagesIn EXCEPT ![e] =
                                            Append(m_qMessagesIn[e], msg)]
      BY <2>1, ReadHeaderIs
    <3>2. /\ stream' \in [Ends -> Seq(Words)] /\ filled' \in [Ends -> Seq(Seq(Words))]
          /\ reading[e].kind = "header"
          /\ filled' = [filled EXCEPT ![e] = Append(filled[e], Got(e, n))]
      BY <3>1, FilledIs DEF Kinds
    <3>3. size \in Nat
      BY WordSizes DEF Words
    <3>4. /\ m_msgTemporaryIn' \in [Ends -> Messages]
          /\ m_qMessagesIn' \in [Ends -> Seq(Messages)]
          /\ \A f \in Ends \ {e} : m_qMessagesIn'[f] = m_qMessagesIn[f]
      <4> DEFINE old == m_msgTemporaryIn[e]
                 msg == [id |-> id, size |-> size, body |-> old.body]
                 kept == [id |-> id, size |-> size, body |-> Resized(old.body, size)]
      <4>1. /\ msg \in Messages
            /\ size > 0 => /\ m_msgTemporaryIn' = [m_msgTemporaryIn EXCEPT ![e] = kept]
                           /\ m_qMessagesIn' = m_qMessagesIn
                           /\ kept \in Messages
            /\ ~(size > 0) => /\ m_msgTemporaryIn' = [m_msgTemporaryIn EXCEPT ![e] = msg]
                              /\ m_qMessagesIn' = [m_qMessagesIn EXCEPT ![e] =
                                                     Append(m_qMessagesIn[e], msg)]
        BY <3>1
      <4> HIDE DEF msg, kept
      <4> QED
        BY <2>0, <4>1 DEF ReadsTyped
    <3>5. \/ size > 0 /\ reading' = [reading EXCEPT ![e] = Buffer("body", size)]
          \/ reading' = [reading EXCEPT ![e] = Buffer("header", 2)]
      BY <3>1
    <3>6. \A f \in Ends \ {e} : filled'[f] = filled[f]
      BY <3>2 DEF ReadsTyped
    <3> QED
      BY <3>2, <3>3, <3>4, <3>5, <3>6
  <2>2. CASE ReadBody(e)
    <3>1. PICK n \in 1 .. MaxTransfer :
            LET old == m_msgTemporaryIn[e]
                msg == [id |-> old.id, size |-> old.size, body |-> Got(e, n)]
            IN  /\ Filled(e, "body", n)
                /\ msg \in Messages
                /\ m_msgTemporaryIn' = [m_msgTemporaryIn EXCEPT ![e] = msg]
                /\ reading' = [reading EXCEPT ![e] = Buffer("header", 2)]
                /\ m_qMessagesIn' = [m_qMessagesIn EXCEPT ![e] =
                                       Append(m_qMessagesIn[e], msg)]
      BY <2>2, ReadBodyIs
    <3>2. /\ stream' \in [Ends -> Seq(Words)] /\ filled' \in [Ends -> Seq(Seq(Words))]
          /\ reading[e].kind = "body"
          /\ filled' = [filled EXCEPT ![e] = Append(filled[e], Got(e, n))]
      BY <3>1, FilledIs DEF Kinds
    <3>3. \E k \in Nat : k > 0
      OBVIOUS
    <3> QED
      BY <2>0, <3>1, <3>2, <3>3 DEF ReadsTyped
  <2> QED
    BY <2>1, <2>2
<1>3. PICK k \in Nat, b \in Reads :
        /\ reading' = [reading EXCEPT ![e] = b] /\ ReadIs(b) /\ b.kind \in {"header", "body"}
  <2>1. PICK k \in Nat : /\ k > 0 /\ reading' = [reading EXCEPT ![e] = Buffer("body", k)]
                         \/ reading' = [reading EXCEPT ![e] = Buffer("header", 2)]
    BY <1>2
  <2>2. k > 0 => /\ Buffer("body", k) \in Reads /\ ReadIs(Buffer("body", k))
                 /\ Buffer("body", k).kind = "body"
    BY BufferTyped DEF Kinds
  <2>3. /\ Buffer("header", 2) \in Reads /\ ReadIs(Buffer("header", 2))
        /\ Buffer("header", 2).kind = "header"
    BY BufferTyped DEF Kinds
  <2> QED
    BY <2>1, <2>2, <2>3
<1>4. ReadsTyped'
  BY <1>2, <1>3 DEF Typed, ReadsTyped
<1>5. "server" \in Ends /\ "client" \in Ends /\ "client" # "server"
  BY DEF Ends
<1>6. Handshake'
  <2>1. CASE e = "client"
    <3>1. /\ reading'["client"].kind \in {"header", "body"}
          /\ reading'["server"] = reading["server"]
          /\ filled'["server"] = filled["server"]
          /\ m_qMessagesIn'["server"] = m_qMessagesIn["server"]
      BY <1>2, <1>3, <1>5, <2>1 DEF Typed, ReadsTyped
    <3>2. writing["client"]["validation"].kind = "none"
      BY <1>2, <2>1 DEF Typed, Handshake
    <3> QED
      BY <1>1, <3>1, <3>2 DEF Typed, Handshake
  <2>2. CASE e = "server"
    <3>1. /\ reading'["server"].kind \in {"header", "body"}
          /\ reading'["client"] = reading["client"]
          /\ filled'["client"] = filled["client"]
          /\ m_qMessagesIn'["client"] = m_qMessagesIn["client"]
      BY <1>2, <1>3, <1>5, <2>2 DEF Typed, ReadsTyped
    <3>2. begun["server"] # << >>
      BY <1>2, <2>2 DEF Typed, Handshake
    <3> QED
      BY <1>1, <3>1, <3>2 DEF Typed, Handshake
  <2> QED
    BY <2>1, <2>2 DEF Ends
<1>7. WritesTyped' /\ QueuesTyped' /\ ProgramTyped'
  BY <1>1 DEF Typed, WritesTyped, WriteTrue, QueuesTyped, ProgramTyped
<1> QED
  BY <1>4, <1>6, <1>7 DEF Typed

(* Starting or ending the write of a message leaves the rest of what the   *)
(* handshake is about alone.                                               *)
LEMMA MessageWriteOnly ==
  ASSUME WritesTyped, NEW e \in Ends,
         \/ \E d \in Operations : Begin(e, "message", d)
         \/ Finish(e, "message")
         \/ writing' = writing /\ begun' = begun
  PROVE  /\ \A f \in Ends : writing'[f]["validation"] = writing[f]["validation"]
         /\ \A f \in Ends : begun[f] # << >> => begun'[f] # << >>
         /\ \A f \in Ends \ {e} : writing'[f] = writing[f] /\ begun'[f] = begun[f]
<1>1. "message" \in Writes /\ "validation" \in Writes /\ "message" # "validation"
  BY DEF Writes
<1>2. ASSUME NEW d \in Operations, Begin(e, "message", d)
      PROVE  /\ \A f \in Ends : writing'[f]["validation"] = writing[f]["validation"]
             /\ \A f \in Ends : begun[f] # << >> => begun'[f] # << >>
             /\ \A f \in Ends \ {e} : writing'[f] = writing[f] /\ begun'[f] = begun[f]
  <2>1. begun[e] \in Seq(Seq(Words)) /\ d.data \in Seq(Words)
    BY DEF WritesTyped, Operations
  <2>2. Append(begun[e], d.data) # << >>
    BY <2>1, AppendProperties, EmptySeq
  <2>3. /\ writing' = [writing EXCEPT ![e]["message"] = d]
        /\ begun' = [begun EXCEPT ![e] = Append(begun[e], d.data)]
    BY <1>2 DEF Begin
  <2> QED
    BY <1>1, <2>2, <2>3 DEF WritesTyped
<1>3. CASE Finish(e, "message")
  BY <1>1, <1>3 DEF Finish, WritesTyped
<1> QED
  BY <1>2, <1>3

LEMMA SendKeeps ==
  ASSUME Typed, NEW e \in Ends, NEW msg \in Messages, Send(e, msg),
         handled' \in Nat, greetings' \in 0 .. MaxGreetings
  PROVE  Typed'
<1>1. WritesTyped' /\ QueuesTyped'
  BY SendTyped DEF Typed
<1>2. /\ sent' = [sent EXCEPT ![e] = Append(sent[e], msg)]
      /\ m_qMessagesOut' = [m_qMessagesOut EXCEPT ![e] = Append(m_qMessagesOut[e], msg)]
      /\ Begin(e, "message", Header(msg)) \/ (writing' = writing /\ begun' = begun)
      /\ UNCHANGED <<open, broken, stream, reading, filled, m_qMessagesIn,
                     m_msgTemporaryIn, mixed>>
  BY DEF Send, writes, transport, inputs
<1>3. Header(msg) \in Operations
  BY HeaderTyped
<1>4. /\ \A f \in Ends : writing'[f]["validation"] = writing[f]["validation"]
      /\ \A f \in Ends : begun[f] # << >> => begun'[f] # << >>
      /\ \A f \in Ends \ {e} : begun'[f] = begun[f]
  BY <1>2, <1>3, MessageWriteOnly DEF Typed
<1>5. begun'[e] # << >>
  <2>1. m_qMessagesOut'[e] # << >>
    BY <1>2, AppendProperties, EmptySeq DEF Typed, QueuesTyped
  <2>2. writing'[e]["message"].kind # "none" /\ "message" \in Writes
    BY <1>1, <2>1 DEF QueuesTyped, Writes
  <2> QED
    BY <1>1, <2>2 DEF WritesTyped, WriteTrue, WriteIs
<1>6. \A f \in Ends : begun'[f] = << >> => sent'[f] = << >>
  <2> SUFFICES ASSUME NEW f \in Ends, begun'[f] = << >> PROVE sent'[f] = << >>
    OBVIOUS
  <2>1. f # e /\ begun[f] = << >>
    BY <1>4, <1>5
  <2> QED
    BY <1>2, <2>1 DEF Typed, Handshake, QueuesTyped
<1>7. "server" \in Ends /\ "client" \in Ends
  BY DEF Ends
<1>8. Handshake'
  BY <1>2, <1>4, <1>6, <1>7 DEF Typed, Handshake
<1>9. ReadsTyped'
  BY <1>2 DEF Typed, ReadsTyped
<1>10. ProgramTyped'
  BY <1>2 DEF Typed, ProgramTyped
<1> QED
  BY <1>1, <1>8, <1>9, <1>10 DEF Typed

LEMMA MessageWriteKeeps ==
  ASSUME Typed, NEW e \in Ends, WriteHeader(e) \/ WriteBody(e)
  PROVE  Typed'
<1>1. WritesTyped' /\ QueuesTyped'
  BY WriteTyped DEF Typed
<1>2. UNCHANGED <<open, broken, stream, reading, filled, m_qMessagesIn, m_msgTemporaryIn,
                  handled, greetings, sent, mixed>>
  BY DEF WriteHeader, WriteBody, transport, inputs, program
<1>3. \/ \E d \in Operations : Begin(e, "message", d)
      \/ Finish(e, "message")
  <2> DEFINE q == m_qMessagesOut[e]
  <2>1. /\ q # << >> /\ Head(q) \in Messages
        /\ \/ Head(q).body # << >> /\ Begin(e, "message", Data("body", Head(q).body))
           \/ PopAndWriteNext(e)
    BY MessageWritten DEF Typed
  <2>2. q \in Seq(Messages) /\ Tail(q) \in Seq(Messages)
    BY <2>1, HeadTailProperties DEF Typed, QueuesTyped
  <2>3. CASE Head(q).body # << >> /\ Begin(e, "message", Data("body", Head(q).body))
    BY <2>1, <2>3, BodyTyped
  <2>4. CASE PopAndWriteNext(e) /\ Tail(q) # << >>
    <3>1. Head(Tail(q)) \in Messages /\ Begin(e, "message", Header(Head(Tail(q))))
      BY <2>2, <2>4, HeadTailProperties DEF PopAndWriteNext
    <3> QED
      BY <3>1, HeaderTyped
  <2>5. CASE PopAndWriteNext(e) /\ Tail(q) = << >>
    BY <2>5 DEF PopAndWriteNext
  <2> QED
    BY <2>1, <2>3, <2>4, <2>5
<1>4. /\ \A f \in Ends : writing'[f]["validation"] = writing[f]["validation"]
      /\ \A f \in Ends : begun[f] # << >> => begun'[f] # << >>
  BY <1>3, MessageWriteOnly DEF Typed
<1>5. "server" \in Ends /\ "client" \in Ends
  BY DEF Ends
<1>6. \A f \in Ends : begun'[f] = << >> => sent'[f] = << >>
  BY <1>2, <1>4 DEF Typed, Handshake
<1>7. Handshake'
  BY <1>2, <1>4, <1>5, <1>6 DEF Typed, Handshake
<1>8. ReadsTyped' /\ ProgramTyped'
  BY <1>2 DEF Typed, ReadsTyped, ProgramTyped
<1> QED
  BY <1>1, <1>7, <1>8 DEF Typed

(* What each of the programs sends.                                        *)
LEMMA ClientSendsIs ==
  ASSUME Typed, PingServer \/ MessageAllKey
  PROVE  \E msg \in ClientMessages :
           Send("client", msg) /\ UNCHANGED <<handled, greetings>>
<1>1. CASE PingServer
  <2> DEFINE k == Len(sent["client"]) + 1
  <2>1. /\ Len(sent["client"]) < MaxSends
        /\ Send("client", Push(Message(ServerPing), TimePoints[k]))
        /\ UNCHANGED <<handled, greetings>>
    BY <1>1 DEF PingServer, ClientSends
  <2>2. Len(sent["client"]) \in Nat
    BY LenProperties DEF Typed, QueuesTyped, Ends
  <2>3. MaxSends <= Len(TimePoints) /\ MaxSends \in Nat /\ DOMAIN TimePoints = 1 .. Len(TimePoints)
        /\ Len(TimePoints) \in Nat
    BY WireAssumption, LenProperties
  <2>4. k \in DOMAIN TimePoints
    BY <2>1, <2>2, <2>3
  <2> HIDE DEF k
  <2>5. /\ Push(Message(ServerPing), TimePoints[k]) = Made(ServerPing, TimePoints[k])
        /\ Made(ServerPing, TimePoints[k]) \in ClientMessages
    BY <2>4, MadeTyped DEF ClientMessages
  <2> QED
    BY <2>1, <2>5
<1>2. CASE MessageAllKey
  <2>1. Send("client", Message(MessageAll)) /\ UNCHANGED <<handled, greetings>>
    BY <1>2 DEF MessageAllKey, ClientSends
  <2>2. Message(MessageAll) \in ClientMessages
    BY MessageMade DEF ClientMessages
  <2> QED
    BY <2>1, <2>2
<1> QED
  BY <1>1, <1>2

LEMMA ServerSendsIs ==
  ASSUME Typed,
         \/ OnClientConnect \/ Greeting
         \/ \E n \in 1 .. Len(m_qMessagesIn["server"]) : Echoes(n)
  PROVE  \E msg \in Messages :
           /\ Send("server", msg) /\ begun["server"] # << >>
           /\ handled' \in Nat /\ greetings' \in 0 .. MaxGreetings
           /\ \/ msg = Made(ServerAccept, << >>)
              \/ msg = Greet
              \/ /\ msg.id = ServerPing
                 /\ \E n \in 1 .. Len(m_qMessagesIn["server"]) :
                      msg = m_qMessagesIn["server"][n]
<1>1. handled \in Nat /\ greetings \in 0 .. MaxGreetings /\ MaxGreetings \in Nat
  BY WireAssumption DEF Typed, ProgramTyped
<1>2. sent["server"] # << >> => begun["server"] # << >>
  BY DEF Typed, Handshake, Ends
<1>3. CASE OnClientConnect
  <2>1. Send("server", Message(ServerAccept)) /\ UNCHANGED <<handled, greetings>>
        /\ begun["server"] # << >>
    BY <1>3 DEF OnClientConnect
  <2> QED
    BY <1>1, <2>1, MessageMade
<1>4. CASE Greeting
  <2>1. /\ Send("server", Push(Message(MessageAll), OtherID)) /\ UNCHANGED handled
        /\ begun["server"] # << >> /\ greetings' = greetings + 1
        /\ greetings < MaxGreetings
    BY <1>2, <1>4 DEF Greeting
  <2>2. greetings' \in 0 .. MaxGreetings
    BY <1>1, <2>1
  <2> QED
    BY <1>1, <2>1, <2>2, MadeTyped
<1>5. ASSUME NEW n \in 1 .. Len(m_qMessagesIn["server"]), Echoes(n)
      PROVE  \E msg \in Messages :
               /\ Send("server", msg) /\ begun["server"] # << >>
               /\ handled' \in Nat /\ greetings' \in 0 .. MaxGreetings
               /\ msg.id = ServerPing /\ msg = m_qMessagesIn["server"][n]
  <2>1. /\ Send("server", m_qMessagesIn["server"][n]) /\ greetings' = greetings
        /\ sent["server"] # << >> /\ handled' = n
        /\ m_qMessagesIn["server"][n].id = ServerPing
    BY <1>5 DEF Echoes, Takes
  <2>2. m_qMessagesIn["server"][n] \in Messages /\ n \in Nat
    BY ElementOfSeq DEF Typed, ReadsTyped, Ends
  <2> QED
    BY <1>1, <1>2, <2>1, <2>2
<1> QED
  BY <1>3, <1>4, <1>5

LEMMA TakesOtherKeeps ==
  ASSUME Typed, NEW n \in 1 .. Len(m_qMessagesIn["server"]), TakesOther(n)
  PROVE  Typed'
<1>1. /\ handled' = n
      /\ UNCHANGED <<open, broken, stream, reading, filled, writing, requests, moved, begun,
                     m_qMessagesOut, m_qMessagesIn, m_msgTemporaryIn, greetings,
                     sent, mixed>>
  BY DEF TakesOther, Takes, inputs, writes, transport
<1>2. n \in Nat
  OBVIOUS
<1>3. WritesTyped' /\ QueuesTyped' /\ ReadsTyped' /\ Handshake'
  BY <1>1 DEF Typed, WritesTyped, WriteTrue, QueuesTyped, ReadsTyped, Handshake
<1>4. ProgramTyped'
  BY <1>1, <1>2 DEF Typed, ProgramTyped
<1> QED
  BY <1>3, <1>4 DEF Typed

LEMMA StepTyped == Typed /\ [Next]_vars => Typed'
<1> SUFFICES ASSUME Typed, [Next]_vars PROVE Typed'
  OBVIOUS
<1>1. CASE UNCHANGED vars
  <2>1. UNCHANGED <<open, broken, stream, reading, filled, writing, requests, moved, begun,
                    m_qMessagesOut, m_qMessagesIn, m_msgTemporaryIn, handled, greetings,
                    sent, mixed>>
    BY <1>1 DEF vars, transport, inputs, writes, program
  <2> QED
    BY <2>1 DEF Typed, WritesTyped, WriteTrue, QueuesTyped, ReadsTyped, Handshake,
       ProgramTyped
<1>2. CASE PingServer \/ MessageAllKey
  <2>1. PICK msg \in ClientMessages : Send("client", msg) /\ UNCHANGED <<handled, greetings>>
    BY <1>2, ClientSendsIs
  <2>2. msg \in Messages /\ "client" \in Ends
    BY MadeTyped DEF Ends
  <2>3. handled' \in Nat /\ greetings' \in 0 .. MaxGreetings
    BY <2>1 DEF Typed, ProgramTyped
  <2> QED
    BY <2>1, <2>2, <2>3, SendKeeps
<1>3. CASE \/ OnClientConnect \/ Greeting
           \/ \E n \in 1 .. Len(m_qMessagesIn["server"]) : Echoes(n)
  <2>1. PICK msg \in Messages : /\ Send("server", msg) /\ handled' \in Nat
                                /\ greetings' \in 0 .. MaxGreetings
    BY <1>3, ServerSendsIs
  <2>2. "server" \in Ends
    BY DEF Ends
  <2> QED
    BY <2>1, <2>2, SendKeeps
<1>4. CASE \E e \in Ends :
             \/ Transfer(e) \/ ReadContinues(e) \/ OperationFails(e)
             \/ \E w \in Writes : WriteContinues(e, w)
             \/ ValidationWritten(e)
             \/ ReadHeader(e) \/ ReadBody(e) \/ WriteHeader(e) \/ WriteBody(e)
  BY <1>4, TransferKeeps, ReadContinuesKeeps, OperationFailsKeeps, WriteContinuesKeeps,
     ValidationWrittenKeeps, MessageReadKeeps, MessageWriteKeeps
<1>5. CASE \/ ConnectToClient \/ AnswerRead \/ ChallengeRead \/ Break
           \/ \E n \in 1 .. Len(m_qMessagesIn["server"]) : TakesOther(n)
  BY <1>5, ConnectKeeps, AnswerReadKeeps, ChallengeReadKeeps, BreakKeeps, TakesOtherKeeps
<1> QED
  BY <1>1, <1>2, <1>3, <1>4, <1>5 DEF Next

LEMMA AlwaysTyped == Spec => []Typed
<1> QED
  BY InitTyped, StepTyped, PTL DEF Spec

(* Whatever the stream takes and gives at a time, and also where writes    *)
(* have mixed: no handler moves past the end of its buffer, and what the   *)
(* connection and the programs keep has its type.                          *)
THEOREM TypeCorrect == Spec => []TypeOK
<1> QED
  BY AlwaysTyped, TypedIsTypeOK, PTL
-----------------------------------------------------------------------------
(* A stream as a channel of buffers.  all: the words of the buffers B laid *)
(* end to end, with ends[i] the place where the i-th is over.  T: what the *)
(* reader has of a buffer and what is on its way to it; start: the words   *)
(* it had before; left: the words that the writer still has.               *)
Stretch(all, ends, B) ==
  /\ ends[0] = 0 /\ ends[Len(B)] = Len(all)
  /\ \A i \in 1 .. Len(B) : /\ ends[i] = ends[i - 1] + Len(B[i])
                            /\ \A j \in 1 .. Len(B[i]) : all[ends[i - 1] + j] = B[i][j]

OnTheWay(T, all, start, left) ==
  /\ Len(T) = Len(all) - start - left
  /\ \A j \in 1 .. Len(T) : T[j] = all[start + j]

PrefixOf(F, B) == Len(F) <= Len(B) /\ \A i \in 1 .. Len(F) : F[i] = B[i]

Flow(B, F, T, left) ==
  /\ PrefixOf(F, B)
  /\ \E all \in Seq(Words) : \E ends \in [0 .. Len(B) -> 0 .. Len(all)] :
       Stretch(all, ends, B) /\ OnTheWay(T, all, ends[Len(F)], left)

(* What SubSeq and \o give, word by word.                                  *)
LEMMA Slice ==
  ASSUME NEW x \in Seq(Words), NEW done \in Nat, NEW n \in Nat, done + n <= Len(x)
  PROVE  LET part == SubSeq(x, done + 1, done + n)
         IN  /\ part \in Seq(Words) /\ Len(part) = n
             /\ \A j \in 1 .. n : part[j] = x[done + j]
<1> DEFINE part == SubSeq(x, done + 1, done + n)
<1>1. \A j \in done + 1 .. done + n : j \in 1 .. Len(x) /\ x[j] \in Words
  BY ElementOfSeq, LenProperties
<1>2. done + 1 \in Int /\ done + n \in Int
  OBVIOUS
<1>3. /\ part \in Seq(Words)
      /\ Len(part) = IF done + 1 <= done + n THEN done + n - (done + 1) + 1 ELSE 0
      /\ \A j \in 1 .. done + n - (done + 1) + 1 : part[j] = x[done + 1 + j - 1]
  BY <1>1, <1>2, SubSeqProperties
<1> HIDE DEF part
<1>4. Len(part) = n
  BY <1>3
<1>5. ASSUME NEW j \in 1 .. n PROVE part[j] = x[done + j]
  <2>1. j \in 1 .. done + n - (done + 1) + 1 /\ done + 1 + j - 1 = done + j
    OBVIOUS
  <2> QED
    BY <1>3, <2>1
<1> QED
  BY <1>3, <1>4, <1>5 DEF part

LEMMA Joined ==
  ASSUME NEW x \in Seq(Words), NEW y \in Seq(Words)
  PROVE  LET z == x \o y
         IN  /\ z \in Seq(Words) /\ Len(z) = Len(x) + Len(y)
             /\ \A j \in 1 .. Len(x) : z[j] = x[j]
             /\ \A j \in 1 .. Len(y) : z[Len(x) + j] = y[j]
<1> DEFINE z == x \o y
<1>1. /\ z \in Seq(Words) /\ Len(z) = Len(x) + Len(y)
      /\ \A j \in 1 .. Len(x) + Len(y) : z[j] = IF j <= Len(x) THEN x[j] ELSE y[j - Len(x)]
  BY ConcatProperties
<1> HIDE DEF z
<1>2. Len(x) \in Nat /\ Len(y) \in Nat
  BY LenProperties
<1>3. \A j \in 1 .. Len(x) : z[j] = x[j]
  BY <1>1, <1>2
<1>4. ASSUME NEW j \in 1 .. Len(y) PROVE z[Len(x) + j] = y[j]
  <2>1. /\ Len(x) + j \in 1 .. Len(x) + Len(y) /\ ~(Len(x) + j <= Len(x))
        /\ Len(x) + j - Len(x) = j
    BY <1>2
  <2> QED
    BY <1>1, <2>1
<1> QED
  BY <1>1, <1>3, <1>4 DEF z

LEMMA FlowBegun ==
  ASSUME NEW B \in Seq(Seq(Words)), NEW F \in Seq(Seq(Words)), NEW T \in Seq(Words),
         NEW left \in Nat, NEW d \in Seq(Words), Flow(B, F, T, left)
  PROVE  Flow(Append(B, d), F, T, left + Len(d))
<1> DEFINE C == Append(B, d)
<1>1. /\ C \in Seq(Seq(Words)) /\ Len(C) = Len(B) + 1 /\ C[Len(B) + 1] = d
      /\ \A i \in 1 .. Len(B) : C[i] = B[i]
  BY AppendProperties
<1>2. PICK all \in Seq(Words) : \E ends \in [0 .. Len(B) -> 0 .. Len(all)] :
        Stretch(all, ends, B) /\ OnTheWay(T, all, ends[Len(F)], left)
  BY DEF Flow
<1>20. PICK ends \in [0 .. Len(B) -> 0 .. Len(all)] :
        Stretch(all, ends, B) /\ OnTheWay(T, all, ends[Len(F)], left)
  BY <1>2
<1>3. /\ Len(B) \in Nat /\ Len(F) \in Nat /\ Len(d) \in Nat /\ Len(all) \in Nat
      /\ Len(T) \in Nat /\ Len(F) <= Len(B) /\ \A i \in 1 .. Len(F) : F[i] = B[i]
  BY LenProperties DEF Flow, PrefixOf
<1> DEFINE more == all \o d
           last == [i \in 0 .. Len(B) + 1 |-> IF i <= Len(B) THEN ends[i] ELSE Len(all) + Len(d)]
<1>4. /\ more \in Seq(Words) /\ Len(more) = Len(all) + Len(d)
      /\ \A j \in 1 .. Len(all) : more[j] = all[j]
      /\ \A j \in 1 .. Len(d) : more[Len(all) + j] = d[j]
  BY Joined
<1>5. /\ last \in [0 .. Len(C) -> 0 .. Len(more)]
      /\ \A i \in 0 .. Len(B) : last[i] = ends[i]
      /\ last[Len(B) + 1] = Len(all) + Len(d)
  <2>1. \A i \in 0 .. Len(B) + 1 : i <= Len(B) => ends[i] \in 0 .. Len(all)
    BY <1>3
  <2>2. last \in [0 .. Len(B) + 1 -> 0 .. Len(all) + Len(d)]
    BY <1>3, <2>1
  <2>3. Len(B) + 1 \in 0 .. Len(B) + 1 /\ ~(Len(B) + 1 <= Len(B))
    BY <1>3
  <2>4. \A i \in 0 .. Len(B) : i \in 0 .. Len(B) + 1 /\ i <= Len(B)
    BY <1>3
  <2>5. last[Len(B) + 1] = Len(all) + Len(d)
    BY <2>3
  <2>6. \A i \in 0 .. Len(B) : last[i] = ends[i]
    BY <2>4
  <2> QED
    BY <1>1, <1>4, <2>2, <2>5, <2>6
<1> HIDE DEF C, more, last
<1>6. \A i \in 0 .. Len(B) : ends[i] \in 0 .. Len(all)
  OBVIOUS
<1>7. /\ ends[0] = 0 /\ ends[Len(B)] = Len(all)
      /\ \A i \in 1 .. Len(B) : /\ ends[i] = ends[i - 1] + Len(B[i])
                                /\ \A j \in 1 .. Len(B[i]) : all[ends[i - 1] + j] = B[i][j]
  BY <1>20 DEF Stretch
<1>8. last[0] = 0 /\ last[Len(C)] = Len(more)
  BY <1>1, <1>3, <1>4, <1>5, <1>7
<1>9. ASSUME NEW i \in 1 .. Len(C)
      PROVE  /\ last[i] = last[i - 1] + Len(C[i])
             /\ \A j \in 1 .. Len(C[i]) : more[last[i - 1] + j] = C[i][j]
  <2>1. CASE i \in 1 .. Len(B)
    <3>1. i - 1 \in 0 .. Len(B) /\ i \in 0 .. Len(B)
      BY <1>3, <2>1
    <3>2. last[i] = ends[i] /\ last[i - 1] = ends[i - 1] /\ C[i] = B[i]
      BY <1>1, <1>5, <2>1, <3>1
    <3>3. B[i] \in Seq(Words) /\ Len(B[i]) \in Nat
      BY <2>1, ElementOfSeq, LenProperties
    <3>4. ends[i] = ends[i - 1] + Len(B[i]) /\ ends[i] \in 0 .. Len(all) /\ ends[i - 1] \in Nat
      BY <1>3, <1>6, <1>7, <2>1, <3>1
    <3>5. ASSUME NEW j \in 1 .. Len(B[i]) PROVE more[ends[i - 1] + j] = B[i][j]
      <4>1. \A a, b, l, m \in Nat : a = b + m /\ a <= l /\ j <= m => b + j \in 1 .. l
        OBVIOUS
      <4>2. ends[i] \in Nat /\ ends[i] <= Len(all) /\ j <= Len(B[i])
        BY <1>3, <3>3, <3>4
      <4>3. ends[i - 1] + j \in 1 .. Len(all)
        BY <1>3, <3>3, <3>4, <4>1, <4>2
      <4> QED
        BY <1>4, <1>7, <2>1, <4>3
    <3> QED
      BY <3>2, <3>4, <3>5
  <2>2. CASE i = Len(B) + 1
    <3>1. i - 1 = Len(B) /\ Len(B) \in 0 .. Len(B)
      BY <1>3, <2>2
    <3>2. last[i] = Len(all) + Len(d) /\ last[i - 1] = Len(all) /\ C[i] = d
      BY <1>1, <1>5, <1>7, <2>2, <3>1
    <3> QED
      BY <1>4, <3>2
  <2> QED
    BY <1>1, <1>3, <2>1, <2>2
<1>90. Stretch(more, last, C)
  BY <1>8, <1>9 DEF Stretch
<1>10. OnTheWay(T, more, last[Len(F)], left + Len(d))
  <2>1. Len(F) \in 0 .. Len(B)
    BY <1>3
  <2>2. last[Len(F)] = ends[Len(F)] /\ ends[Len(F)] \in Nat
    BY <1>3, <1>5, <1>6, <2>1
  <2>3. Len(T) = Len(all) - ends[Len(F)] - left
    BY <1>20 DEF OnTheWay
  <2>4. Len(T) = Len(more) - ends[Len(F)] - (left + Len(d))
    BY <1>3, <1>4, <2>2, <2>3
  <2>5. ASSUME NEW j \in 1 .. Len(T) PROVE T[j] = more[ends[Len(F)] + j]
    <3>1. ends[Len(F)] + j \in 1 .. Len(all)
      BY <1>3, <2>2, <2>3
    <3>2. T[j] = all[ends[Len(F)] + j]
      BY <1>20 DEF OnTheWay
    <3> QED
      BY <1>4, <3>1, <3>2
  <2> QED
    BY <2>2, <2>4, <2>5 DEF OnTheWay
<1>11. PrefixOf(F, C)
  <2>1. Len(F) <= Len(C)
    BY <1>1, <1>3
  <2>2. ASSUME NEW i \in 1 .. Len(F) PROVE F[i] = C[i]
    <3>1. i \in 1 .. Len(B)
      BY <1>3
    <3> QED
      BY <1>1, <1>3, <3>1
  <2> QED
    BY <2>1, <2>2 DEF PrefixOf
<1>12. \E x \in [0 .. Len(C) -> 0 .. Len(more)] :
         Stretch(more, x, C) /\ OnTheWay(T, more, x[Len(F)], left + Len(d))
  BY <1>5, <1>90, <1>10
<1> QED
  BY <1>4, <1>11, <1>12 DEF Flow, C

(* The stream takes n more words of the last buffer, or of the one before  *)
(* it; rest: the words of the buffers after that one.                      *)
LEMMA FlowMoved ==
  ASSUME NEW B \in Seq(Seq(Words)), NEW F \in Seq(Seq(Words)), NEW T \in Seq(Words),
         NEW i \in 1 .. Len(B), NEW done \in Nat, NEW n \in Nat, NEW rest \in Nat,
         \/ i = Len(B) /\ rest = 0
         \/ i = Len(B) - 1 /\ rest = Len(B[Len(B)]),
         done + n <= Len(B[i]),
         Flow(B, F, T, Len(B[i]) - done + rest)
  PROVE  Flow(B, F, T \o SubSeq(B[i], done + 1, done + n), Len(B[i]) - (done + n) + rest)
<1> DEFINE x == B[i]
           more == SubSeq(x, done + 1, done + n)
           left == Len(x) - done + rest
<1>1. PICK all \in Seq(Words) : \E ends \in [0 .. Len(B) -> 0 .. Len(all)] :
        Stretch(all, ends, B) /\ OnTheWay(T, all, ends[Len(F)], left)
  BY DEF Flow
<1>2. PICK ends \in [0 .. Len(B) -> 0 .. Len(all)] :
        Stretch(all, ends, B) /\ OnTheWay(T, all, ends[Len(F)], left)
  BY <1>1
<1>3. /\ x \in Seq(Words) /\ Len(x) \in Nat /\ Len(B) \in Nat /\ i \in Nat /\ Len(all) \in Nat
      /\ Len(T) \in Nat /\ Len(F) \in 0 .. Len(B)
  BY LenProperties, ElementOfSeq DEF Flow, PrefixOf
<1>4. more \in Seq(Words) /\ Len(more) = n /\ \A j \in 1 .. n : more[j] = x[done + j]
  BY <1>3, Slice, ZenonT(60)
<1> HIDE DEF more
<1> DEFINE U == T \o more
<1>5. /\ U \in Seq(Words) /\ Len(U) = Len(T) + n
      /\ \A j \in 1 .. Len(T) : U[j] = T[j]
      /\ \A j \in 1 .. n : U[Len(T) + j] = x[done + j]
  BY <1>4, Joined
<1> HIDE DEF U
<1>6. ends[i - 1] = Len(all) - rest - Len(x) /\ ends[i - 1] \in Nat
  <2>1. /\ ends[Len(B)] = Len(all)
        /\ \A k \in 1 .. Len(B) : ends[k] = ends[k - 1] + Len(B[k])
    BY <1>2 DEF Stretch
  <2>2. \A k \in 0 .. Len(B) : ends[k] \in Nat
    <3>1. \A k \in 0 .. Len(B) : ends[k] \in 0 .. Len(all)
      OBVIOUS
    <3> QED
      BY <1>3, <3>1
  <2>3. i - 1 \in 0 .. Len(B) /\ i \in 0 .. Len(B)
    BY <1>3
  <2>4. ends[i] = Len(all) - rest
    <3>1. CASE i = Len(B) /\ rest = 0
      BY <1>3, <2>1, <3>1
    <3>2. CASE i = Len(B) - 1 /\ rest = Len(B[Len(B)])
      <4>1. Len(B) \in 1 .. Len(B) /\ Len(B) - 1 = i
        BY <1>3, <3>2
      <4>2. ends[Len(B)] = ends[i] + rest
        BY <2>1, <3>2, <4>1
      <4> QED
        BY <1>3, <2>1, <2>2, <2>3, <4>2, SMTT(60)
    <3> QED
      BY <3>1, <3>2
  <2>5. ends[i] = ends[i - 1] + Len(x)
    BY <2>1
  <2>6. ends[i] \in Nat /\ ends[i - 1] \in Nat
    BY <2>2, <2>3
  <2> HIDE DEF x
  <2> QED
    BY <1>3, <2>4, <2>5, <2>6, SMTT(60)
<1>7. \A j \in 1 .. Len(x) : all[ends[i - 1] + j] = x[j]
  BY <1>2 DEF Stretch
<1> DEFINE start == ends[Len(F)]
<1>8. /\ start \in Nat /\ start <= Len(all) /\ Len(T) = Len(all) - start - left
      /\ \A j \in 1 .. Len(T) : T[j] = all[start + j]
  BY <1>2, <1>3 DEF OnTheWay
<1> HIDE DEF start, x
<1>9. ASSUME NEW j \in 1 .. Len(U) PROVE U[j] = all[start + j]
  <2>1. CASE j \in 1 .. Len(T)
    BY <1>5, <1>8, <2>1
  <2>2. CASE j > Len(T)
    <3> DEFINE k == j - Len(T)
    <3>1. k \in 1 .. n /\ Len(T) + k = j
      BY <1>3, <1>5, <2>2
    <3>2. done + k \in 1 .. Len(x)
      BY <1>3, <3>1, SMTT(60) DEF x
    <3>3. start + j = ends[i - 1] + (done + k)
      BY <1>3, <1>6, <1>8, <3>1
    <3> HIDE DEF k
    <3> QED
      BY <1>5, <1>7, <3>1, <3>2, <3>3
  <2> QED
    BY <1>3, <2>1, <2>2
<1>10. Len(U) = Len(all) - start - (Len(x) - (done + n) + rest)
  BY <1>3, <1>5, <1>8
<1>11. OnTheWay(U, all, start, Len(x) - (done + n) + rest)
  BY <1>9, <1>10 DEF OnTheWay
<1> QED
  BY <1>2, <1>11 DEF Flow, U, more, x, start

(* What a handler of the read takes moves from the stream to the buffer.   *)
LEMMA TakenKeeps ==
  ASSUME NEW got \in Seq(Words), NEW s \in Seq(Words), NEW n \in 0 .. Len(s)
  PROVE  (got \o SubSeq(s, 1, n)) \o SubSeq(s, n + 1, Len(s)) = got \o s
<1>1. Len(s) \in Nat /\ n \in Nat /\ n <= Len(s)
  BY LenProperties
<1>2. SubSeq(s, 1, n) \o SubSeq(s, n + 1, Len(s)) = s
  <2>1. SubSeq(s, 1, n) \o SubSeq(s, n + 1, Len(s)) = SubSeq(s, 1, Len(s))
    <3>1. 1 \in 1 .. Len(s) + 1 /\ n \in 1 - 1 .. Len(s) /\ Len(s) \in n .. Len(s)
      BY <1>1
    <3> QED
      BY <3>1, ConcatAdjacentSubSeq
  <2> QED
    BY <2>1, SubSeqFull
<1>3. SubSeq(s, 1, n) \in Seq(Words) /\ SubSeq(s, n + 1, Len(s)) \in Seq(Words)
  <2>1. SubSeq(s, 0 + 1, 0 + n) \in Seq(Words)
    BY <1>1, Slice
  <2>2. SubSeq(s, n + 1, n + (Len(s) - n)) \in Seq(Words)
    <3>1. Len(s) - n \in Nat /\ n + (Len(s) - n) <= Len(s)
      BY <1>1
    <3> QED
      BY <1>1, <3>1, Slice
  <2>3. 0 + 1 = 1 /\ 0 + n = n /\ n + (Len(s) - n) = Len(s)
    BY <1>1
  <2> QED
    BY <2>1, <2>2, <2>3
<1> DEFINE a == SubSeq(s, 1, n)
           b == SubSeq(s, n + 1, Len(s))
<1>4. a \in Seq(Words) /\ b \in Seq(Words)
  BY <1>3
<1> HIDE DEF a, b
<1>5. \A x, y, z \in Seq(Words) : (x \o y) \o z = x \o (y \o z)
  BY ConcatAssociative
<1>6. (got \o a) \o b = got \o (a \o b)
  BY <1>4, <1>5
<1> QED
  BY <1>2, <1>6 DEF a, b

(* The reader has filled a buffer, of the size of the next of the writer.  *)
LEMMA FlowFilled ==
  ASSUME NEW B \in Seq(Seq(Words)), NEW F \in Seq(Seq(Words)), NEW left \in Nat,
         NEW g \in Seq(Words), NEW rest \in Seq(Words), Len(g) > 0,
         Len(F) < Len(B) => Len(B[Len(F) + 1]) = Len(g),
         Flow(B, F, g \o rest, left)
  PROVE  /\ Len(F) < Len(B) /\ g = B[Len(F) + 1]
         /\ Flow(B, Append(F, g), << >> \o rest, left)
<1> DEFINE T == g \o rest
           k == Len(F)
<1>1. PICK all \in Seq(Words) : \E ends \in [0 .. Len(B) -> 0 .. Len(all)] :
        Stretch(all, ends, B) /\ OnTheWay(T, all, ends[k], left)
  BY DEF Flow
<1>2. PICK ends \in [0 .. Len(B) -> 0 .. Len(all)] :
        Stretch(all, ends, B) /\ OnTheWay(T, all, ends[k], left)
  BY <1>1
<1>3. /\ Len(B) \in Nat /\ k \in Nat /\ k <= Len(B) /\ Len(all) \in Nat
      /\ Len(g) \in Nat /\ Len(rest) \in Nat
      /\ \A i \in 1 .. k : F[i] = B[i]
  BY LenProperties DEF Flow, PrefixOf
<1>4. /\ Len(T) = Len(g) + Len(rest)
      /\ \A j \in 1 .. Len(g) : T[j] = g[j]
      /\ \A j \in 1 .. Len(rest) : T[Len(g) + j] = rest[j]
  BY Joined
<1>5. /\ Len(T) = Len(all) - ends[k] - left
      /\ \A j \in 1 .. Len(T) : T[j] = all[ends[k] + j]
  BY <1>2 DEF OnTheWay
<1> HIDE DEF T
<1>6. \A i \in 0 .. Len(B) : ends[i] \in 0 .. Len(all)
  OBVIOUS
<1>7. k < Len(B)
  <2>1. ends[Len(B)] = Len(all)
    BY <1>2 DEF Stretch
  <2>2. k = Len(B) => Len(T) = 0 - left
    BY <1>3, <1>5, <2>1
  <2>3. Len(T) > 0
    BY <1>3, <1>4
  <2> QED
    BY <1>3, <2>2, <2>3
<1>8. /\ k + 1 \in 1 .. Len(B) /\ k \in 0 .. Len(B) /\ k + 1 \in 0 .. Len(B)
      /\ k + 1 - 1 = k
  BY <1>3, <1>7
<1>9. /\ ends[k + 1] = ends[k] + Len(g) /\ ends[k] \in Nat /\ Len(B[k + 1]) = Len(g)
      /\ \A j \in 1 .. Len(g) : all[ends[k] + j] = B[k + 1][j]
  <2>1. Len(B[k + 1]) = Len(g)
    BY <1>7
  <2>2. /\ ends[k + 1] = ends[k + 1 - 1] + Len(B[k + 1])
        /\ \A j \in 1 .. Len(B[k + 1]) : all[ends[k + 1 - 1] + j] = B[k + 1][j]
    BY <1>2, <1>8 DEF Stretch
  <2>3. ends[k] \in Nat
    BY <1>3, <1>6, <1>8
  <2> QED
    BY <1>8, <2>1, <2>2, <2>3
<1>10. g = B[k + 1]
  <2>1. B[k + 1] \in Seq(Words)
    BY <1>8, ElementOfSeq
  <2>2. \A j \in 1 .. Len(g) : j \in 1 .. Len(T)
    BY <1>3, <1>4
  <2>3. \A j \in 1 .. Len(g) : g[j] = B[k + 1][j]
    BY <1>4, <1>5, <1>9, <2>2
  <2> QED
    BY <1>9, <2>1, <2>3, SeqEqual
<1> DEFINE G == Append(F, g)
<1>11. /\ G \in Seq(Seq(Words)) /\ Len(G) = k + 1 /\ G[k + 1] = g
       /\ \A i \in 1 .. k : G[i] = F[i]
  BY AppendProperties
<1> HIDE DEF G
<1>12. PrefixOf(G, B)
  <2>1. \A i \in 1 .. k + 1 : i \in 1 .. k \/ i = k + 1
    BY <1>3
  <2>2. \A i \in 1 .. k + 1 : G[i] = B[i]
    BY <1>3, <1>10, <1>11, <2>1
  <2> QED
    BY <1>3, <1>7, <1>11, <2>2 DEF PrefixOf
<1>13. OnTheWay(rest, all, ends[k + 1], left)
  <2>1. Len(rest) = Len(all) - ends[k + 1] - left
    BY <1>3, <1>4, <1>5, <1>9, SMTT(60)
  <2>2. ASSUME NEW j \in 1 .. Len(rest) PROVE rest[j] = all[ends[k + 1] + j]
    <3>1. Len(g) + j \in 1 .. Len(T) /\ ends[k] + (Len(g) + j) = ends[k + 1] + j
      BY <1>3, <1>4, <1>9
    <3> QED
      BY <1>4, <1>5, <3>1
  <2> QED
    BY <2>1, <2>2 DEF OnTheWay
<1>14. << >> \o rest = rest
  BY ConcatEmptySeq
<1>15. Flow(B, G, rest, left)
  BY <1>2, <1>11, <1>12, <1>13 DEF Flow
<1> QED
  BY <1>7, <1>10, <1>14, <1>15 DEF G
-----------------------------------------------------------------------------
(* The words that an end still has are those of its last buffer, or of the *)
(* last two: then the older one is served first unless it is half sent,    *)
(* when to serve the newer one would mix them.                             *)
Total(W, M) == Left(W["validation"], M["validation"]) + Left(W["message"], M["message"])

Pending(B, W, M, q) ==
  \/ \A w \in Writes : Left(W[w], M[w]) = 0
  \/ \E x \in Writes :
       /\ Left(W[x], M[x]) > 0 /\ \A o \in Writes \ {x} : Left(W[o], M[o]) = 0
       /\ B # << >> /\ B[Len(B)] = W[x].data
  \/ \E x, y \in Writes :
       /\ x # y /\ Left(W[x], M[x]) > 0
       /\ W[y].data # << >> /\ Left(W[y], M[y]) = Len(W[y].data)
       /\ Len(B) >= 2 /\ B[Len(B) - 1] = W[x].data /\ B[Len(B)] = W[y].data
       /\ Left(W[x], M[x]) = Len(W[x].data) => q = <<x, y>>

WritesAre(B, W, M, q) ==
  /\ W \in [Writes -> Operations] /\ M \in [Writes -> Nat]
  /\ q \in Orders /\ B \in Seq(Seq(Words))
  /\ \A w \in Writes : WriteIs(w, W[w], M[w], q, B)

LEMMA TwoWrites ==
  ASSUME NEW x \in Writes, NEW y \in Writes, x # y
  PROVE  /\ \A w \in Writes : w = x \/ w = y
         /\ \A W, M : (/\ Left(W[x], M[x]) \in Int /\ Left(W[y], M[y]) \in Int)
                        => Total(W, M) = Left(W[x], M[x]) + Left(W[y], M[y])
BY DEF Writes, Total

LEMMA OtherWrite == \A w \in Writes : \E o \in Writes : o # w
BY DEF Writes

LEMMA LeftTyped ==
  ASSUME NEW B, NEW W, NEW M, NEW q, WritesAre(B, W, M, q), NEW w \in Writes
  PROVE  /\ Left(W[w], M[w]) \in Nat /\ Left(W[w], M[w]) <= Len(W[w].data)
         /\ Len(W[w].data) \in Nat /\ W[w].data \in Seq(Words)
         /\ W[w].done \in Nat /\ M[w] \in Nat
         /\ Left(W[w], M[w]) = Len(W[w].data) - W[w].done - M[w]
         /\ Left(W[w], M[w]) > 0 => W[w].kind # "none"
<1>1. /\ W[w] \in Operations /\ M[w] \in Nat /\ WriteIs(w, W[w], M[w], q, B)
  BY DEF WritesAre
<1>2. W[w].data \in Seq(Words) /\ W[w].done \in Nat /\ Len(W[w].data) \in Nat
  BY <1>1, LenProperties DEF Operations
<1>3. Left(W[w], M[w]) = Len(W[w].data) - W[w].done - M[w] /\ Left(W[w], M[w]) >= 0
  BY <1>1 DEF Left, WriteIs
<1>4. W[w].kind = "none" => Left(W[w], M[w]) = 0
  BY <1>1 DEF WriteIs, Left, Idle
<1> QED
  BY <1>1, <1>2, <1>3, <1>4

LEMMA OneThenOther ==
  ASSUME NEW q \in Orders, NEW x \in Writes, NEW y \in Writes, x # y,
         Asks(q, x), ~Asks(q, y)
  PROVE  Append(q, y) = <<x, y>>
<1>1. q = <<x>>
  BY TwoWrites DEF Orders, Asks, Writes
<1> DEFINE a == Append(q, y)
<1>2. a \in Orders /\ Asks(a, x) /\ Asks(a, y)
  BY RequestAdded
<1>3. a[1] = x
  <2>1. q \in Seq(Writes) /\ Len(q) = 1 /\ q[1] = x
    BY <1>1
  <2> QED
    BY <2>1, AppendProperties
<1> HIDE DEF a
<1>4. a = <<x, y>>
  BY <1>2, <1>3 DEF Orders, Asks, Writes
<1> QED
  BY <1>4 DEF a

LEMMA PendingBegun ==
  ASSUME NEW B, NEW W, NEW M, NEW q, WritesAre(B, W, M, q), Pending(B, W, M, q),
         NEW w \in Writes, NEW d \in Operations, d.data # << >>, d.done = 0,
         Left(W[w], M[w]) = 0, ~Asks(q, w)
  PROVE  LET V == [W EXCEPT ![w] = d]
             N == [M EXCEPT ![w] = 0]
         IN  /\ Pending(Append(B, d.data), V, N, Append(q, w))
             /\ Total(V, N) = Total(W, M) + Len(d.data)
             /\ Total(W, M) \in Nat
<1> DEFINE V == [W EXCEPT ![w] = d]
           N == [M EXCEPT ![w] = 0]
           C == Append(B, d.data)
<1>1. PICK o \in Writes : o # w
  BY OtherWrite
<1>2. V[w] = d /\ N[w] = 0 /\ V[o] = W[o] /\ N[o] = M[o]
  BY <1>1 DEF WritesAre
<1> HIDE DEF V, N
<1>3. /\ d.data \in Seq(Words) /\ Len(d.data) \in Nat /\ Len(d.data) > 0
      /\ Left(d, 0) = Len(d.data)
  <2>1. d.data \in Seq(Words)
    BY DEF Operations
  <2>2. Len(d.data) \in Nat /\ Len(d.data) # 0
    BY <2>1, EmptySeq, LenProperties
  <2> QED
    BY <2>1, <2>2 DEF Left
<1>4. /\ Left(V[w], N[w]) = Len(d.data) /\ Left(V[o], N[o]) = Left(W[o], M[o])
      /\ Left(W[o], M[o]) \in Nat
  BY <1>2, <1>3, LeftTyped
<1>5. \A v \in Writes : v = o \/ v = w
  BY <1>1, TwoWrites
<1>6. Total(V, N) = Total(W, M) + Len(d.data) /\ Total(W, M) \in Nat
  <2>1. Total(W, M) = 0 + Left(W[o], M[o])
    BY <1>1, <1>4, TwoWrites
  <2>2. Total(V, N) = Len(d.data) + Left(W[o], M[o])
    BY <1>1, <1>3, <1>4, TwoWrites
  <2> QED
    BY <1>3, <1>4, <2>1, <2>2
<1>7. /\ C \in Seq(Seq(Words)) /\ Len(C) = Len(B) + 1 /\ C[Len(B) + 1] = d.data
      /\ \A i \in 1 .. Len(B) : C[i] = B[i]
      /\ Len(B) \in Nat
  BY <1>3, AppendProperties, LenProperties DEF WritesAre
<1>8. C # << >>
  BY <1>7, EmptySeq
<1> HIDE DEF C
<1>9. CASE Left(W[o], M[o]) = 0
  <2>1. /\ Left(V[w], N[w]) > 0 /\ \A v \in Writes \ {w} : Left(V[v], N[v]) = 0
        /\ C[Len(C)] = V[w].data
    BY <1>2, <1>3, <1>4, <1>5, <1>7, <1>9
  <2>2. Pending(C, V, N, Append(q, w))
    BY <1>8, <2>1 DEF Pending
  <2> QED
    BY <1>6, <2>2 DEF C, V, N
<1>10. CASE Left(W[o], M[o]) > 0
  <2>1. B # << >> /\ B[Len(B)] = W[o].data
    <3>1. ~ \A v \in Writes : Left(W[v], M[v]) = 0
      BY <1>10
    <3>2. ASSUME NEW x \in Writes, NEW y \in Writes, x # y,
                 Left(W[x], M[x]) > 0, W[y].data # << >>,
                 Left(W[y], M[y]) = Len(W[y].data)
          PROVE  FALSE
      <4>1. Left(W[y], M[y]) # 0
        BY <3>2, LeftTyped, EmptySeq
      <4>2. w = x \/ w = y
        BY <3>2, TwoWrites
      <4> QED
        BY <3>2, <4>1, <4>2
    <3>3. PICK x \in Writes : /\ Left(W[x], M[x]) > 0
                              /\ B # << >> /\ B[Len(B)] = W[x].data
      BY <3>1, <3>2 DEF Pending
    <3>4. x = o
      BY <1>5, <3>3
    <3> QED
      BY <3>3, <3>4
  <2>2. Len(B) > 0
    BY <1>7, <2>1, EmptySeq DEF WritesAre
  <2>3. Len(C) >= 2 /\ C[Len(C) - 1] = V[o].data /\ C[Len(C)] = V[w].data
    <3>1. Len(C) - 1 = Len(B) /\ Len(B) \in 1 .. Len(B) /\ Len(C) = Len(B) + 1
          /\ Len(C) >= 2
      BY <1>7, <2>2
    <3> QED
      BY <1>2, <1>7, <2>1, <3>1
  <2>4. Left(V[o], N[o]) = Len(V[o].data) => Append(q, w) = <<o, w>>
    <3> SUFFICES ASSUME Left(W[o], M[o]) = Len(W[o].data) PROVE Append(q, w) = <<o, w>>
      BY <1>2
    <3>1. M[o] = 0 /\ W[o].kind # "none"
      <4>1. /\ Len(W[o].data) = Len(W[o].data) - W[o].done - M[o]
            /\ Len(W[o].data) \in Nat /\ W[o].done \in Nat /\ M[o] \in Nat
            /\ W[o].kind # "none"
        BY <1>10, LeftTyped
      <4> QED
        BY <4>1
    <3>2. Asks(q, o) /\ q \in Orders
      BY <3>1 DEF WritesAre, WriteIs
    <3> QED
      BY <1>1, <3>2, OneThenOther
  <2>5. o # w /\ Left(V[o], N[o]) > 0 /\ V[w].data # << >>
        /\ Left(V[w], N[w]) = Len(V[w].data)
    BY <1>1, <1>2, <1>4, <1>10
  <2>6. Pending(C, V, N, Append(q, w))
    BY <2>3, <2>4, <2>5 DEF Pending
  <2> QED
    BY <1>6, <2>6 DEF C, V, N
<1> QED
  BY <1>4, <1>9, <1>10

LEMMA PendingMoved ==
  ASSUME NEW B, NEW W, NEW M, NEW q, WritesAre(B, W, M, q), Pending(B, W, M, q),
         q # << >>, NEW w \in Writes, w = Head(q), NEW n \in Nat, n > 0,
         M[w] = 0, n <= Left(W[w], 0),
         \A o \in Writes \ {w} : Left(W[o], M[o]) \notin 1 .. Len(W[o].data) - 1
  PROVE  LET N == [M EXCEPT ![w] = n]
         IN  /\ Pending(B, W, N, Tail(q))
             /\ Total(W, N) = Total(W, M) - n
             /\ \E i \in 1 .. Len(B), rest \in Nat :
                  /\ B[i] = W[w].data
                  /\ \/ i = Len(B) /\ rest = 0
                     \/ i = Len(B) - 1 /\ rest = Len(B[Len(B)])
                  /\ Total(W, M) = Len(B[i]) - W[w].done + rest
<1> DEFINE N == [M EXCEPT ![w] = n]
           L(v) == Left(W[v], M[v])
           K(v) == Left(W[v], N[v])
<1>1. PICK o \in Writes : o # w
  BY OtherWrite
<1>2. N[w] = n /\ N[o] = M[o]
  BY <1>1 DEF WritesAre
<1> HIDE DEF N
<1>3. /\ L(w) \in Nat /\ L(o) \in Nat /\ L(o) <= Len(W[o].data) /\ L(w) > 0
      /\ L(w) = Len(W[w].data) - W[w].done /\ W[w].done \in Nat /\ n <= L(w)
      /\ Len(W[w].data) \in Nat /\ Len(W[o].data) \in Nat
  BY LeftTyped
<1>4. K(o) = L(o) /\ K(w) = L(w) - n
  BY <1>2, <1>3 DEF Left
<1>5. \A v \in Writes : v = o \/ v = w
  BY <1>1, TwoWrites
<1>6. Total(W, M) = L(w) + L(o)
  BY <1>1, <1>3, TwoWrites
<1>7. Total(W, N) = K(w) + K(o)
  <2>1. K(w) \in Int /\ K(o) \in Int
    BY <1>3, <1>4
  <2> QED
    BY <1>1, <2>1, TwoWrites
<1>8. Len(B) \in Nat /\ (B # << >> => Len(B) > 0)
  BY EmptySeq, LenProperties DEF WritesAre
<1>9. L(o) = 0 \/ L(o) = Len(W[o].data)
  <2>1. L(o) \notin 1 .. Len(W[o].data) - 1
    BY <1>1
  <2> QED
    BY <1>3, <2>1
<1>10. CASE \E x \in Writes :
              /\ L(x) > 0 /\ \A v \in Writes \ {x} : L(v) = 0
              /\ B # << >> /\ B[Len(B)] = W[x].data
  <2>1. /\ L(o) = 0 /\ B # << >> /\ B[Len(B)] = W[w].data
    <3>1. PICK x \in Writes : /\ \A v \in Writes \ {x} : L(v) = 0
                              /\ B # << >> /\ B[Len(B)] = W[x].data
      BY <1>10
    <3>2. x = w
      BY <1>3, <3>1
    <3> QED
      BY <1>1, <3>1, <3>2
  <2>2. Pending(B, W, N, Tail(q))
    <3>1. CASE K(w) = 0
      BY <1>4, <1>5, <2>1, <3>1 DEF Pending
    <3>2. CASE K(w) > 0
      <4>1. \A v \in Writes \ {w} : K(v) = 0
        BY <1>4, <1>5, <2>1
      <4> QED
        BY <2>1, <3>2, <4>1 DEF Pending
    <3> QED
      BY <1>3, <1>4, <3>1, <3>2
  <2>3. Len(B) \in 1 .. Len(B) /\ 0 \in Nat
    BY <1>8, <2>1
  <2>4. Total(W, M) = Len(B[Len(B)]) - W[w].done + 0
    BY <1>3, <1>6, <2>1
  <2>5. Total(W, N) = Total(W, M) - n
    BY <1>3, <1>4, <1>6, <1>7
  <2> QED
    BY <2>1, <2>2, <2>3, <2>4, <2>5 DEF N
<1>11. CASE \E x, y \in Writes :
              /\ x # y /\ L(x) > 0 /\ W[y].data # << >> /\ L(y) = Len(W[y].data)
              /\ Len(B) >= 2 /\ B[Len(B) - 1] = W[x].data /\ B[Len(B)] = W[y].data
              /\ L(x) = Len(W[x].data) => q = <<x, y>>
  <2>1. PICK x \in Writes, y \in Writes :
              /\ x # y /\ L(x) > 0 /\ W[y].data # << >> /\ L(y) = Len(W[y].data)
              /\ Len(B) >= 2 /\ B[Len(B) - 1] = W[x].data /\ B[Len(B)] = W[y].data
              /\ L(x) = Len(W[x].data) => q = <<x, y>>
    BY <1>11
  <2>2. x = w /\ y = o
    <3>1. CASE x = o
      <4>1. q = <<x, y>>
        BY <1>3, <1>9, <2>1, <3>1
      <4>2. Head(q) = x
        BY <4>1
      <4> QED
        BY <1>1, <3>1, <4>2
    <3> QED
      BY <1>5, <2>1, <3>1
  <2>3. L(o) > 0
    BY <1>3, <2>1, <2>2, EmptySeq, LeftTyped
  <2>4. Pending(B, W, N, Tail(q))
    <3>1. CASE K(w) = 0
      <4>1. /\ K(o) > 0 /\ \A v \in Writes \ {o} : K(v) = 0
            /\ B # << >> /\ B[Len(B)] = W[o].data
        BY <1>4, <1>5, <1>8, <2>1, <2>2, <2>3, <3>1, EmptySeq
      <4> QED
        BY <4>1 DEF Pending
    <3>2. CASE K(w) > 0
      <4>1. /\ w # o /\ K(o) = Len(W[o].data) /\ W[o].data # << >>
            /\ Len(B) >= 2 /\ B[Len(B) - 1] = W[w].data /\ B[Len(B)] = W[o].data
        BY <1>4, <2>1, <2>2
      <4>2. K(w) # Len(W[w].data)
        BY <1>3, <1>4
      <4> QED
        BY <3>2, <4>1, <4>2 DEF Pending
    <3> QED
      BY <1>3, <1>4, <3>1, <3>2
  <2>5. Len(B) - 1 \in 1 .. Len(B) /\ Len(W[o].data) \in Nat
    BY <1>3, <1>8, <2>1
  <2>6. /\ B[Len(B) - 1] = W[w].data
        /\ Len(W[o].data) = Len(B[Len(B)])
        /\ Total(W, M) = Len(B[Len(B) - 1]) - W[w].done + Len(W[o].data)
    BY <1>3, <1>6, <2>1, <2>2
  <2>7. Total(W, N) = Total(W, M) - n
    BY <1>3, <1>4, <1>6, <1>7
  <2> QED
    BY <2>4, <2>5, <2>6, <2>7 DEF N
<1>12. ~ \A v \in Writes : L(v) = 0
  BY <1>3
<1> QED
  BY <1>10, <1>11, <1>12 DEF Pending

LEMMA PendingContinues ==
  ASSUME NEW B, NEW W, NEW M, NEW q, WritesAre(B, W, M, q), Pending(B, W, M, q),
         NEW w \in Writes, M[w] > 0
  PROVE  LET V == [W EXCEPT ![w].done = @ + M[w]]
             N == [M EXCEPT ![w] = 0]
         IN  Pending(B, V, N, Append(q, w)) /\ Total(V, N) = Total(W, M)
<1> DEFINE V == [W EXCEPT ![w].done = @ + M[w]]
           N == [M EXCEPT ![w] = 0]
<1>1. /\ W[w] \in Operations /\ W[w].done \in Nat /\ M[w] \in Nat
      /\ V[w].data = W[w].data /\ V[w].done = W[w].done + M[w] /\ N[w] = 0
      /\ \A v \in Writes \ {w} : V[v] = W[v] /\ N[v] = M[v]
  BY DEF WritesAre, Operations
<1> HIDE DEF V, N
<1>2. \A v \in Writes : /\ Left(W[v], M[v]) \in Nat /\ Len(W[v].data) \in Nat
                         /\ Left(W[v], M[v]) = Len(W[v].data) - W[v].done - M[v]
  BY LeftTyped
<1>3. \A v \in Writes : Left(V[v], N[v]) = Left(W[v], M[v]) /\ V[v].data = W[v].data
  <2>1. Left(V[w], N[w]) = Len(W[w].data) - (W[w].done + M[w]) - 0
    BY <1>1 DEF Left
  <2>2. Left(V[w], N[w]) = Left(W[w], M[w])
    BY <1>1, <1>2, <2>1
  <2> QED
    BY <1>1, <2>2
<1>4. Left(W[w], M[w]) # Len(W[w].data)
  BY <1>1, <1>2
<1>5. ASSUME NEW x \in Writes, NEW y \in Writes, x # y,
             Left(W[x], M[x]) = Len(W[x].data), Left(W[y], M[y]) = Len(W[y].data)
      PROVE  FALSE
  BY <1>4, <1>5, TwoWrites
<1>6. Pending(B, V, N, Append(q, w))
  <2>1. CASE \A v \in Writes : Left(W[v], M[v]) = 0
    BY <1>3, <2>1 DEF Pending
  <2>2. CASE \E x \in Writes :
               /\ Left(W[x], M[x]) > 0 /\ \A o \in Writes \ {x} : Left(W[o], M[o]) = 0
               /\ B # << >> /\ B[Len(B)] = W[x].data
    <3>1. \E x \in Writes :
            /\ Left(V[x], N[x]) > 0 /\ \A o \in Writes \ {x} : Left(V[o], N[o]) = 0
            /\ B # << >> /\ B[Len(B)] = V[x].data
      BY <1>3, <2>2
    <3> QED
      BY <3>1 DEF Pending
  <2>3. CASE \E x, y \in Writes :
               /\ x # y /\ Left(W[x], M[x]) > 0
               /\ W[y].data # << >> /\ Left(W[y], M[y]) = Len(W[y].data)
               /\ Len(B) >= 2 /\ B[Len(B) - 1] = W[x].data /\ B[Len(B)] = W[y].data
    <3>1. PICK x \in Writes, y \in Writes :
            /\ x # y /\ Left(W[x], M[x]) > 0
            /\ W[y].data # << >> /\ Left(W[y], M[y]) = Len(W[y].data)
            /\ Len(B) >= 2 /\ B[Len(B) - 1] = W[x].data /\ B[Len(B)] = W[y].data
      BY <2>3
    <3>2. Left(V[x], N[x]) # Len(V[x].data)
      BY <1>3, <1>5, <3>1
    <3>3. /\ Left(V[x], N[x]) > 0 /\ V[y].data # << >>
          /\ Left(V[y], N[y]) = Len(V[y].data)
          /\ B[Len(B) - 1] = V[x].data /\ B[Len(B)] = V[y].data
      BY <1>3, <3>1
    <3> QED
      BY <3>1, <3>2, <3>3 DEF Pending
  <2> QED
    BY <2>1, <2>2, <2>3 DEF Pending
<1>7. Total(V, N) = Total(W, M)
  BY <1>3 DEF Total, Writes
<1> QED
  BY <1>6, <1>7 DEF V, N

LEMMA PendingFinished ==
  ASSUME NEW B, NEW W, NEW M, NEW q, WritesAre(B, W, M, q), Pending(B, W, M, q),
         NEW w \in Writes, Left(W[w], M[w]) = 0
  PROVE  LET V == [W EXCEPT ![w] = Idle]
             N == [M EXCEPT ![w] = 0]
         IN  Pending(B, V, N, q) /\ Total(V, N) = Total(W, M)
<1> DEFINE V == [W EXCEPT ![w] = Idle]
           N == [M EXCEPT ![w] = 0]
<1>1. /\ V[w] = Idle /\ N[w] = 0
      /\ \A v \in Writes \ {w} : V[v] = W[v] /\ N[v] = M[v]
  BY DEF WritesAre
<1> HIDE DEF V, N
<1>2. \A v \in Writes : Left(V[v], N[v]) = Left(W[v], M[v])
  <2>1. Left(Idle, 0) = 0
    BY DEF Left, Idle
  <2> QED
    BY <1>1, <2>1
<1>3. Pending(B, V, N, q)
  <2>1. CASE \A v \in Writes : Left(W[v], M[v]) = 0
    BY <1>2, <2>1 DEF Pending
  <2>2. CASE \E x \in Writes :
               /\ Left(W[x], M[x]) > 0 /\ \A o \in Writes \ {x} : Left(W[o], M[o]) = 0
               /\ B # << >> /\ B[Len(B)] = W[x].data
    <3>1. \E x \in Writes :
            /\ Left(V[x], N[x]) > 0 /\ \A o \in Writes \ {x} : Left(V[o], N[o]) = 0
            /\ B # << >> /\ B[Len(B)] = V[x].data
      BY <1>1, <1>2, <2>2
    <3> QED
      BY <3>1 DEF Pending
  <2>3. ASSUME NEW x \in Writes, NEW y \in Writes, x # y,
               Left(W[x], M[x]) > 0, W[y].data # << >>,
               Left(W[y], M[y]) = Len(W[y].data)
        PROVE  FALSE
    <3>1. Left(W[y], M[y]) # 0
      BY <2>3, LeftTyped, EmptySeq
    <3>2. w = x \/ w = y
      BY <2>3, TwoWrites
    <3> QED
      BY <2>3, <3>1, <3>2
  <2> QED
    BY <2>1, <2>2, <2>3 DEF Pending
<1>4. Total(V, N) = Total(W, M)
  BY <1>2 DEF Total, Writes
<1> QED
  BY <1>3, <1>4 DEF V, N
-----------------------------------------------------------------------------
(* The stream from an end to its peer, and what each operation does to it. *)
Taken(e) == reading[e].got \o stream[e]

Flows(e) ==
  /\ Flow(begun[e], filled[Peer(e)], Taken(Peer(e)), Total(writing[e], moved[e]))
  /\ Pending(begun[e], writing[e], moved[e], requests[e])

WriterSame(e) == /\ writing'[e] = writing[e] /\ requests'[e] = requests[e]
                 /\ moved'[e] = moved[e] /\ begun'[e] = begun[e]

ReaderSame(e) == filled'[e] = filled[e] /\ Taken(e)' = Taken(e)

LEMMA FlowTyped ==
  ASSUME Typed, NEW e \in Ends
  PROVE  /\ WritesAre(begun[e], writing[e], moved[e], requests[e])
         /\ begun[e] \in Seq(Seq(Words)) /\ filled[Peer(e)] \in Seq(Seq(Words))
         /\ Taken(Peer(e)) \in Seq(Words)
<1>1. WritesAre(begun[e], writing[e], moved[e], requests[e])
  BY DEF Typed, WritesTyped, WriteTrue, WritesAre
<1>2. begun[e] \in Seq(Seq(Words)) /\ filled[Peer(e)] \in Seq(Seq(Words))
  BY PeerOf DEF Typed, WritesTyped, ReadsTyped
<1>3. reading[Peer(e)].got \in Seq(Words) /\ stream[Peer(e)] \in Seq(Words)
  BY PeerOf DEF Typed, ReadsTyped, Reads
<1>4. Taken(Peer(e)) \in Seq(Words)
  BY <1>3, Joined DEF Taken
<1> QED
  BY <1>1, <1>2, <1>4

LEMMA FlowsSame ==
  ASSUME NEW e \in Ends, Flows(e), WriterSame(e), ReaderSame(Peer(e))
  PROVE  Flows(e)'
<1>1. Flow(begun'[e], filled'[Peer(e)], Taken(Peer(e))', Total(writing'[e], moved'[e]))
  BY DEF Flows, WriterSame, ReaderSame
<1>2. Pending(begun'[e], writing'[e], moved'[e], requests'[e])
  BY DEF Flows, WriterSame
<1> QED
  BY <1>1, <1>2 DEF Flows

LEMMA BeginFlows ==
  ASSUME Typed, NEW e \in Ends, Flows(e), NEW w \in Writes, NEW d \in Operations,
         d.data # << >>, d.done = 0,
         Left(writing[e][w], moved[e][w]) = 0, ~Asks(requests[e], w),
         Begin(e, w, d), moved' = [moved EXCEPT ![e][w] = 0], ReaderSame(Peer(e))
  PROVE  Flows(e)'
<1>1. /\ writing'[e] = [writing[e] EXCEPT ![w] = d]
      /\ moved'[e] = [moved[e] EXCEPT ![w] = 0]
      /\ requests'[e] = Append(requests[e], w)
      /\ begun'[e] = Append(begun[e], d.data)
  BY DEF Begin, Typed, WritesTyped
<1>2. /\ WritesAre(begun[e], writing[e], moved[e], requests[e])
      /\ begun[e] \in Seq(Seq(Words)) /\ filled[Peer(e)] \in Seq(Seq(Words))
      /\ Taken(Peer(e)) \in Seq(Words) /\ d.data \in Seq(Words)
  BY FlowTyped DEF Operations
<1>3. /\ Pending(begun'[e], writing'[e], moved'[e], requests'[e])
      /\ Total(writing'[e], moved'[e]) = Total(writing[e], moved[e]) + Len(d.data)
      /\ Total(writing[e], moved[e]) \in Nat
  <2> DEFINE B == begun[e]
             W == writing[e]
             M == moved[e]
             q == requests[e]
  <2>1. /\ WritesAre(B, W, M, q) /\ Pending(B, W, M, q)
        /\ Left(W[w], M[w]) = 0 /\ ~Asks(q, w)
    BY <1>2 DEF Flows
  <2> HIDE DEF B, W, M, q
  <2>2. /\ Pending(Append(B, d.data), [W EXCEPT ![w] = d], [M EXCEPT ![w] = 0], Append(q, w))
        /\ Total([W EXCEPT ![w] = d], [M EXCEPT ![w] = 0]) = Total(W, M) + Len(d.data)
        /\ Total(W, M) \in Nat
    BY <2>1, PendingBegun
  <2> QED
    BY <1>1, <2>2 DEF B, W, M, q
<1>4. Flow(Append(begun[e], d.data), filled[Peer(e)], Taken(Peer(e)),
           Total(writing[e], moved[e]) + Len(d.data))
  BY <1>2, <1>3, FlowBegun DEF Flows
<1>5. Flow(begun'[e], filled'[Peer(e)], Taken(Peer(e))', Total(writing'[e], moved'[e]))
  BY <1>1, <1>3, <1>4 DEF ReaderSame
<1> QED
  BY <1>3, <1>5 DEF Flows

LEMMA FinishFlows ==
  ASSUME Typed, NEW e \in Ends, Flows(e), NEW w \in Writes,
         Left(writing[e][w], moved[e][w]) = 0,
         Finish(e, w), moved' = [moved EXCEPT ![e][w] = 0], ReaderSame(Peer(e))
  PROVE  Flows(e)'
<1>1. /\ writing'[e] = [writing[e] EXCEPT ![w] = Idle]
      /\ moved'[e] = [moved[e] EXCEPT ![w] = 0]
      /\ requests'[e] = requests[e] /\ begun'[e] = begun[e]
  BY DEF Finish, Typed, WritesTyped
<1>2. WritesAre(begun[e], writing[e], moved[e], requests[e])
  BY FlowTyped
<1>3. /\ Pending(begun[e], writing'[e], moved'[e], requests[e])
      /\ Total(writing'[e], moved'[e]) = Total(writing[e], moved[e])
  BY <1>1, <1>2, PendingFinished DEF Flows
<1>4. Flow(begun'[e], filled'[Peer(e)], Taken(Peer(e))', Total(writing'[e], moved'[e]))
  BY <1>1, <1>3 DEF ReaderSame, Flows
<1>5. Pending(begun'[e], writing'[e], moved'[e], requests'[e])
  BY <1>1, <1>3
<1> QED
  BY <1>4, <1>5 DEF Flows

LEMMA ContinueFlows ==
  ASSUME Typed, NEW e \in Ends, Flows(e), NEW w \in Writes, WriteContinues(e, w)
  PROVE  Flows(e)'
<1>1. /\ writing'[e] = [writing[e] EXCEPT ![w].done = @ + moved[e][w]]
      /\ moved'[e] = [moved[e] EXCEPT ![w] = 0]
      /\ requests'[e] = Append(requests[e], w) /\ begun'[e] = begun[e]
      /\ moved[e][w] > 0
  BY DEF WriteContinues, WriteSome, Typed, WritesTyped
<1>2. WritesAre(begun[e], writing[e], moved[e], requests[e])
  BY FlowTyped
<1>3. /\ Pending(begun[e], writing'[e], moved'[e], Append(requests[e], w))
      /\ Total(writing'[e], moved'[e]) = Total(writing[e], moved[e])
  BY <1>1, <1>2, PendingContinues DEF Flows
<1>4. filled' = filled /\ Taken(Peer(e))' = Taken(Peer(e))
  BY DEF WriteContinues, inputs, Taken
<1>5. Flow(begun'[e], filled'[Peer(e)], Taken(Peer(e))', Total(writing'[e], moved'[e]))
  BY <1>1, <1>3, <1>4 DEF Flows
<1>6. Pending(begun'[e], writing'[e], moved'[e], requests'[e])
  BY <1>1, <1>3
<1> QED
  BY <1>5, <1>6 DEF Flows

LEMMA TransferFlows ==
  ASSUME Typed, NEW e \in Ends, Flows(e), Transfer(e), mixed' = {}
  PROVE  Flows(e)'
<1> DEFINE r == Peer(e)
<1>1. PICK w \in Writes, n \in Nat :
        LET x == writing[e][w]
        IN  /\ ~broken /\ requests[e] # << >> /\ w = Head(requests[e])
            /\ n > 0 /\ moved[e][w] = 0 /\ x.kind # "none" /\ n <= Left(x, 0)
            /\ stream' = [stream EXCEPT ![Peer(e)] =
                 stream[Peer(e)] \o SubSeq(x.data, x.done + 1, x.done + n)]
            /\ moved' = [moved EXCEPT ![e][w] = n]
            /\ mixed' = mixed \cup {y \in {e} : \E o \in Writes \ {w} : HalfSent(e, o)}
            /\ requests' = [requests EXCEPT ![e] = Tail(requests[e])]
            /\ writing' = writing /\ begun' = begun
  BY TransferIs DEF Typed
<1> DEFINE x == writing[e][w]
           part == SubSeq(x.data, x.done + 1, x.done + n)
<1>2. /\ WritesAre(begun[e], writing[e], moved[e], requests[e])
      /\ begun[e] \in Seq(Seq(Words)) /\ filled[r] \in Seq(Seq(Words))
      /\ Taken(r) \in Seq(Words)
  BY FlowTyped
<1>3. \A o \in Writes \ {w} : Left(writing[e][o], moved[e][o])
                                \notin 1 .. Len(writing[e][o].data) - 1
  BY <1>1 DEF HalfSent, Unsent, Left
<1>4. /\ moved'[e] = [moved[e] EXCEPT ![w] = n]
      /\ requests'[e] = Tail(requests[e])
      /\ stream'[r] = stream[r] \o part
  BY <1>1, PeerOf DEF Typed, WritesTyped, ReadsTyped
<1>5. PICK i \in 1 .. Len(begun[e]), rest \in Nat :
        /\ begun[e][i] = x.data
        /\ \/ i = Len(begun[e]) /\ rest = 0
           \/ i = Len(begun[e]) - 1 /\ rest = Len(begun[e][Len(begun[e])])
        /\ Total(writing[e], moved[e]) = Len(begun[e][i]) - x.done + rest
        /\ Pending(begun[e], writing[e], moved'[e], Tail(requests[e]))
        /\ Total(writing[e], moved'[e]) = Total(writing[e], moved[e]) - n
  <2> DEFINE B == begun[e]
             W == writing[e]
             M == moved[e]
             q == requests[e]
             N == [M EXCEPT ![w] = n]
  <2>1. /\ WritesAre(B, W, M, q) /\ Pending(B, W, M, q)
        /\ q # << >> /\ w = Head(q) /\ n > 0 /\ M[w] = 0 /\ n <= Left(W[w], 0)
        /\ \A o \in Writes \ {w} : Left(W[o], M[o]) \notin 1 .. Len(W[o].data) - 1
    BY <1>1, <1>2, <1>3 DEF Flows
  <2> HIDE DEF B, W, M, q
  <2>2. /\ Pending(B, W, N, Tail(q))
        /\ Total(W, N) = Total(W, M) - n
        /\ \E i \in 1 .. Len(B), rest \in Nat :
             /\ B[i] = W[w].data
             /\ \/ i = Len(B) /\ rest = 0
                \/ i = Len(B) - 1 /\ rest = Len(B[Len(B)])
             /\ Total(W, M) = Len(B[i]) - W[w].done + rest
    BY <2>1, PendingMoved
  <2> QED
    BY <1>4, <2>2 DEF B, W, M, q
<1>6. x.done \in Nat /\ x.done + n <= Len(begun[e][i]) /\ x.data \in Seq(Words)
      /\ Len(x.data) \in Nat
  <2>1. /\ Left(x, moved[e][w]) = Len(x.data) - x.done - moved[e][w] /\ moved[e][w] = 0
        /\ x.done \in Nat /\ Len(x.data) \in Nat /\ x.data \in Seq(Words)
    <3> DEFINE W == writing[e]
               M == moved[e]
    <3>1. WritesAre(begun[e], W, M, requests[e])
      BY <1>2
    <3> HIDE DEF W, M
    <3>2. /\ Left(W[w], M[w]) = Len(W[w].data) - W[w].done - M[w]
          /\ W[w].done \in Nat /\ Len(W[w].data) \in Nat /\ W[w].data \in Seq(Words)
      BY <3>1, LeftTyped
    <3> QED
      BY <1>1, <3>2 DEF W, M
  <2>2. n <= Left(x, 0)
    BY <1>1
  <2> HIDE DEF x
  <2> QED
    BY <1>5, <2>1, <2>2
<1> HIDE DEF x
<1>7. Flow(begun[e], filled[r], Taken(r) \o part, Len(begun[e][i]) - (x.done + n) + rest)
  <2>1. Flow(begun[e], filled[r], Taken(r), Len(begun[e][i]) - x.done + rest)
    BY <1>5 DEF Flows
  <2> DEFINE T == Taken(r)
             B == begun[e]
             F == filled[r]
             done == x.done
  <2>2. /\ B \in Seq(Seq(Words)) /\ F \in Seq(Seq(Words)) /\ T \in Seq(Words)
        /\ i \in 1 .. Len(B) /\ done \in Nat /\ done + n <= Len(B[i])
        /\ \/ i = Len(B) /\ rest = 0
           \/ i = Len(B) - 1 /\ rest = Len(B[Len(B)])
        /\ Flow(B, F, T, Len(B[i]) - done + rest)
        /\ part = SubSeq(B[i], done + 1, done + n)
    BY <1>2, <1>5, <1>6, <2>1
  <2> HIDE DEF T, B, F, done, part
  <2>3. Flow(B, F, T \o SubSeq(B[i], done + 1, done + n), Len(B[i]) - (done + n) + rest)
    BY <2>2, FlowMoved
  <2> QED
    BY <2>2, <2>3 DEF T, B, F, done
<1>8. Total(writing[e], moved'[e]) = Len(begun[e][i]) - (x.done + n) + rest
  <2>1. Len(begun[e][i]) \in Nat
    BY <1>5, <1>6
  <2> QED
    BY <1>5, <1>6, <2>1
<1>9. Taken(r)' = Taken(r) \o part
  <2>1. reading' = reading
    BY DEF Transfer, inputs
  <2>2. reading[r].got \in Seq(Words) /\ stream[r] \in Seq(Words)
    BY PeerOf DEF Typed, ReadsTyped, Reads
  <2>3. part \in Seq(Words)
    BY <1>5, <1>6, Slice
  <2>4. \A a, b, c \in Seq(Words) : (a \o b) \o c = a \o (b \o c)
    BY ConcatAssociative
  <2>5. (reading[r].got \o stream[r]) \o part = reading[r].got \o (stream[r] \o part)
    BY <2>2, <2>3, <2>4
  <2>6. Taken(r)' = reading[r].got \o (stream[r] \o part)
    BY <1>4, <2>1 DEF Taken
  <2> QED
    BY <2>5, <2>6 DEF Taken
<1>10. filled' = filled
  BY DEF Transfer, inputs
<1>11. Flow(begun'[e], filled'[r], Taken(r)', Total(writing'[e], moved'[e]))
  BY <1>1, <1>7, <1>8, <1>9, <1>10
<1>12. Pending(begun'[e], writing'[e], moved'[e], requests'[e])
  BY <1>1, <1>4, <1>5
<1> QED
  BY <1>11, <1>12 DEF Flows

LEMMA ReadContinuesFlows ==
  ASSUME Typed, NEW e \in Ends, ReadContinues(e)
  PROVE  \A r \in Ends : ReaderSame(r)
<1>1. PICK n \in 1 .. MaxTransfer : /\ ReadSome(e, n)
                                   /\ reading' = [reading EXCEPT ![e].got = Got(e, n)]
  BY DEF ReadContinues
<1>2. /\ n \in Nat /\ n <= Len(stream[e])
      /\ stream' = [stream EXCEPT ![e] = SubSeq(stream[e], n + 1, Len(stream[e]))]
  BY <1>1, TakenFromStream DEF Typed
<1>3. reading[e].got \in Seq(Words) /\ stream[e] \in Seq(Words) /\ n \in 0 .. Len(stream[e])
  BY <1>2, LenProperties DEF Typed, ReadsTyped, Reads
<1>4. /\ reading'[e].got = reading[e].got \o SubSeq(stream[e], 1, n)
      /\ stream'[e] = SubSeq(stream[e], n + 1, Len(stream[e]))
      /\ \A r \in Ends \ {e} : reading'[r] = reading[r] /\ stream'[r] = stream[r]
  BY <1>1, <1>2 DEF Typed, ReadsTyped, Reads, Got
<1>5. reading'[e].got \o stream'[e] = reading[e].got \o stream[e]
  BY <1>3, <1>4, TakenKeeps, ZenonT(60)
<1>6. filled' = filled
  BY DEF ReadContinues
<1>7. \A r \in Ends : reading'[r].got \o stream'[r] = reading[r].got \o stream[r]
  BY <1>4, <1>5
<1> QED
  BY <1>6, <1>7 DEF ReaderSame, Taken

(* A handler that has filled a buffer was given the next one of the peer.  *)
LEMMA FilledFlows ==
  ASSUME Typed, NEW d \in Ends, NEW k \in Kinds, k # "none", NEW n \in 1 .. MaxTransfer,
         Filled(Peer(d), k, n), reading'[Peer(d)].got = << >>,
         Flows(d), WriterSame(d),
         Len(filled[Peer(d)]) < Len(begun[d])
           => Len(begun[d][Len(filled[Peer(d)]) + 1]) = reading[Peer(d)].size
  PROVE  /\ Flows(d)'
         /\ Len(filled[Peer(d)]) < Len(begun[d])
         /\ Got(Peer(d), n) = begun[d][Len(filled[Peer(d)]) + 1]
<1> DEFINE r == Peer(d)
           g == Got(r, n)
           rest == SubSeq(stream[r], n + 1, Len(stream[r]))
           B == begun[d]
           F == filled[r]
           left == Total(writing[d], moved[d])
<1>1. r \in Ends
  BY PeerOf
<1>2. /\ reading[r].kind = k /\ ReadSome(r, n)
      /\ g \in Seq(Words) /\ Len(g) = reading[r].size
      /\ filled' = [filled EXCEPT ![r] = Append(F, g)]
  BY <1>1, FilledIs DEF Typed
<1>3. /\ n \in Nat /\ n <= Len(stream[r]) /\ rest \in Seq(Words)
      /\ stream' = [stream EXCEPT ![r] = rest]
  BY <1>1, <1>2, TakenFromStream DEF Typed
<1>4. /\ reading[r].got \in Seq(Words) /\ stream[r] \in Seq(Words)
      /\ n \in 0 .. Len(stream[r]) /\ reading[r] \in Reads /\ ReadIs(reading[r])
  BY <1>1, <1>3, LenProperties DEF Typed, ReadsTyped, Reads
<1>5. Len(g) > 0
  <2>1. Len(reading[r].got) < reading[r].size /\ Len(reading[r].got) \in Nat
        /\ reading[r].size \in Nat
    BY <1>2, <1>4, LenProperties DEF ReadIs, Reads
  <2> QED
    BY <1>2, <2>1
<1>6. Taken(r) = g \o rest
  BY <1>4, TakenKeeps DEF Taken, Got
<1>7. B \in Seq(Seq(Words)) /\ F \in Seq(Seq(Words))
      /\ WritesAre(B, writing[d], moved[d], requests[d])
  BY FlowTyped
<1>8. left \in Nat
  <2> DEFINE W == writing[d]
             M == moved[d]
  <2>1. WritesAre(B, W, M, requests[d])
    BY <1>7
  <2> HIDE DEF W, M
  <2>2. Left(W["validation"], M["validation"]) \in Nat /\ Left(W["message"], M["message"]) \in Nat
    BY <2>1, LeftTyped DEF Writes
  <2> QED
    BY <2>2 DEF Total, W, M
<1>9. Flow(B, F, g \o rest, left)
  BY <1>6 DEF Flows
<1>10. Len(F) < Len(B) => Len(B[Len(F) + 1]) = Len(g)
  BY <1>2
<1>11. /\ filled'[r] = Append(F, g) /\ stream'[r] = rest
  BY <1>1, <1>2, <1>3 DEF Typed, ReadsTyped
<1>12. Taken(r)' = << >> \o rest
  BY <1>11 DEF Taken
<1> HIDE DEF g, rest, B, F, left
<1>13. /\ Len(F) < Len(B) /\ g = B[Len(F) + 1]
       /\ Flow(B, Append(F, g), << >> \o rest, left)
  BY <1>2, <1>3, <1>5, <1>7, <1>8, <1>9, <1>10, FlowFilled
<1>14. Flow(begun'[d], filled'[r], Taken(r)', Total(writing'[d], moved'[d]))
  BY <1>11, <1>12, <1>13 DEF WriterSame, B, left
<1>15. Pending(begun'[d], writing'[d], moved'[d], requests'[d])
  BY DEF Flows, WriterSame
<1> QED
  BY <1>13, <1>14, <1>15 DEF Flows, g, B, F
-----------------------------------------------------------------------------
(* What the buffers of an end are.  Laid: first its validation, then the   *)
(* messages s it was given, in order, each a header and, unless that is    *)
(* empty, a body; q tells which.  Writer: where the writer is, after the   *)
(* last buffer begun; Reader: where the reader is, after k buffers.        *)
Places == [part : {"validation", "header", "body"}, num : Nat]
At(part, num) == [part |-> part, num |-> num]

Whole(p, s) == p.part = "header" => s[p.num].body = << >>

Follows(p, b, before, s) ==
  /\ p.num \in 1 .. Len(s)
  /\ p.part = "header" => b = <<s[p.num].id, s[p.num].size>>
  /\ p.part = "body" => b = s[p.num].body
  /\ Whole(before, s) => p = At("header", before.num + 1)
  /\ ~Whole(before, s) => p = At("body", before.num)

Laid(q, B, s, first) ==
  /\ B # << >> /\ q[1] = At("validation", 0) /\ B[1] = first
  /\ \A i \in 2 .. Len(B) : Follows(q[i], B[i], q[i - 1], s)

Writer(p, kind, out, s) ==
  /\ kind = "none" => Whole(p, s) /\ p.num = Len(s) - Len(out)
  /\ kind # "none" => p.part = kind /\ p.num = Len(s) - Len(out) + 1

Reader(q, k, kind, size, In, temp, s) ==
  /\ kind = "header" => k >= 1 /\ Whole(q[k], s) /\ Len(In) = q[k].num
  /\ kind = "body" => /\ k >= 1 /\ ~Whole(q[k], s) /\ Len(In) + 1 = q[k].num
                      /\ size = Len(s[q[k].num].body)
                      /\ temp.id = s[q[k].num].id /\ temp.size = s[q[k].num].size

(* r goes on from q by one place.                                          *)
Longer(r, q, B, C, p) == r[Len(C)] = p /\ \A i \in 1 .. Len(B) : r[i] = q[i]

LEMMA LaidNext ==
  ASSUME NEW B \in Seq(Seq(Words)), NEW q \in [1 .. Len(B) -> Places],
         NEW s, NEW first, Laid(q, B, s, first),
         NEW p \in Places, NEW b \in Seq(Words), Follows(p, b, q[Len(B)], s),
         NEW C, C = Append(B, b)
  PROVE  \E r \in [1 .. Len(C) -> Places] :
           Laid(r, C, s, first) /\ Longer(r, q, B, C, p)
<1> DEFINE r == [i \in 1 .. Len(B) + 1 |-> IF i <= Len(B) THEN q[i] ELSE p]
<1>1. /\ C \in Seq(Seq(Words)) /\ Len(C) = Len(B) + 1 /\ C[Len(B) + 1] = b
      /\ \A i \in 1 .. Len(B) : C[i] = B[i]
      /\ C # << >>
  BY AppendProperties, EmptySeq
<1>2. Len(B) \in Nat /\ Len(B) > 0
  BY EmptySeq, LenProperties DEF Laid
<1>3. /\ r \in [1 .. Len(B) + 1 -> Places] /\ r[Len(B) + 1] = p
      /\ \A i \in 1 .. Len(B) : r[i] = q[i]
  <2>1. \A i \in 1 .. Len(B) + 1 : i <= Len(B) => q[i] \in Places
    <3>1. \A i \in 1 .. Len(B) + 1 : i <= Len(B) => i \in 1 .. Len(B)
      BY <1>2
    <3> QED
      BY <3>1
  <2>2. Len(B) + 1 \in 1 .. Len(B) + 1 /\ ~(Len(B) + 1 <= Len(B))
    BY <1>2
  <2>3. \A i \in 1 .. Len(B) : i \in 1 .. Len(B) + 1 /\ i <= Len(B)
    BY <1>2
  <2>4. r \in [1 .. Len(B) + 1 -> Places]
    BY <2>1
  <2> QED
    BY <2>2, <2>3, <2>4
<1> HIDE DEF r
<1>4. r[1] = At("validation", 0) /\ C[1] = first
  <2>1. 1 \in 1 .. Len(B)
    BY <1>2
  <2> QED
    BY <1>1, <1>3, <2>1 DEF Laid
<1>5. ASSUME NEW i \in 2 .. Len(C) PROVE Follows(r[i], C[i], r[i - 1], s)
  <2>1. CASE i \in 2 .. Len(B)
    <3>1. i \in 1 .. Len(B) /\ i - 1 \in 1 .. Len(B)
      BY <1>2, <2>1
    <3> QED
      BY <1>1, <1>3, <2>1, <3>1 DEF Laid
  <2>2. CASE i = Len(B) + 1
    <3>1. i - 1 = Len(B) /\ Len(B) \in 1 .. Len(B)
      BY <1>2, <2>2
    <3> QED
      BY <1>1, <1>3, <2>2, <3>1
  <2> QED
    BY <1>1, <1>2, <2>1, <2>2
<1>6. Laid(r, C, s, first)
  BY <1>1, <1>4, <1>5 DEF Laid
<1> QED
  BY <1>1, <1>3, <1>6 DEF Longer

(* The place of a header or a body is that of a message of s.              *)
LEMMA LaidPlace ==
  ASSUME NEW B \in Seq(Seq(Words)), NEW q \in [1 .. Len(B) -> Places],
         NEW s, NEW first, Laid(q, B, s, first), NEW i \in 1 .. Len(B)
  PROVE  /\ q[i] \in Places /\ q[i].num \in Nat
         /\ i = 1 => q[i] = At("validation", 0) /\ Whole(q[i], s)
         /\ i # 1 => q[i].num \in 1 .. Len(s)
         /\ ~Whole(q[i], s) => q[i].num \in 1 .. Len(s)
<1>1. q[i] \in Places
  OBVIOUS
<1>2. i # 1 => i \in 2 .. Len(B)
  BY LenProperties
<1>3. i # 1 => q[i].num \in 1 .. Len(s)
  BY <1>2 DEF Laid, Follows
<1>4. i = 1 => q[i] = At("validation", 0)
  BY DEF Laid
<1>5. At("validation", 0).part # "header"
  BY DEF At
<1>6. i = 1 => Whole(q[i], s)
  BY <1>4, <1>5 DEF Whole
<1> QED
  BY <1>1, <1>3, <1>4, <1>6 DEF Places

(* One more message changes nothing in what is laid.                       *)
LEMMA LaidSent ==
  ASSUME NEW B \in Seq(Seq(Words)), NEW q \in [1 .. Len(B) -> Places],
         NEW s \in Seq(Messages), NEW m \in Messages, NEW first, Laid(q, B, s, first)
  PROVE  /\ Laid(q, B, Append(s, m), first)
         /\ \A i \in 1 .. Len(B) : Whole(q[i], Append(s, m)) <=> Whole(q[i], s)
<1> DEFINE z == Append(s, m)
<1>1. /\ Len(z) = Len(s) + 1 /\ Len(s) \in Nat
      /\ \A j \in 1 .. Len(s) : z[j] = s[j] /\ j \in 1 .. Len(z)
  BY AppendProperties, LenProperties
<1> HIDE DEF z
<1>2. ASSUME NEW i \in 1 .. Len(B) PROVE Whole(q[i], z) <=> Whole(q[i], s)
  <2>1. CASE i = 1
    <3>1. q[i] = At("validation", 0)
      BY <2>1, LaidPlace
    <3>2. At("validation", 0).part # "header"
      BY DEF At
    <3> QED
      BY <3>1, <3>2 DEF Whole
  <2>2. CASE i # 1
    <3>1. q[i].num \in 1 .. Len(s)
      BY <2>2, LaidPlace
    <3>2. z[q[i].num] = s[q[i].num]
      BY <1>1, <3>1
    <3> QED
      BY <3>2 DEF Whole
  <2> QED
    BY <2>1, <2>2
<1>3. ASSUME NEW i \in 2 .. Len(B) PROVE Follows(q[i], B[i], q[i - 1], z)
  <2>1. Follows(q[i], B[i], q[i - 1], s)
    BY DEF Laid
  <2>2. i - 1 \in 1 .. Len(B)
    BY LenProperties
  <2>3. Whole(q[i - 1], z) <=> Whole(q[i - 1], s)
    BY <1>2, <2>2
  <2>4. q[i].num \in 1 .. Len(s)
    BY <2>1 DEF Follows
  <2>5. z[q[i].num] = s[q[i].num] /\ q[i].num \in 1 .. Len(z)
    BY <1>1, <2>4
  <2> QED
    BY <2>1, <2>3, <2>5 DEF Follows
<1>4. Laid(q, B, z, first)
  BY <1>3 DEF Laid
<1> QED
  BY <1>2, <1>4 DEF z

(* The number of the message that comes after In.                          *)
Coming(In) == Len(In) + 1

HeaderAt(q, B, i, s, n) ==
  /\ i >= 1 /\ n \in 1 .. Len(s) /\ s[n] \in Messages
  /\ q[i] = At("header", n) /\ B[i] = <<s[n].id, s[n].size>>

BodyAt(q, B, i, s, n, size, temp) ==
  /\ i >= 1 /\ n \in 1 .. Len(s) /\ s[n] \in Messages
  /\ q[i] = At("body", n) /\ B[i] = s[n].body /\ size = Len(s[n].body)
  /\ temp.id = s[n].id /\ temp.size = s[n].size

(* What the reader is given next, by what it reads.                        *)
LEMMA HeaderNext ==
  ASSUME NEW B \in Seq(Seq(Words)), NEW q \in [1 .. Len(B) -> Places],
         NEW s \in Seq(Messages), NEW first, Laid(q, B, s, first),
         NEW k \in Nat, k < Len(B), NEW size, NEW In, NEW temp,
         Reader(q, k, "header", size, In, temp, s)
  PROVE  HeaderAt(q, B, k + 1, s, Coming(In))
<1>1. Len(B) \in Nat /\ k + 1 \in 1 .. Len(B) /\ k + 1 >= 1
  BY LenProperties
<1>2. k >= 1 /\ Whole(q[k], s) /\ Len(In) = q[k].num
  BY DEF Reader, Coming
<1>3. k + 1 \in 2 .. Len(B) /\ k + 1 - 1 = k
  BY <1>1, <1>2
<1>4. Follows(q[k + 1], B[k + 1], q[k], s)
  BY <1>3 DEF Laid
<1>5. q[k + 1] = At("header", Coming(In))
  BY <1>2, <1>4 DEF Follows, Coming
<1>6. q[k + 1].part = "header" /\ q[k + 1].num = Coming(In)
  BY <1>5 DEF At
<1>7. Coming(In) \in 1 .. Len(s) /\ B[k + 1] = <<s[Coming(In)].id, s[Coming(In)].size>>
  BY <1>4, <1>6 DEF Follows
<1>8. s[Coming(In)] \in Messages
  BY <1>7, ElementOfSeq
<1> QED
  BY <1>1, <1>5, <1>7, <1>8 DEF HeaderAt

LEMMA BodyNext ==
  ASSUME NEW B \in Seq(Seq(Words)), NEW q \in [1 .. Len(B) -> Places],
         NEW s \in Seq(Messages), NEW first, Laid(q, B, s, first),
         NEW k \in Nat, k < Len(B), NEW size, NEW In, NEW temp,
         Reader(q, k, "body", size, In, temp, s)
  PROVE  BodyAt(q, B, k + 1, s, Coming(In), size, temp)
<1>1. Len(B) \in Nat /\ k + 1 \in 1 .. Len(B) /\ k + 1 >= 1
  BY LenProperties
<1>2. /\ k >= 1 /\ ~Whole(q[k], s) /\ Coming(In) = q[k].num /\ size = Len(s[Coming(In)].body)
      /\ temp.id = s[Coming(In)].id /\ temp.size = s[Coming(In)].size
  BY DEF Reader, Coming
<1>3. k + 1 \in 2 .. Len(B) /\ k + 1 - 1 = k
  BY <1>1, <1>2
<1>4. Follows(q[k + 1], B[k + 1], q[k], s)
  BY <1>3 DEF Laid
<1>5. q[k + 1] = At("body", Coming(In))
  BY <1>2, <1>4 DEF Follows, Coming
<1>6. q[k + 1].part = "body" /\ q[k + 1].num = Coming(In)
  BY <1>5 DEF At
<1>7. Coming(In) \in 1 .. Len(s) /\ B[k + 1] = s[Coming(In)].body
  BY <1>4, <1>6 DEF Follows
<1>8. s[Coming(In)] \in Messages
  BY <1>7, ElementOfSeq
<1> QED
  BY <1>1, <1>2, <1>5, <1>7, <1>8 DEF BodyAt

(* Regular: the buffers of an end and where its peer is in them, with the  *)
(* queue of the writer and what the reader keeps.                          *)
Regular(B, s, out, writes1, first, k, kind, size, In, temp) ==
  B # << >> /\ \E q \in [1 .. Len(B) -> Places] :
                 /\ Laid(q, B, s, first)
                 /\ Writer(q[Len(B)], writes1, out, s)
                 /\ Reader(q, k, kind, size, In, temp, s)

(* The end goes on to its next buffer, b, at the place p; the messages may *)
(* have become more.                                                       *)
LEMMA RegularBegun ==
  ASSUME NEW B \in Seq(Seq(Words)), NEW q \in [1 .. Len(B) -> Places],
         NEW s, NEW first, Laid(q, B, s, first),
         NEW k \in 0 .. Len(B), NEW kind, NEW size, NEW In, NEW temp,
         Reader(q, k, kind, size, In, temp, s),
         NEW p \in Places, NEW b \in Seq(Words), Follows(p, b, q[Len(B)], s),
         NEW out, NEW writes1, Writer(p, writes1, out, s)
  PROVE  Regular(Append(B, b), s, out, writes1, first, k, kind, size, In, temp)
<1> DEFINE C == Append(B, b)
<1>0. C = Append(B, b)
  OBVIOUS
<1> HIDE DEF C
<1>1. PICK r \in [1 .. Len(C) -> Places] :
           Laid(r, C, s, first) /\ Longer(r, q, B, C, p)
  BY <1>0, LaidNext
<1>2. k >= 1 => r[k] = q[k]
  <2>1. k >= 1 => k \in 1 .. Len(B)
    BY LenProperties
  <2> QED
    BY <1>1, <2>1 DEF Longer
<1>3. Reader(r, k, kind, size, In, temp, s)
  BY <1>2 DEF Reader
<1>4. Writer(r[Len(C)], writes1, out, s) /\ C # << >>
  BY <1>1 DEF Laid, Longer
<1>5. Regular(C, s, out, writes1, first, k, kind, size, In, temp)
  BY <1>1, <1>3, <1>4 DEF Regular
<1> QED
  BY <1>5 DEF C

LEMMA ReaderSent ==
  ASSUME NEW B \in Seq(Seq(Words)), NEW q \in [1 .. Len(B) -> Places],
         NEW s \in Seq(Messages), NEW m \in Messages, NEW first, Laid(q, B, s, first),
         NEW k \in 0 .. Len(B), NEW kind, NEW size, NEW In, NEW temp,
         Reader(q, k, kind, size, In, temp, s)
  PROVE  Reader(q, k, kind, size, In, temp, Append(s, m))
<1> DEFINE z == Append(s, m)
<1>1. k >= 1 => k \in 1 .. Len(B)
  BY LenProperties
<1>2. k >= 1 => (Whole(q[k], z) <=> Whole(q[k], s))
  BY <1>1, LaidSent
<1>3. \A j \in 1 .. Len(s) : z[j] = s[j]
  BY AppendProperties
<1>4. k >= 1 /\ ~Whole(q[k], s) => z[q[k].num] = s[q[k].num]
  <2>1. k >= 1 /\ ~Whole(q[k], s) => q[k].num \in 1 .. Len(s)
    BY <1>1, LaidPlace
  <2> QED
    BY <1>3, <2>1
<1> HIDE DEF z
<1>5. Reader(q, k, kind, size, In, temp, z)
  BY <1>2, <1>4 DEF Reader
<1> QED
  BY <1>5 DEF z

(* The program gives a message; it is the only one, or queued behind what  *)
(* is being written.                                                       *)
LEMMA RegularSent ==
  ASSUME NEW B \in Seq(Seq(Words)), NEW s \in Seq(Messages), NEW out \in Seq(Messages),
         NEW m \in Messages, NEW writes1, NEW first,
         NEW k \in 0 .. Len(B), NEW kind, NEW size, NEW In, NEW temp,
         Regular(B, s, out, writes1, first, k, kind, size, In, temp),
         out = << >> <=> writes1 = "none"
  PROVE  /\ out = << >> => Regular(Append(B, <<m.id, m.size>>), Append(s, m), Append(out, m),
                                   "header", first, k, kind, size, In, temp)
         /\ out # << >> => Regular(B, Append(s, m), Append(out, m),
                                   writes1, first, k, kind, size, In, temp)
<1> DEFINE z == Append(s, m)
           o == Append(out, m)
<1>1. PICK q \in [1 .. Len(B) -> Places] :
        /\ Laid(q, B, s, first)
        /\ Writer(q[Len(B)], writes1, out, s)
        /\ Reader(q, k, kind, size, In, temp, s)
  BY DEF Regular
<1>2. /\ Laid(q, B, z, first) /\ Reader(q, k, kind, size, In, temp, z)
      /\ \A i \in 1 .. Len(B) : Whole(q[i], z) <=> Whole(q[i], s)
  BY <1>1, LaidSent, ReaderSent
<1>3. /\ Len(z) = Len(s) + 1 /\ Len(s) \in Nat /\ z[Len(s) + 1] = m
      /\ Len(o) = Len(out) + 1 /\ Len(out) \in Nat
  BY AppendProperties, LenProperties
<1>4. Len(B) \in 1 .. Len(B) /\ B # << >>
  BY <1>1, EmptySeq, LenProperties DEF Laid
<1> HIDE DEF z, o
<1>5. CASE out = << >>
  <2> DEFINE p == At("header", Len(s) + 1)
             b == <<m.id, m.size>>
  <2>1. Whole(q[Len(B)], s) /\ q[Len(B)].num = Len(s)
    <3>1. writes1 = "none" /\ Len(out) = 0
      BY <1>5
    <3> QED
      BY <1>1, <1>3, <3>1 DEF Writer
  <2>2. p \in Places /\ p.part = "header" /\ p.num = Len(s) + 1
    BY <1>3 DEF At, Places
  <2>3. b \in Seq(Words)
    BY HeaderTyped
  <2>4. Whole(q[Len(B)], z)
    BY <1>2, <1>4, <2>1
  <2>5. Follows(p, b, q[Len(B)], z)
    <3>1. p.num \in 1 .. Len(z) /\ z[p.num] = m
      BY <1>3, <2>2
    <3>2. p = At("header", q[Len(B)].num + 1)
      BY <2>1
    <3> HIDE DEF p
    <3> QED
      BY <2>2, <2>4, <3>1, <3>2 DEF Follows
  <2>6. Writer(p, "header", o, z)
    <3>1. p.num = Len(z) - Len(o) + 1
      BY <1>3, <1>5, <2>2
    <3> HIDE DEF p
    <3> QED
      BY <2>2, <3>1 DEF Writer
  <2> HIDE DEF p, b
  <2>7. Regular(Append(B, b), z, o, "header", first, k, kind, size, In, temp)
    BY <1>2, <2>2, <2>3, <2>5, <2>6, RegularBegun
  <2> QED
    BY <1>5, <2>7 DEF z, o, b
<1>6. CASE out # << >>
  <2>1. Writer(q[Len(B)], writes1, o, z)
    <3>1. writes1 # "none" /\ q[Len(B)].part = writes1 /\ q[Len(B)].num = Len(s) - Len(out) + 1
      BY <1>1, <1>6 DEF Writer
    <3>2. Len(z) - Len(o) + 1 = Len(s) - Len(out) + 1
      BY <1>3
    <3> QED
      BY <3>1, <3>2 DEF Writer
  <2>2. Regular(B, z, o, writes1, first, k, kind, size, In, temp)
    BY <1>2, <1>4, <2>1 DEF Regular
  <2> QED
    BY <1>6, <2>2 DEF z, o
<1> QED
  BY <1>5, <1>6

(* The first message of the queue, in what was given.                      *)
LEMMA OutboxHead ==
  ASSUME NEW out \in Seq(Messages), NEW s \in Seq(Messages), Outbox(out, s), out # << >>
  PROVE  LET n == Len(s) - Len(out) + 1
         IN  /\ n \in 1 .. Len(s) /\ s[n] = Head(out) /\ Head(out) \in Messages
             /\ Len(Tail(out)) = Len(out) - 1 /\ Tail(out) \in Seq(Messages)
             /\ Tail(out) # << >> => /\ n + 1 \in 1 .. Len(s) /\ s[n + 1] = Head(Tail(out))
                                     /\ Head(Tail(out)) \in Messages
             /\ Tail(out) = << >> => n = Len(s) /\ Len(out) = 1
<1>1. /\ Len(out) \in Nat /\ Len(out) > 0 /\ Len(s) \in Nat /\ Len(out) <= Len(s)
      /\ \A j \in 1 .. Len(out) : out[j] = s[Len(s) - Len(out) + j]
  BY EmptySeq, LenProperties DEF Outbox
<1>2. /\ Head(out) = out[1] /\ Head(out) \in Messages
      /\ Tail(out) \in Seq(Messages) /\ Len(Tail(out)) = Len(out) - 1
      /\ \A i \in 1 .. Len(Tail(out)) : Tail(out)[i] = out[i + 1]
  BY HeadTailProperties
<1>3. 1 \in 1 .. Len(out)
  BY <1>1
<1>4. s[Len(s) - Len(out) + 1] = Head(out) /\ Len(s) - Len(out) + 1 \in 1 .. Len(s)
  BY <1>1, <1>2, <1>3
<1> DEFINE t == Tail(out)
<1>5. t # << >> => /\ Len(s) - Len(out) + 1 + 1 \in 1 .. Len(s)
                   /\ s[Len(s) - Len(out) + 1 + 1] = Head(t)
                   /\ Head(t) \in Messages
  <2> SUFFICES ASSUME t # << >>
               PROVE  /\ Len(s) - Len(out) + 1 + 1 \in 1 .. Len(s)
                      /\ s[Len(s) - Len(out) + 1 + 1] = Head(t)
                      /\ Head(t) \in Messages
    OBVIOUS
  <2>1. t \in Seq(Messages) /\ Len(t) = Len(out) - 1
        /\ \A i \in 1 .. Len(t) : t[i] = out[i + 1]
    BY <1>2
  <2> HIDE DEF t
  <2>2. Head(t) = t[1] /\ Head(t) \in Messages /\ Len(t) > 0 /\ Len(t) \in Nat
    BY <2>1, HeadTailProperties, EmptySeq, LenProperties
  <2>3. 1 \in 1 .. Len(t) /\ 2 \in 1 .. Len(out) /\ 1 + 1 = 2
    BY <1>1, <2>1, <2>2
  <2>4. t[1] = out[2] /\ out[2] = s[Len(s) - Len(out) + 2]
    BY <1>1, <2>1, <2>3
  <2>5. Len(s) - Len(out) + 1 + 1 = Len(s) - Len(out) + 2
        /\ Len(s) - Len(out) + 2 \in 1 .. Len(s)
    BY <1>1, <2>3
  <2> QED
    BY <2>2, <2>4, <2>5
<1>6. t = << >> => Len(s) - Len(out) + 1 = Len(s) /\ Len(out) = 1
  <2>1. Len(t) = Len(out) - 1
    BY <1>2
  <2> HIDE DEF t
  <2>2. t = << >> => Len(t) = 0
    OBVIOUS
  <2>3. Len(out) \in Nat /\ Len(s) \in Nat
    BY <1>1
  <2>4. t = << >> => Len(out) = 1
    BY <2>1, <2>2, <2>3
  <2>5. Len(out) = 1 => Len(s) - Len(out) + 1 = Len(s)
    BY <2>3
  <2> QED
    BY <2>4, <2>5
<1> QED
  BY <1>2, <1>4, <1>5, <1>6

(* A buffer is written: the body of the message follows its header, or the *)
(* next message follows it, if there is one.                               *)
LEMMA RegularWritten ==
  ASSUME NEW B \in Seq(Seq(Words)), NEW s \in Seq(Messages), NEW out \in Seq(Messages),
         NEW writes1 \in {"header", "body"}, NEW first,
         NEW k \in 0 .. Len(B), NEW kind, NEW size, NEW In, NEW temp,
         Regular(B, s, out, writes1, first, k, kind, size, In, temp),
         out # << >>, Outbox(out, s)
  PROVE  /\ writes1 = "header" /\ Head(out).body # << >> =>
              Regular(Append(B, Head(out).body), s, out, "body", first,
                      k, kind, size, In, temp)
         /\ ~(writes1 = "header" /\ Head(out).body # << >>) /\ Tail(out) # << >> =>
              Regular(Append(B, <<Head(Tail(out)).id, Head(Tail(out)).size>>), s, Tail(out),
                      "header", first, k, kind, size, In, temp)
         /\ ~(writes1 = "header" /\ Head(out).body # << >>) /\ Tail(out) = << >> =>
              Regular(B, s, Tail(out), "none", first, k, kind, size, In, temp)
<1> DEFINE n == Len(s) - Len(out) + 1
<1>1. PICK q \in [1 .. Len(B) -> Places] :
        /\ Laid(q, B, s, first)
        /\ Writer(q[Len(B)], writes1, out, s)
        /\ Reader(q, k, kind, size, In, temp, s)
  BY DEF Regular
<1>2. q[Len(B)].part = writes1 /\ q[Len(B)].num = n
  BY <1>1 DEF Writer
<1>3. /\ n \in 1 .. Len(s) /\ s[n] = Head(out) /\ Head(out) \in Messages
      /\ Len(Tail(out)) = Len(out) - 1 /\ Tail(out) \in Seq(Messages)
      /\ Tail(out) # << >> => /\ n + 1 \in 1 .. Len(s) /\ s[n + 1] = Head(Tail(out))
                              /\ Head(Tail(out)) \in Messages
      /\ Tail(out) = << >> => n = Len(s) /\ Len(out) = 1
  BY OutboxHead
<1>4. Len(s) \in Nat /\ Len(out) \in Nat /\ n = Len(s) - Len(out) + 1
  BY LenProperties
<1> HIDE DEF n
<1>5. \A part, num : At(part, num).part = part /\ At(part, num).num = num
  BY DEF At
<1>6. CASE writes1 = "header" /\ Head(out).body # << >>
  <2> DEFINE p == At("body", n)
             b == Head(out).body
  <2>1. ~Whole(q[Len(B)], s)
    BY <1>2, <1>3, <1>6 DEF Whole
  <2>2. p \in Places /\ p.part = "body" /\ p.num = n
    BY <1>3 DEF At, Places
  <2>3. b \in Seq(Words)
    BY <1>3 DEF Messages
  <2> HIDE DEF p, b
  <2>4. p = At("body", q[Len(B)].num)
    BY <1>2 DEF p
  <2>5. b = s[n].body
    BY <1>3 DEF b
  <2>6. Follows(p, b, q[Len(B)], s)
    BY <1>3, <2>1, <2>2, <2>4, <2>5 DEF Follows
  <2>7. Writer(p, "body", out, s)
    BY <1>4, <2>2 DEF Writer
  <2>8. Regular(Append(B, b), s, out, "body", first, k, kind, size, In, temp)
    BY <1>1, <2>2, <2>3, <2>6, <2>7, RegularBegun
  <2> QED
    BY <1>6, <2>8 DEF b
<1>7. CASE ~(writes1 = "header" /\ Head(out).body # << >>)
  <2> DEFINE t == Tail(out)
  <2>1. Whole(q[Len(B)], s)
    BY <1>2, <1>3, <1>7 DEF Whole
  <2>2. CASE t # << >>
    <3> DEFINE p == At("header", n + 1)
               m == Head(t)
               b == <<m.id, m.size>>
    <3>1. n + 1 \in 1 .. Len(s) /\ s[n + 1] = m /\ m \in Messages
      BY <1>3, <2>2
    <3>2. p \in Places /\ p.part = "header" /\ p.num = n + 1
      BY <3>1 DEF At, Places
    <3> HIDE DEF m
    <3>3. b \in Seq(Words)
      BY <3>1, HeaderTyped
    <3>4. p = At("header", q[Len(B)].num + 1)
      BY <1>2
    <3> HIDE DEF p
    <3>5. Follows(p, b, q[Len(B)], s)
      BY <2>1, <3>1, <3>2, <3>4 DEF Follows
    <3>6. Writer(p, "header", t, s)
      <4>1. n + 1 = Len(s) - Len(t) + 1
        BY <1>3, <1>4
      <4> HIDE DEF t
      <4> QED
        BY <3>2, <4>1 DEF Writer
    <3> HIDE DEF b, t
    <3>7. Regular(Append(B, b), s, t, "header", first, k, kind, size, In, temp)
      BY <1>1, <3>2, <3>3, <3>5, <3>6, RegularBegun
    <3> QED
      BY <1>7, <2>2, <3>7 DEF b, t, m
  <2>3. CASE t = << >>
    <3>1. n = Len(s) - Len(t)
      BY <1>3, <1>4
    <3> HIDE DEF t
    <3>2. Writer(q[Len(B)], "none", t, s)
      BY <1>2, <2>1, <3>1 DEF Writer
    <3>3. Regular(B, s, t, "none", first, k, kind, size, In, temp)
      BY <1>1, <3>2 DEF Regular
    <3> QED
      BY <1>7, <2>3, <3>3 DEF t
  <2> QED
    BY <1>7, <2>2, <2>3
<1> QED
  BY <1>6, <1>7
-----------------------------------------------------------------------------
(* What the buffers of an end are, at any time.  The client may have sent  *)
(* a message before it was asked for its validation: then its first buffer *)
(* is the header of that message, which the server will refuse.            *)
HeadersOf(S) == {<<m.id, m.size>> : m \in S}
First(e) == IF e = "server" THEN Challenge ELSE Answer
Waits == {"none", "validation"}

LayoutIs(e, B, s, out, w, k, kind, size, In, temp, own) ==
  \/ B = << >> /\ kind \in Waits
  \/ e = "client" /\ B # << >> /\ B[1] \in HeadersOf(ClientMessages) /\ kind \in Waits
  \/ /\ e = "client" => own # "validation"
     /\ Regular(B, s, out, w, First(e), k, kind, size, In, temp)

Layout(e) ==
  LayoutIs(e, begun[e], sent[e], m_qMessagesOut[e], writing[e]["message"].kind,
           Len(filled[Peer(e)]), reading[Peer(e)].kind, reading[Peer(e)].size,
           m_qMessagesIn[Peer(e)], m_msgTemporaryIn[Peer(e)], reading[e].kind)

LEMMA ReaderWaits ==
  ASSUME NEW kind \in Waits, NEW q, NEW k, NEW size, NEW In, NEW temp, NEW s
  PROVE  Reader(q, k, kind, size, In, temp, s)
BY DEF Reader, Waits

LEMMA LayoutWaits ==
  ASSUME NEW e, NEW B, NEW s, NEW out, NEW w, NEW k, NEW kind, NEW size, NEW In,
         NEW temp, NEW own, LayoutIs(e, B, s, out, w, k, kind, size, In, temp, own),
         NEW k1, NEW kind1 \in Waits, NEW size1, NEW In1, NEW temp1
  PROVE  LayoutIs(e, B, s, out, w, k1, kind1, size1, In1, temp1, own)
<1>1. CASE Regular(B, s, out, w, First(e), k, kind, size, In, temp)
  <2>1. Regular(B, s, out, w, First(e), k1, kind1, size1, In1, temp1)
    BY <1>1, ReaderWaits DEF Regular
  <2> QED
    BY <2>1 DEF LayoutIs
<1>2. CASE ~Regular(B, s, out, w, First(e), k, kind, size, In, temp)
  BY <1>2 DEF LayoutIs
<1> QED
  BY <1>1, <1>2

LEMMA LayoutOwn ==
  ASSUME NEW e, NEW B, NEW s, NEW out, NEW w, NEW k, NEW kind, NEW size, NEW In,
         NEW temp, NEW own, LayoutIs(e, B, s, out, w, k, kind, size, In, temp, own),
         NEW own1, e = "client" => own1 # "validation"
  PROVE  LayoutIs(e, B, s, out, w, k, kind, size, In, temp, own1)
BY DEF LayoutIs

LEMMA LayoutStarts ==
  ASSUME NEW e, NEW B, B = << >>, NEW d \in Seq(Words), d = First(e),
         NEW k, NEW kind \in Waits, NEW size, NEW In, NEW temp,
         NEW own, e = "client" => own # "validation"
  PROVE  LayoutIs(e, Append(B, d), << >>, << >>, "none", k, kind, size, In, temp, own)
<1> DEFINE C == Append(B, d)
           q == [i \in 1 .. 1 |-> At("validation", 0)]
<1>1. /\ C \in Seq(Seq(Words)) /\ Len(C) = 1 /\ C[1] = d
  <2>1. B \in Seq(Seq(Words)) /\ Len(B) = 0
    OBVIOUS
  <2> QED
    BY <2>1, AppendProperties
<1>2. C # << >>
  BY <1>1, EmptySeq
<1> HIDE DEF C
<1>3. At("validation", 0) \in Places /\ At("validation", 0).part = "validation"
      /\ At("validation", 0).num = 0
  BY DEF At, Places
<1>4. q \in [1 .. Len(C) -> Places] /\ q[1] = At("validation", 0)
  BY <1>1, <1>3
<1> HIDE DEF q
<1>5. Laid(q, C, << >>, First(e))
  BY <1>1, <1>2, <1>4 DEF Laid
<1>6. Writer(q[Len(C)], "none", << >>, << >>)
  BY <1>1, <1>3, <1>4 DEF Writer, Whole
<1>7. Reader(q, k, kind, size, In, temp, << >>)
  BY ReaderWaits
<1>8. Regular(C, << >>, << >>, "none", First(e), k, kind, size, In, temp)
  BY <1>2, <1>4, <1>5, <1>6, <1>7 DEF Regular
<1> QED
  BY <1>8 DEF LayoutIs, C

LEMMA FirstKept ==
  ASSUME NEW B \in Seq(Seq(Words)), B # << >>, NEW b \in Seq(Words)
  PROVE  Append(B, b) # << >> /\ Append(B, b)[1] = B[1]
<1> DEFINE C == Append(B, b)
<1>1. /\ C \in Seq(Seq(Words)) /\ Len(C) = Len(B) + 1 /\ \A i \in 1 .. Len(B) : C[i] = B[i]
  BY AppendProperties
<1>2. Len(B) \in Nat /\ Len(B) > 0
  BY EmptySeq, LenProperties
<1> HIDE DEF C
<1>3. 1 \in 1 .. Len(B) /\ Len(C) # 0
  BY <1>1, <1>2
<1>4. C # << >> /\ C[1] = B[1]
  BY <1>1, <1>3, EmptySeq
<1> QED
  BY <1>4 DEF C

(* The program gives a message.                                            *)
LEMMA LayoutSent ==
  ASSUME NEW e, NEW B \in Seq(Seq(Words)), NEW s \in Seq(Messages),
         NEW out \in Seq(Messages), NEW w, NEW k \in 0 .. Len(B), NEW kind, NEW size,
         NEW In, NEW temp, NEW own,
         LayoutIs(e, B, s, out, w, k, kind, size, In, temp, own),
         NEW m \in Messages, out = << >> <=> w = "none",
         B = << >> => e = "client" /\ m \in ClientMessages /\ out = << >>
  PROVE  /\ out = << >> => LayoutIs(e, Append(B, <<m.id, m.size>>), Append(s, m),
                             Append(out, m), "header", k, kind, size, In, temp, own)
         /\ out # << >> => LayoutIs(e, B, Append(s, m), Append(out, m), w, k, kind, size,
                             In, temp, own)
<1> DEFINE b == <<m.id, m.size>>
<1>1. b \in Seq(Words)
  BY HeaderTyped
<1>2. CASE Regular(B, s, out, w, First(e), k, kind, size, In, temp)
           /\ (e = "client" => own # "validation")
  <2>1. Regular(B, s, out, w, First(e), k, kind, size, In, temp)
    BY <1>2
  <2>2. /\ out = << >> => Regular(Append(B, b), Append(s, m), Append(out, m),
                                  "header", First(e), k, kind, size, In, temp)
        /\ out # << >> => Regular(B, Append(s, m), Append(out, m),
                                  w, First(e), k, kind, size, In, temp)
    BY <2>1, RegularSent
  <2> QED
    BY <1>2, <2>2 DEF LayoutIs
<1>3. CASE e = "client" /\ B # << >> /\ B[1] \in HeadersOf(ClientMessages) /\ kind \in Waits
  <2>1. Append(B, b) # << >> /\ Append(B, b)[1] = B[1]
    BY <1>1, <1>3, FirstKept
  <2> HIDE DEF b
  <2>2. /\ LayoutIs(e, Append(B, b), Append(s, m), Append(out, m), "header", k, kind, size,
                    In, temp, own)
        /\ LayoutIs(e, B, Append(s, m), Append(out, m), w, k, kind, size, In, temp, own)
    BY <1>3, <2>1 DEF LayoutIs
  <2> QED
    BY <2>2 DEF b
<1>4. CASE B = << >> /\ kind \in Waits
  <2>1. e = "client" /\ m \in ClientMessages /\ out = << >>
    BY <1>4
  <2>2. b \in HeadersOf(ClientMessages)
    BY <2>1 DEF HeadersOf
  <2> DEFINE C == Append(B, b)
  <2>3. C # << >> /\ C[1] = b
    <3>1. B \in Seq(Seq(Words)) /\ Len(B) = 0 /\ 1 \in 1 .. 1
      BY <1>4
    <3> HIDE DEF b
    <3>2. C \in Seq(Seq(Words)) /\ Len(C) = 1 /\ C[1] = b
      BY <1>1, <3>1, AppendProperties
    <3> HIDE DEF C
    <3>3. Len(C) # 0
      BY <3>2
    <3>4. C # << >>
      BY <3>2, <3>3, EmptySeq
    <3> QED
      BY <3>2, <3>4
  <2> HIDE DEF b, C
  <2>4. LayoutIs(e, C, Append(s, m), Append(out, m), "header", k, kind, size, In, temp, own)
    BY <1>4, <2>1, <2>2, <2>3 DEF LayoutIs
  <2> QED
    BY <2>1, <2>4 DEF C, b
<1> QED
  BY <1>2, <1>3, <1>4 DEF LayoutIs

(* A buffer of a message is written.                                       *)
LEMMA LayoutWritten ==
  ASSUME NEW e, NEW B \in Seq(Seq(Words)), B # << >>, NEW s \in Seq(Messages),
         NEW out \in Seq(Messages), NEW w \in {"header", "body"}, NEW k \in 0 .. Len(B),
         NEW kind, NEW size, NEW In, NEW temp, NEW own,
         LayoutIs(e, B, s, out, w, k, kind, size, In, temp, own),
         out # << >>, Outbox(out, s)
  PROVE  /\ w = "header" /\ Head(out).body # << >> =>
              LayoutIs(e, Append(B, Head(out).body), s, out, "body",
                       k, kind, size, In, temp, own)
         /\ ~(w = "header" /\ Head(out).body # << >>) /\ Tail(out) # << >> =>
              LayoutIs(e, Append(B, <<Head(Tail(out)).id, Head(Tail(out)).size>>), s,
                       Tail(out), "header", k, kind, size, In, temp, own)
         /\ ~(w = "header" /\ Head(out).body # << >>) /\ Tail(out) = << >> =>
              LayoutIs(e, B, s, Tail(out), "none", k, kind, size, In, temp, own)
<1> DEFINE b == Head(out).body
           t == Tail(out)
           h == <<Head(t).id, Head(t).size>>
<1>1. b \in Seq(Words) /\ (t # << >> => h \in Seq(Words))
  <2>1. Head(out) \in Messages /\ t \in Seq(Messages)
    BY HeadTailProperties
  <2>2. t # << >> => Head(t) \in Messages
    BY <2>1, HeadTailProperties
  <2>3. \A m \in Messages : <<m.id, m.size>> \in Seq(Words) /\ m.body \in Seq(Words)
    BY HeaderTyped DEF Messages
  <2> QED
    BY <2>1, <2>2, <2>3
<1>2. CASE Regular(B, s, out, w, First(e), k, kind, size, In, temp)
           /\ (e = "client" => own # "validation")
  <2>1. Regular(B, s, out, w, First(e), k, kind, size, In, temp)
    BY <1>2
  <2>2. /\ w = "header" /\ b # << >> =>
              Regular(Append(B, b), s, out, "body", First(e), k, kind, size, In, temp)
        /\ ~(w = "header" /\ b # << >>) /\ t # << >> =>
              Regular(Append(B, h), s, t, "header", First(e), k, kind, size, In, temp)
        /\ ~(w = "header" /\ b # << >>) /\ t = << >> =>
              Regular(B, s, t, "none", First(e), k, kind, size, In, temp)
    BY <2>1, RegularWritten
  <2> QED
    BY <1>2, <2>2 DEF LayoutIs
<1>3. CASE e = "client" /\ B # << >> /\ B[1] \in HeadersOf(ClientMessages) /\ kind \in Waits
  <2>1. Append(B, b) # << >> /\ Append(B, b)[1] = B[1]
    BY <1>1, FirstKept
  <2>2. t # << >> => Append(B, h) # << >> /\ Append(B, h)[1] = B[1]
    BY <1>1, FirstKept
  <2> HIDE DEF b, h, t
  <2>3. /\ LayoutIs(e, Append(B, b), s, out, "body", k, kind, size, In, temp, own)
        /\ t # << >> =>
             LayoutIs(e, Append(B, h), s, t, "header", k, kind, size, In, temp, own)
        /\ LayoutIs(e, B, s, t, "none", k, kind, size, In, temp, own)
    BY <1>3, <2>1, <2>2 DEF LayoutIs
  <2> QED
    BY <2>3 DEF b, h, t
<1> QED
  BY <1>2, <1>3 DEF LayoutIs

(* The reader asks for as many words as its next buffer has.               *)
LEMMA LayoutSize ==
  ASSUME NEW e, NEW B \in Seq(Seq(Words)), NEW s \in Seq(Messages),
         NEW out, NEW w, NEW k \in Nat, k < Len(B), NEW kind \in Kinds, kind # "none",
         NEW size, NEW In, NEW temp, NEW own, Len(In) \in Nat,
         LayoutIs(e, B, s, out, w, k, kind, size, In, temp, own),
         kind = "validation" => k = 0,
         kind \in {"validation", "header"} => size = 2
  PROVE  Len(B[k + 1]) = size
<1>1. B # << >>
  <2>1. Len(<< >>) = 0
    OBVIOUS
  <2> QED
    BY <2>1
<1>2. CASE e = "client" /\ B # << >> /\ B[1] \in HeadersOf(ClientMessages) /\ kind \in Waits
  <2>1. kind = "validation" /\ k + 1 = 1 /\ size = 2
    BY <1>2 DEF Waits
  <2>2. PICK m \in ClientMessages : B[1] = <<m.id, m.size>>
    BY <1>2 DEF HeadersOf
  <2>3. m \in Messages
    BY MadeTyped
  <2>4. Len(<<m.id, m.size>>) = 2
    BY <2>3, HeaderTyped
  <2> QED
    BY <2>1, <2>2, <2>4
<1>3. CASE Regular(B, s, out, w, First(e), k, kind, size, In, temp)
  <2>1. PICK q \in [1 .. Len(B) -> Places] :
          /\ Laid(q, B, s, First(e)) /\ Reader(q, k, kind, size, In, temp, s)
    BY <1>3 DEF Regular
  <2>2. CASE kind = "validation"
    <3>1. k + 1 = 1 /\ size = 2
      BY <2>2
    <3>2. B[1] = First(e)
      BY <2>1 DEF Laid
    <3>3. Len(First(e)) = 2
      BY ConstantsTyped DEF First
    <3> QED
      BY <3>1, <3>2, <3>3
  <2>3. CASE kind # "validation"
    <3> DEFINE n == Coming(In)
    <3>2. CASE kind = "header"
      <4>1. Reader(q, k, "header", size, In, temp, s)
        BY <2>1, <3>2
      <4>1a. HeaderAt(q, B, k + 1, s, Coming(In))
        BY <2>1, <4>1, HeaderNext
      <4>2. s[n] \in Messages /\ B[k + 1] = <<s[n].id, s[n].size>>
        BY <4>1a DEF HeaderAt
      <4>3. Len(<<s[n].id, s[n].size>>) = 2
        BY <4>2, HeaderTyped
      <4> QED
        BY <3>2, <4>2, <4>3
    <3>3. CASE kind = "body"
      <4>1. Reader(q, k, "body", size, In, temp, s)
        BY <2>1, <3>3
      <4>2. BodyAt(q, B, k + 1, s, Coming(In), size, temp)
        BY <2>1, <4>1, BodyNext
      <4> QED
        BY <4>2 DEF BodyAt
    <3> QED
      BY <2>3, <3>2, <3>3 DEF Kinds
  <2> QED
    BY <2>2, <2>3
<1> QED
  BY <1>1, <1>2, <1>3 DEF LayoutIs

TrueSizes(s) == \A i \in 1 .. Len(s) : s[i].size = Len(s[i].body)

(* The reader goes on from a header.                                       *)
AfterHeader(e, B, s, out, w, k, own, In, n, size1, In1, temp1) ==
  /\ n \in 1 .. Len(s) /\ B[k + 1] = <<s[n].id, s[n].size>>
  /\ /\ s[n].size > 0 /\ size1 = s[n].size /\ In1 = In
     /\ temp1.id = s[n].id /\ temp1.size = s[n].size
     => LayoutIs(e, B, s, out, w, k + 1, "body", size1, In1, temp1, own)
  /\ ~(s[n].size > 0) /\ Len(In1) = n
     => /\ s[n].body = << >>
        /\ LayoutIs(e, B, s, out, w, k + 1, "header", size1, In1, temp1, own)

LEMMA LayoutHeaderRead ==
  ASSUME NEW e, NEW B \in Seq(Seq(Words)), NEW s \in Seq(Messages),
         TrueSizes(s),
         NEW out, NEW w, NEW k \in Nat, k < Len(B),
         NEW size, NEW In, NEW temp, NEW own, Len(In) \in Nat,
         LayoutIs(e, B, s, out, w, k, "header", size, In, temp, own),
         NEW size1, NEW In1, NEW temp1
  PROVE  AfterHeader(e, B, s, out, w, k, own, In, Coming(In), size1, In1, temp1)
<1> DEFINE n == Coming(In)
<1>0. "header" \notin Waits
  BY DEF Waits
<1>1. /\ e = "client" => own # "validation"
      /\ Regular(B, s, out, w, First(e), k, "header", size, In, temp)
  BY <1>0 DEF LayoutIs
<1>2. PICK q \in [1 .. Len(B) -> Places] :
        /\ Laid(q, B, s, First(e)) /\ Writer(q[Len(B)], w, out, s)
        /\ Reader(q, k, "header", size, In, temp, s)
  BY <1>1 DEF Regular
<1>3. n = Len(In) + 1
  BY DEF Coming
<1>3a. HeaderAt(q, B, k + 1, s, n)
  BY <1>2, HeaderNext
<1> HIDE DEF n
<1>4. /\ k + 1 >= 1 /\ n \in 1 .. Len(s) /\ q[k + 1] = At("header", n)
      /\ B[k + 1] = <<s[n].id, s[n].size>> /\ s[n] \in Messages
  BY <1>3a DEF HeaderAt
<1>5. q[k + 1].part = "header" /\ q[k + 1].num = n
  BY <1>4 DEF At
<1>6. s[n].body \in Seq(Words) /\ s[n].size = Len(s[n].body)
  BY <1>4 DEF Messages, TrueSizes
<1>7. B # << >>
  BY <1>2 DEF Laid
<1>8. ASSUME s[n].size > 0, size1 = s[n].size, In1 = In,
             temp1.id = s[n].id, temp1.size = s[n].size
      PROVE  LayoutIs(e, B, s, out, w, k + 1, "body", size1, In1, temp1, own)
  <2>1. s[n].body # << >>
    <3>1. Len(<< >>) = 0
      OBVIOUS
    <3> QED
      BY <1>6, <1>8, <3>1
  <2>2. ~Whole(q[k + 1], s)
    BY <1>5, <2>1 DEF Whole
  <2>3. Len(In1) + 1 = q[k + 1].num
    BY <1>3, <1>5, <1>8
  <2>4. Reader(q, k + 1, "body", size1, In1, temp1, s)
    BY <1>4, <1>5, <1>6, <1>8, <2>2, <2>3 DEF Reader
  <2>5. Regular(B, s, out, w, First(e), k + 1, "body", size1, In1, temp1)
    BY <1>2, <1>7, <2>4 DEF Regular
  <2> QED
    BY <1>1, <2>5 DEF LayoutIs
<1>9. ASSUME ~(s[n].size > 0), Len(In1) = n
      PROVE  /\ s[n].body = << >>
             /\ LayoutIs(e, B, s, out, w, k + 1, "header", size1, In1, temp1, own)
  <2>1. s[n].body = << >>
    BY <1>6, <1>9, EmptySeq
  <2>2. Whole(q[k + 1], s)
    BY <1>5, <2>1 DEF Whole
  <2>3. Reader(q, k + 1, "header", size1, In1, temp1, s)
    BY <1>4, <1>5, <1>9, <2>2 DEF Reader
  <2>4. Regular(B, s, out, w, First(e), k + 1, "header", size1, In1, temp1)
    BY <1>2, <1>7, <2>3 DEF Regular
  <2> QED
    BY <1>1, <2>1, <2>4 DEF LayoutIs
<1> QED
  BY <1>4, <1>8, <1>9 DEF n, AfterHeader

(* The reader goes on from a body.                                         *)
LEMMA LayoutBodyRead ==
  ASSUME NEW e, NEW B \in Seq(Seq(Words)), NEW s \in Seq(Messages),
         NEW out, NEW w, NEW k \in Nat, k < Len(B),
         NEW size, NEW In, NEW temp, NEW own, Len(In) \in Nat,
         LayoutIs(e, B, s, out, w, k, "body", size, In, temp, own),
         NEW size1, NEW In1, NEW temp1, Len(In1) = Len(In) + 1
  PROVE  LET n == Coming(In)
         IN  /\ n \in 1 .. Len(s) /\ B[k + 1] = s[n].body
             /\ temp.id = s[n].id /\ temp.size = s[n].size
             /\ LayoutIs(e, B, s, out, w, k + 1, "header", size1, In1, temp1, own)
<1> DEFINE n == Coming(In)
<1>0. "body" \notin Waits
  BY DEF Waits
<1>1. /\ e = "client" => own # "validation"
      /\ Regular(B, s, out, w, First(e), k, "body", size, In, temp)
  BY <1>0 DEF LayoutIs
<1>2. PICK q \in [1 .. Len(B) -> Places] :
        /\ Laid(q, B, s, First(e)) /\ Writer(q[Len(B)], w, out, s)
        /\ Reader(q, k, "body", size, In, temp, s)
  BY <1>1 DEF Regular
<1>3. n = Len(In1)
  BY DEF Coming
<1>3a. BodyAt(q, B, k + 1, s, n, size, temp)
  BY <1>2, BodyNext
<1> HIDE DEF n
<1>4. /\ k + 1 >= 1 /\ n \in 1 .. Len(s) /\ q[k + 1] = At("body", n)
      /\ B[k + 1] = s[n].body /\ temp.id = s[n].id /\ temp.size = s[n].size
  BY <1>3a DEF BodyAt
<1>5. q[k + 1].part = "body" /\ q[k + 1].num = n
  BY <1>4 DEF At
<1>6. Whole(q[k + 1], s)
  BY <1>5 DEF Whole
<1>7. Reader(q, k + 1, "header", size1, In1, temp1, s)
  BY <1>4, <1>3, <1>5, <1>6 DEF Reader
<1>8. B # << >>
  BY <1>2 DEF Laid
<1>9. Regular(B, s, out, w, First(e), k + 1, "header", size1, In1, temp1)
  BY <1>2, <1>7, <1>8 DEF Regular
<1>10. LayoutIs(e, B, s, out, w, k + 1, "header", size1, In1, temp1, own)
  BY <1>1, <1>9 DEF LayoutIs
<1> QED
  BY <1>4, <1>10 DEF n

(* The reader goes on from the validation, or sees a header in its place.  *)
LEMMA LayoutValidationRead ==
  ASSUME NEW e, NEW B \in Seq(Seq(Words)), B # << >>, NEW s, NEW out, NEW w, NEW k,
         NEW kind \in Waits, NEW size, NEW In, NEW temp, NEW own,
         LayoutIs(e, B, s, out, w, k, kind, size, In, temp, own),
         NEW size1, NEW In1, NEW temp1, Len(In1) = 0
  PROVE  \/ e = "client" /\ B[1] \in HeadersOf(ClientMessages)
         \/ /\ B[1] = First(e)
            /\ LayoutIs(e, B, s, out, w, 1, "header", size1, In1, temp1, own)
<1>1. CASE Regular(B, s, out, w, First(e), k, kind, size, In, temp)
           /\ (e = "client" => own # "validation")
  <2>1. PICK q \in [1 .. Len(B) -> Places] :
          Laid(q, B, s, First(e)) /\ Writer(q[Len(B)], w, out, s)
    BY <1>1 DEF Regular
  <2>2. B[1] = First(e) /\ q[1] = At("validation", 0)
    BY <2>1 DEF Laid
  <2>3. q[1].part = "validation" /\ q[1].num = 0
    BY <2>2 DEF At
  <2>4. Whole(q[1], s)
    BY <2>3 DEF Whole
  <2>5. Reader(q, 1, "header", size1, In1, temp1, s)
    BY <2>3, <2>4 DEF Reader
  <2>6. Regular(B, s, out, w, First(e), 1, "header", size1, In1, temp1)
    BY <2>1, <2>5 DEF Regular
  <2>7. LayoutIs(e, B, s, out, w, 1, "header", size1, In1, temp1, own)
    BY <1>1, <2>6 DEF LayoutIs
  <2> QED
    BY <2>2, <2>7
<1> QED
  BY <1>1 DEF LayoutIs
-----------------------------------------------------------------------------
(* Sound: what is known of the way from an end to its peer, while no two   *)
(* writes of an end have mixed.  Flows relates the words, Layout the       *)
(* buffers, Received the messages.                                         *)
Matches(m, s) ==
  m.id = s.id /\ m.size = s.size /\ (s.body # << >> => m.body = s.body)

Received(In, s) ==
  Len(In) <= Len(s) /\ \A i \in 1 .. Len(In) : Matches(In[i], s[i])

Sound(e) ==
  Flows(e) /\ Layout(e) /\ Received(m_qMessagesIn[Peer(e)], sent[e])

LaidSame(e) ==
  /\ begun'[e] = begun[e] /\ sent'[e] = sent[e] /\ m_qMessagesOut'[e] = m_qMessagesOut[e]
  /\ writing'[e]["message"].kind = writing[e]["message"].kind

InputSame(e) ==
  /\ Len(filled'[e]) = Len(filled[e]) /\ reading'[e].kind = reading[e].kind
  /\ reading'[e].size = reading[e].size /\ m_qMessagesIn'[e] = m_qMessagesIn[e]
  /\ m_msgTemporaryIn'[e] = m_msgTemporaryIn[e]

LEMMA LayoutSame ==
  ASSUME NEW e \in Ends, Layout(e), LaidSame(e), InputSame(Peer(e)),
         \/ reading'[e].kind = reading[e].kind
         \/ e = "client" => reading'[e].kind # "validation"
  PROVE  Layout(e)'
<1> DEFINE L(own) ==
      LayoutIs(e, begun[e], sent[e], m_qMessagesOut[e], writing[e]["message"].kind,
               Len(filled[Peer(e)]), reading[Peer(e)].kind, reading[Peer(e)].size,
               m_qMessagesIn[Peer(e)], m_msgTemporaryIn[Peer(e)], own)
<1>1. L(reading[e].kind)
  BY DEF Layout
<1>2. L(reading'[e].kind)
  <2>1. CASE reading'[e].kind = reading[e].kind
    BY <1>1, <2>1
  <2>2. CASE e = "client" => reading'[e].kind # "validation"
    BY <1>1, <2>2, LayoutOwn
  <2> QED
    BY <2>1, <2>2
<1> QED
  BY <1>2 DEF Layout, LaidSame, InputSame

LEMMA RestSame ==
  ASSUME NEW e \in Ends, Sound(e), LaidSame(e), InputSame(Peer(e)),
         \/ reading'[e].kind = reading[e].kind
         \/ e = "client" => reading'[e].kind # "validation"
  PROVE  Layout(e)' /\ Received(m_qMessagesIn'[Peer(e)], sent'[e])
<1>1. Layout(e)'
  BY LayoutSame DEF Sound
<1>2. Received(m_qMessagesIn'[Peer(e)], sent'[e])
  BY DEF Sound, LaidSame, InputSame
<1> QED
  BY <1>1, <1>2

LEMMA TransferSound ==
  ASSUME Typed, NEW e \in Ends, Sound(e), NEW f \in Ends, Transfer(f), mixed' = {}
  PROVE  Sound(e)'
<1>1. /\ \E T : stream' = [stream EXCEPT ![Peer(f)] = T]
      /\ \E w, n : moved' = [moved EXCEPT ![f][w] = n]
      /\ requests' = [requests EXCEPT ![f] = Tail(@)]
      /\ writing' = writing /\ begun' = begun
  BY DEF Transfer
<1>2. UNCHANGED <<reading, filled, m_qMessagesOut, m_qMessagesIn, m_msgTemporaryIn, sent>>
  BY DEF Transfer, inputs, program
<1>3. Flows(e)'
  <2>1. CASE f = e
    BY <2>1, TransferFlows DEF Sound
  <2>2. CASE f # e
    <3>1. Peer(e) \in Ends /\ Peer(f) \in Ends /\ Peer(f) # Peer(e)
      BY <2>2, PeerOf
    <3>2. stream'[Peer(e)] = stream[Peer(e)]
      BY <1>1, <3>1 DEF Typed, ReadsTyped
    <3>3. ReaderSame(Peer(e))
      BY <1>2, <3>2 DEF ReaderSame, Taken
    <3>4. WriterSame(e)
      BY <1>1, <2>2 DEF WriterSame, Typed, WritesTyped
    <3> QED
      BY <3>3, <3>4, FlowsSame DEF Sound
  <2> QED
    BY <2>1, <2>2
<1>4. LaidSame(e) /\ InputSame(Peer(e)) /\ reading'[e].kind = reading[e].kind
  BY <1>1, <1>2 DEF LaidSame, InputSame
<1>5. Layout(e)' /\ Received(m_qMessagesIn'[Peer(e)], sent'[e])
  BY <1>4, RestSame
<1> QED
  BY <1>3, <1>5 DEF Sound

LEMMA WriteContinuesSound ==
  ASSUME Typed, NEW e \in Ends, Sound(e), NEW f \in Ends, NEW w \in Writes,
         WriteContinues(f, w)
  PROVE  Sound(e)'
<1>1. /\ moved' = [moved EXCEPT ![f][w] = 0]
      /\ writing' = [writing EXCEPT ![f][w].done = @ + moved[f][w]]
      /\ requests' = [requests EXCEPT ![f] = Append(@, w)]
      /\ UNCHANGED <<stream, reading, filled, begun, m_qMessagesOut, m_qMessagesIn,
                     m_msgTemporaryIn, sent>>
  BY DEF WriteContinues, WriteSome, inputs, program
<1>2. Flows(e)'
  <2>1. CASE f = e
    BY <2>1, ContinueFlows DEF Sound
  <2>2. CASE f # e
    <3>1. ReaderSame(Peer(e))
      BY <1>1 DEF ReaderSame, Taken
    <3>2. WriterSame(e)
      BY <1>1, <2>2 DEF WriterSame, Typed, WritesTyped
    <3> QED
      BY <3>1, <3>2, FlowsSame DEF Sound
  <2> QED
    BY <2>1, <2>2
<1>3. writing'[e]["message"].kind = writing[e]["message"].kind
  <2>1. writing[e] \in [Writes -> Operations] /\ "message" \in Writes
    BY DEF Typed, WritesTyped, Writes
  <2>2. CASE f = e
    <3>1. writing'[e] = [writing[e] EXCEPT ![w].done = @ + moved[f][w]]
      BY <1>1, <2>2 DEF Typed, WritesTyped
    <3>2. writing[e]["message"] \in Operations
      BY <2>1
    <3> QED
      BY <2>1, <3>1, <3>2 DEF Operations
  <2>3. CASE f # e
    BY <1>1, <2>3 DEF Typed, WritesTyped
  <2> QED
    BY <2>2, <2>3
<1>4. LaidSame(e) /\ InputSame(Peer(e)) /\ reading'[e].kind = reading[e].kind
  BY <1>1, <1>3 DEF LaidSame, InputSame
<1>5. Layout(e)' /\ Received(m_qMessagesIn'[Peer(e)], sent'[e])
  BY <1>4, RestSame
<1> QED
  BY <1>2, <1>5 DEF Sound

LEMMA ReadContinuesSound ==
  ASSUME Typed, NEW e \in Ends, Sound(e), NEW f \in Ends, ReadContinues(f)
  PROVE  Sound(e)'
<1>1. /\ \E g : reading' = [reading EXCEPT ![f].got = g]
      /\ UNCHANGED <<filled, writing, requests, moved, begun, m_qMessagesOut, m_qMessagesIn,
                     m_msgTemporaryIn, sent>>
  BY DEF ReadContinues, writes, program
<1>2. ReaderSame(Peer(e)) /\ WriterSame(e)
  BY <1>1, PeerOf, ReadContinuesFlows DEF WriterSame
<1>3. Flows(e)'
  BY <1>2, FlowsSame DEF Sound
<1>4. \A x \in Ends : reading'[x].kind = reading[x].kind /\ reading'[x].size = reading[x].size
  <2>1. \A x \in Ends : reading[x] \in Reads
    BY DEF Typed, ReadsTyped
  <2> QED
    BY <1>1, <2>1 DEF Typed, ReadsTyped, Reads
<1>5. LaidSame(e) /\ InputSame(Peer(e)) /\ reading'[e].kind = reading[e].kind
  BY <1>1, <1>4, PeerOf DEF LaidSame, InputSame
<1>6. Layout(e)' /\ Received(m_qMessagesIn'[Peer(e)], sent'[e])
  BY <1>5, RestSame
<1> QED
  BY <1>3, <1>6 DEF Sound

LEMMA NothingMovesSound ==
  ASSUME NEW e \in Ends, Sound(e),
         UNCHANGED <<stream, reading, filled, writing, requests, moved, begun,
                     m_qMessagesOut, m_qMessagesIn, m_msgTemporaryIn, sent>>
  PROVE  Sound(e)'
<1>1. ReaderSame(Peer(e)) /\ WriterSame(e)
  BY DEF WriterSame, ReaderSame, Taken
<1>2. Flows(e)'
  BY <1>1, FlowsSame DEF Sound
<1>3. LaidSame(e) /\ InputSame(Peer(e)) /\ reading'[e].kind = reading[e].kind
  BY DEF LaidSame, InputSame
<1>4. Layout(e)' /\ Received(m_qMessagesIn'[Peer(e)], sent'[e])
  BY <1>3, RestSame
<1> QED
  BY <1>2, <1>4 DEF Sound
-----------------------------------------------------------------------------
(* The handshake.                                                          *)
LEMMA IdleWrite ==
  ASSUME Typed, NEW e \in Ends, NEW w \in Writes, writing[e][w].kind = "none"
  PROVE  /\ Left(writing[e][w], moved[e][w]) = 0 /\ ~Asks(requests[e], w)
         /\ moved = [moved EXCEPT ![e][w] = 0]
<1>1. WriteIs(w, writing[e][w], moved[e][w], requests[e], begun[e])
  BY DEF Typed, WritesTyped, WriteTrue
<1>2. writing[e][w] = Idle /\ moved[e][w] = 0 /\ ~Asks(requests[e], w)
  BY <1>1 DEF WriteIs
<1>3. Left(Idle, 0) = 0
  <2>1. Idle.data = << >> /\ Idle.done = 0 /\ Len(<< >>) = 0
    BY DEF Idle
  <2> QED
    BY <2>1 DEF Left
<1>4. moved = [moved EXCEPT ![e][w] = 0]
  BY <1>2 DEF Typed, WritesTyped
<1> QED
  BY <1>2, <1>3, <1>4

LEMMA NotBegun ==
  ASSUME Typed, NEW e \in Ends, Layout(e), begun[e] = << >>
  PROVE  /\ sent[e] = << >> /\ m_qMessagesOut[e] = << >>
         /\ writing[e]["message"].kind = "none" /\ writing[e]["validation"].kind = "none"
         /\ reading[Peer(e)].kind \in Waits
<1>1. sent[e] = << >>
  BY DEF Typed, Handshake
<1>2. m_qMessagesOut[e] = << >>
  <2>1. m_qMessagesOut[e] \in Seq(Messages) /\ Len(m_qMessagesOut[e]) <= Len(sent[e])
    BY DEF Typed, QueuesTyped, Outbox
  <2>2. Len(<< >>) = 0
    OBVIOUS
  <2>3. Len(m_qMessagesOut[e]) = 0
    BY <1>1, <2>1, <2>2, LenProperties
  <2> QED
    BY <2>1, <2>3, EmptySeq
<1>3. \A w \in Writes : writing[e][w].kind = "none"
  BY DEF Typed, WritesTyped, WriteTrue, WriteIs
<1>4. reading[Peer(e)].kind \in Waits
  BY DEF Layout, LayoutIs, Regular
<1> QED
  BY <1>1, <1>2, <1>3, <1>4 DEF Writes

LEMMA ConnectSound ==
  ASSUME Typed, NEW e \in Ends, Sound(e), Sound("server"), ConnectToClient
  PROVE  Sound(e)'
<1> DEFINE d == Data("validation", Challenge)
<1>1. /\ begun["server"] = << >> /\ Begin("server", "validation", d)
      /\ reading' = [reading EXCEPT !["server"] = Buffer("validation", 2)]
      /\ UNCHANGED <<stream, filled, moved, m_qMessagesOut, m_qMessagesIn,
                     m_msgTemporaryIn, sent>>
  BY DEF ConnectToClient, StartRead, ValidationSize, program
<1>2. /\ "server" \in Ends /\ "client" \in Ends /\ "client" # "server"
      /\ Peer("server") = "client" /\ Peer("client") = "server"
      /\ "validation" \in Writes /\ "message" \in Writes /\ "message" # "validation"
  BY DEF Ends, Peer, Writes
<1>3. d \in Operations /\ d.data # << >> /\ d.done = 0 /\ d.data = Challenge
  <2>1. Challenge # << >>
    BY ConstantsTyped
  <2> QED
    BY <2>1, ConstantsTyped DEF Data, Operations, Kinds
<1> HIDE DEF d
<1>4. /\ sent["server"] = << >> /\ m_qMessagesOut["server"] = << >>
      /\ writing["server"]["message"].kind = "none"
      /\ writing["server"]["validation"].kind = "none"
      /\ reading["client"].kind \in Waits
  BY <1>1, <1>2, NotBegun DEF Sound
<1>5. /\ writing'["server"]["message"] = writing["server"]["message"]
      /\ writing'["client"] = writing["client"] /\ requests'["client"] = requests["client"]
      /\ begun'["client"] = begun["client"]
      /\ begun'["server"] = Append(begun["server"], Challenge)
  BY <1>1, <1>2, <1>3 DEF Begin, Typed, WritesTyped
<1>6. /\ reading'["client"] = reading["client"]
      /\ reading'["server"].kind = "validation" /\ reading'["server"].got = << >>
      /\ reading["server"].got = << >>
  <2>1. reading["server"] = Nothing
    BY <1>1, <1>2 DEF Typed, Handshake, ReadsTyped, ReadIs
  <2>2. reading'["server"] = Buffer("validation", 2) /\ reading'["client"] = reading["client"]
    BY <1>1, <1>2 DEF Typed, ReadsTyped
  <2> QED
    BY <2>1, <2>2 DEF Nothing, Buffer
<1>7. ReaderSame("client") /\ ReaderSame("server")
  BY <1>1, <1>6 DEF ReaderSame, Taken
<1>8. CASE e = "server"
  <2>1. moved' = [moved EXCEPT !["server"]["validation"] = 0]
        /\ Left(writing["server"]["validation"], moved["server"]["validation"]) = 0
        /\ ~Asks(requests["server"], "validation")
    BY <1>1, <1>2, <1>4, IdleWrite
  <2>2. Flows("server")'
    BY <1>1, <1>2, <1>3, <1>7, <1>8, <2>1, BeginFlows DEF Sound
  <2>3. Challenge \in Seq(Words) /\ Challenge = First("server")
    BY ConstantsTyped DEF First
  <2> DEFINE k == Len(filled["client"])
             size == reading["client"].size
             In == m_qMessagesIn["client"]
             temp == m_msgTemporaryIn["client"]
             kind == reading["client"].kind
             own == reading'["server"].kind
  <2>4. LayoutIs("server", Append(begun["server"], Challenge), << >>, << >>, "none",
                 k, kind, size, In, temp, own)
    <3>1. begun["server"] = << >> /\ kind \in Waits
      BY <1>1, <1>4
    <3> HIDE DEF k, size, In, temp, kind, own
    <3> QED
      BY <1>2, <2>3, <3>1, LayoutStarts
  <2>5. Layout("server")'
    BY <1>1, <1>2, <1>4, <1>5, <1>6, <2>4 DEF Layout
  <2>6. Received(m_qMessagesIn'["client"], sent'["server"])
    BY <1>1, <1>2, <1>8 DEF Sound
  <2> QED
    BY <1>2, <1>8, <2>2, <2>5, <2>6 DEF Sound
<1>9. CASE e = "client"
  <2>1. WriterSame("client")
    BY <1>1, <1>5 DEF WriterSame
  <2>2. Flows("client")'
    BY <1>2, <1>7, <1>9, <2>1, FlowsSame DEF Sound
  <2>3. Layout("client")'
    <3>1. reading'["server"].kind \in Waits
      BY <1>6 DEF Waits
    <3> DEFINE k == Len(filled["server"])
               k1 == Len(filled'["server"])
               size == reading["server"].size
               size1 == reading'["server"].size
               In == m_qMessagesIn["server"]
               temp == m_msgTemporaryIn["server"]
               kind == reading["server"].kind
               kind1 == reading'["server"].kind
               own == reading["client"].kind
               B == begun["client"]
               s == sent["client"]
               out == m_qMessagesOut["client"]
               w == writing["client"]["message"].kind
    <3>2. LayoutIs("client", B, s, out, w, k, kind, size, In, temp, own) /\ kind1 \in Waits
      BY <1>2, <1>9, <3>1 DEF Sound, Layout
    <3> HIDE DEF k, size, In, temp, kind, own, k1, size1, kind1, B, s, out, w
    <3>3. LayoutIs("client", B, s, out, w, k1, kind1, size1, In, temp, own)
      BY <3>2, LayoutWaits
    <3> QED
      BY <1>1, <1>2, <1>5, <1>6, <3>3
      DEF Layout, k, size, In, temp, kind, own, k1, size1, kind1, B, s, out, w
  <2>4. Received(m_qMessagesIn'["server"], sent'["client"])
    BY <1>1, <1>2, <1>9 DEF Sound
  <2> QED
    BY <1>2, <1>9, <2>2, <2>3, <2>4 DEF Sound
<1> QED
  BY <1>8, <1>9 DEF Ends

LEMMA ValidationWrittenSound ==
  ASSUME Typed, NEW e \in Ends, Sound(e), NEW f \in Ends, ValidationWritten(f)
  PROVE  Sound(e)'
<1>1. /\ Written(f, "validation", "validation") /\ Finish(f, "validation")
      /\ f = "client" => reading' = [reading EXCEPT ![f] = Buffer("header", 2)]
      /\ f # "client" => reading' = reading
      /\ UNCHANGED <<stream, filled, m_qMessagesOut, m_qMessagesIn, m_msgTemporaryIn, sent>>
  BY DEF ValidationWritten, StartRead, HeaderSize, program
<1>2. /\ "server" \in Ends /\ "client" \in Ends /\ "client" # "server"
      /\ Peer("server") = "client" /\ Peer("client") = "server"
      /\ "validation" \in Writes /\ "message" \in Writes /\ "message" # "validation"
      /\ "validation" \in Kinds /\ "validation" # "none"
  BY DEF Ends, Peer, Writes, Kinds
<1>3. /\ writing[f]["validation"].kind = "validation"
      /\ Left(writing[f]["validation"], moved[f]["validation"]) = 0
      /\ moved' = [moved EXCEPT ![f]["validation"] = 0]
  BY <1>1, <1>2, WrittenIs DEF Typed
<1>4. /\ writing'[e]["message"] = writing[e]["message"]
      /\ e # f => writing'[e] = writing[e] /\ moved'[e] = moved[e]
      /\ begun' = begun /\ requests' = requests
  BY <1>1, <1>2, <1>3 DEF Finish, Typed, WritesTyped
<1>5. f = "client" => /\ reading["client"] = Nothing /\ Len(filled["client"]) = 1
                      /\ m_qMessagesIn["client"] = << >>
  BY <1>2, <1>3 DEF Typed, Handshake, ReadsTyped, ReadIs
<1>6. \A x \in Ends : ReaderSame(x)
  <2>1. \A x \in Ends : reading'[x].got = reading[x].got
    <3>1. Nothing.got = << >> /\ Buffer("header", 2).got = << >>
      BY DEF Nothing, Buffer
    <3>2. CASE f = "client"
      BY <1>1, <1>2, <1>5, <3>1, <3>2 DEF Typed, ReadsTyped
    <3>3. CASE f # "client"
      BY <1>1, <3>3
    <3> QED
      BY <3>2, <3>3
  <2> QED
    BY <1>1, <2>1 DEF ReaderSame, Taken
<1>7. Flows(e)'
  <2>1. CASE e = f
    BY <1>1, <1>2, <1>3, <1>6, <2>1, PeerOf, FinishFlows DEF Sound
  <2>2. CASE e # f
    BY <1>4, <1>6, <2>2, PeerOf, FlowsSame DEF Sound, WriterSame
  <2> QED
    BY <2>1, <2>2
<1>8. LaidSame(e)
  BY <1>1, <1>4 DEF LaidSame
<1>9. CASE f = "client" /\ e = "server"
  <2>1. reading'["client"] = Buffer("header", 2) /\ reading'["server"] = reading["server"]
    BY <1>1, <1>2, <1>9 DEF Typed, ReadsTyped
  <2>2. reading["client"].kind \in Waits /\ reading'["client"].kind = "header"
    BY <1>5, <1>9, <2>1 DEF Nothing, Buffer, Waits
  <2>3. begun["server"] \in Seq(Seq(Words)) /\ begun["server"] # << >>
    <3>1. Len(filled["client"]) <= Len(begun["server"])
      BY <1>2, <1>9 DEF Sound, Flows, Flow, PrefixOf
    <3>2. Len(<< >>) = 0
      OBVIOUS
    <3>3. begun["server"] \in Seq(Seq(Words))
      BY <1>2, FlowTyped
    <3>4. Len(begun["server"]) # 0
      <4>1. Len(filled["client"]) = 1
        BY <1>5, <1>9
      <4>2. Len(begun["server"]) \in Nat
        BY <3>3, LenProperties
      <4> QED
        BY <3>1, <4>1, <4>2
    <3> QED
      BY <3>2, <3>3, <3>4
  <2> DEFINE k == Len(filled["client"])
             size == reading["client"].size
             size1 == reading'["client"].size
             In == m_qMessagesIn["client"]
             temp == m_msgTemporaryIn["client"]
             kind == reading["client"].kind
             own == reading["server"].kind
             B == begun["server"]
             s == sent["server"]
             out == m_qMessagesOut["server"]
             w == writing["server"]["message"].kind
  <2>4. /\ LayoutIs("server", B, s, out, w, k, kind, size, In, temp, own)
        /\ kind \in Waits /\ Len(In) = 0 /\ B \in Seq(Seq(Words)) /\ B # << >> /\ k = 1
    <3>1. Len(<< >>) = 0
      OBVIOUS
    <3> QED
      BY <1>2, <1>5, <1>9, <2>2, <2>3, <3>1 DEF Sound, Layout
  <2> HIDE DEF k, size, In, temp, kind, own, size1, B, s, out, w
  <2>5. LayoutIs("server", B, s, out, w, 1, "header", size1, In, temp, own)
    BY <1>2, <2>4, LayoutValidationRead
  <2>6. Layout("server")'
    BY <1>1, <1>2, <1>9, <1>4, <2>1, <2>2, <2>4, <2>5
    DEF Layout, k, size, In, temp, kind, own, size1, B, s, out, w
  <2>7. Received(m_qMessagesIn'["client"], sent'["server"])
    BY <1>1, <1>2, <1>9 DEF Sound
  <2> QED
    BY <1>2, <1>7, <1>9, <2>6, <2>7 DEF Sound
<1>10. CASE ~(f = "client" /\ e = "server")
  <2>1. InputSame(Peer(e))
    <3>1. Peer(e) \in Ends /\ (f = "client" => Peer(e) # f)
      BY <1>10 DEF Ends, Peer
    <3>2. reading'[Peer(e)] = reading[Peer(e)]
      BY <1>1, <3>1 DEF Typed, ReadsTyped
    <3> QED
      BY <1>1, <3>2 DEF InputSame
  <2>2. \/ reading'[e].kind = reading[e].kind
        \/ e = "client" => reading'[e].kind # "validation"
    <3>1. Buffer("header", 2).kind # "validation"
      BY DEF Buffer
    <3> QED
      BY <1>1, <3>1 DEF Typed, ReadsTyped
  <2>3. Layout(e)' /\ Received(m_qMessagesIn'[Peer(e)], sent'[e])
    BY <1>8, <2>1, <2>2, RestSame
  <2> QED
    BY <1>7, <2>3 DEF Sound
<1> QED
  BY <1>9, <1>10

(* A reader that has filled a buffer: the way to it, and its own way.      *)
LEMMA FilledSound ==
  ASSUME Typed, NEW d \in Ends, Sound(d), NEW k \in Kinds, k # "none",
         NEW n \in 1 .. MaxTransfer, Filled(Peer(d), k, n),
         reading'[Peer(d)].got = << >>, WriterSame(d)
  PROVE  /\ Flows(d)'
         /\ Len(filled[Peer(d)]) < Len(begun[d])
         /\ Got(Peer(d), n) = begun[d][Len(filled[Peer(d)]) + 1]
<1>1. Peer(d) \in Ends
  BY PeerOf
<1>2. /\ reading[Peer(d)].kind = k /\ reading[Peer(d)] \in Reads
      /\ ReadIs(reading[Peer(d)]) /\ m_qMessagesIn[Peer(d)] \in Seq(Messages)
  BY <1>1, FilledIs DEF Typed, ReadsTyped
<1>3. k = "validation" => filled[Peer(d)] = << >>
  BY <1>1, <1>2 DEF Typed, Handshake, Ends
<1>4. /\ begun[d] \in Seq(Seq(Words)) /\ filled[Peer(d)] \in Seq(Seq(Words))
      /\ sent[d] \in Seq(Messages)
  BY FlowTyped DEF Typed, QueuesTyped
<1> DEFINE F == Len(filled[Peer(d)])
           size == reading[Peer(d)].size
           In == m_qMessagesIn[Peer(d)]
           temp == m_msgTemporaryIn[Peer(d)]
           kind == reading[Peer(d)].kind
           own == reading[d].kind
           B == begun[d]
           s == sent[d]
           out == m_qMessagesOut[d]
           w == writing[d]["message"].kind
<1>5. F < Len(B) => Len(B[F + 1]) = size
  <2>1. /\ LayoutIs(d, B, s, out, w, F, kind, size, In, temp, own)
        /\ F \in Nat /\ B \in Seq(Seq(Words)) /\ s \in Seq(Messages) /\ kind \in Kinds
        /\ kind # "none" /\ Len(In) \in Nat
    BY <1>2, <1>4, LenProperties DEF Sound, Layout
  <2>2. kind = "validation" => F = 0
    <3>1. Len(<< >>) = 0
      OBVIOUS
    <3> QED
      BY <1>2, <1>3, <3>1
  <2>3. kind \in {"validation", "header"} => size = 2
    BY <1>2 DEF ReadIs
  <2> HIDE DEF F, size, In, temp, kind, own, B, s, out, w
  <2> QED
    BY <2>1, <2>2, <2>3, LayoutSize
<1> QED
  BY <1>5, FilledFlows DEF Sound

LEMMA OwnWay ==
  ASSUME Typed, NEW f \in Ends, Sound(f), NEW b,
         reading' = [reading EXCEPT ![f] = b], b.kind # "validation",
         UNCHANGED <<writing, requests, moved, begun, m_qMessagesOut, sent>>,
         LET r == Peer(f)
         IN  /\ stream'[r] = stream[r] /\ filled'[r] = filled[r]
             /\ m_qMessagesIn'[r] = m_qMessagesIn[r]
             /\ m_msgTemporaryIn'[r] = m_msgTemporaryIn[r]
  PROVE  Sound(f)'
<1>1. Peer(f) \in Ends /\ Peer(f) # f
  BY PeerOf
<1>2. reading'[Peer(f)] = reading[Peer(f)] /\ reading'[f] = b
  BY <1>1 DEF Typed, ReadsTyped
<1>3. WriterSame(f) /\ ReaderSame(Peer(f))
  BY <1>2 DEF WriterSame, ReaderSame, Taken
<1>4. Flows(f)'
  BY <1>3, FlowsSame DEF Sound
<1>5. LaidSame(f) /\ InputSame(Peer(f)) /\ (f = "client" => reading'[f].kind # "validation")
  BY <1>2 DEF LaidSame, InputSame
<1>6. Layout(f)' /\ Received(m_qMessagesIn'[Peer(f)], sent'[f])
  BY <1>5, RestSame
<1> QED
  BY <1>4, <1>6 DEF Sound

(* The server cannot take the header of a message for the answer.          *)
AnswerIsNoHeader == Answer \notin HeadersOf(ClientMessages)

LEMMA AnswerReadSound ==
  ASSUME AnswerIsNoHeader, Typed, NEW e \in Ends, Sound(e), AnswerRead
  PROVE  Sound(e)'
<1>1. PICK n \in 1 .. MaxTransfer :
        /\ Filled("server", "validation", n)
        /\ \/ /\ Got("server", n) = Answer
              /\ reading' = [reading EXCEPT !["server"] = Buffer("header", 2)]
           \/ /\ Got("server", n) # Answer
              /\ reading' = [reading EXCEPT !["server"] = Nothing]
  BY AnswerReadIs
<1>2. UNCHANGED <<writing, requests, moved, begun, m_qMessagesOut, m_qMessagesIn,
                  m_msgTemporaryIn, sent>>
  BY DEF AnswerRead, writes, program
<1>3. /\ "server" \in Ends /\ "client" \in Ends /\ "client" # "server"
      /\ Peer("server") = "client" /\ Peer("client") = "server"
      /\ "validation" \in Kinds /\ "validation" # "none"
  BY DEF Ends, Peer, Kinds
<1>4. /\ reading["server"].kind = "validation" /\ ReadSome("server", n)
      /\ filled' = [filled EXCEPT !["server"] = Append(filled["server"], Got("server", n))]
      /\ Len(filled'["server"]) = Len(filled["server"]) + 1
  BY <1>1, <1>3, FilledIs DEF Typed
<1>5. stream'["client"] = stream["client"] /\ filled'["client"] = filled["client"]
  BY <1>3, <1>4 DEF ReadSome, Typed, ReadsTyped
<1>6. PICK b : /\ reading' = [reading EXCEPT !["server"] = b] /\ b.kind # "validation"
               /\ b.got = << >>
               /\ Got("server", n) = Answer => b.kind = "header"
               /\ Got("server", n) # Answer => b.kind = "none"
  <2>1. /\ Buffer("header", 2).kind = "header" /\ Buffer("header", 2).got = << >>
        /\ Nothing.kind = "none" /\ Nothing.got = << >>
    BY DEF Buffer, Nothing
  <2> QED
    BY <1>1, <2>1
<1>7. CASE e = "server"
  BY <1>2, <1>3, <1>5, <1>6, <1>7, OwnWay
<1>8. CASE e = "client"
  <2>1. reading'["server"] = b /\ reading'["client"] = reading["client"]
    BY <1>3, <1>6 DEF Typed, ReadsTyped
  <2>2. WriterSame("client")
    BY <1>2 DEF WriterSame
  <2>3. /\ Flows("client")' /\ Len(filled["server"]) < Len(begun["client"])
        /\ Got("server", n) = begun["client"][Len(filled["server"]) + 1]
    <3>1. Filled(Peer("client"), "validation", n) /\ reading'[Peer("client")].got = << >>
      BY <1>1, <1>3, <1>6, <2>1
    <3>2. Sound("client")
      BY <1>8
    <3> HIDE DEF WriterSame
    <3> QED
      BY <1>3, <2>2, <3>1, <3>2, FilledSound
  <2>4. Len(filled["server"]) = 0 /\ Len(m_qMessagesIn["server"]) = 0
    <3>1. Len(<< >>) = 0
      OBVIOUS
    <3> QED
      BY <1>4, <3>1 DEF Typed, Handshake
  <2>5. begun["client"] \in Seq(Seq(Words)) /\ begun["client"] # << >>
    <3>1. Len(<< >>) = 0
      OBVIOUS
    <3>2. begun["client"] \in Seq(Seq(Words))
      BY <1>3, FlowTyped
    <3> QED
      BY <2>3, <2>4, <3>1, <3>2
  <2>6. Got("server", n) = begun["client"][1]
    BY <2>3, <2>4
  <2> DEFINE k == Len(filled["server"])
             size == reading["server"].size
             size1 == reading'["server"].size
             In == m_qMessagesIn["server"]
             temp == m_msgTemporaryIn["server"]
             kind == reading["server"].kind
             kind1 == reading'["server"].kind
             own == reading["client"].kind
             B == begun["client"]
             s == sent["client"]
             out == m_qMessagesOut["client"]
             w == writing["client"]["message"].kind
  <2>7. /\ LayoutIs("client", B, s, out, w, k, kind, size, In, temp, own)
        /\ kind \in Waits /\ Len(In) = 0 /\ B \in Seq(Seq(Words)) /\ B # << >>
    BY <1>3, <1>4, <1>8, <2>4, <2>5 DEF Sound, Layout, Waits
  <2>8. LayoutIs("client", B, s, out, w, 1, kind1, size1, In, temp, own)
    <3>1. CASE Got("server", n) = Answer
      <4>1. kind1 = "header" /\ B[1] = Answer
        BY <1>6, <2>1, <2>6, <3>1
      <4> HIDE DEF k, size, In, temp, kind, own, size1, kind1, B, s, out, w
      <4>2. ~(B[1] \in HeadersOf(ClientMessages))
        BY <4>1 DEF AnswerIsNoHeader
      <4>3. LayoutIs("client", B, s, out, w, 1, "header", size1, In, temp, own)
        BY <2>7, <4>2, LayoutValidationRead
      <4> QED
        BY <4>1, <4>3
    <3>2. CASE Got("server", n) # Answer
      <4>1. kind1 \in Waits
        BY <1>6, <2>1, <3>2 DEF Waits
      <4> HIDE DEF k, size, In, temp, kind, own, size1, kind1, B, s, out, w
      <4> QED
        BY <2>7, <4>1, LayoutWaits
    <3> QED
      BY <3>1, <3>2
  <2>9. Layout("client")'
    <3>1. Len(filled'["server"]) = 1
      BY <1>4, <2>4
    <3> QED
      BY <1>2, <1>3, <2>1, <2>8, <3>1 DEF Layout
  <2>10. Received(m_qMessagesIn'["server"], sent'["client"])
    BY <1>2, <1>3, <1>8 DEF Sound
  <2> QED
    BY <1>3, <1>8, <2>3, <2>9, <2>10 DEF Sound
<1> QED
  BY <1>7, <1>8 DEF Ends

LEMMA ChallengeReadSound ==
  ASSUME Typed, NEW e \in Ends, Sound("client"), Sound("server"), ChallengeRead
  PROVE  Sound(e)'
<1>1. PICK n \in 1 .. MaxTransfer :
        LET d == Data("validation", IF Got("client", n) = Challenge
                                    THEN Answer ELSE OtherAnswer)
        IN  /\ Filled("client", "validation", n)
            /\ Begin("client", "validation", d)
            /\ d \in Operations /\ d.kind = "validation" /\ d.data # << >> /\ d.done = 0
            /\ d.data = IF Got("client", n) = Challenge THEN Answer ELSE OtherAnswer
            /\ reading' = [reading EXCEPT !["client"] = Nothing]
  BY ChallengeReadIs
<1> DEFINE d == Data("validation", IF Got("client", n) = Challenge
                                   THEN Answer ELSE OtherAnswer)
<1>2. /\ Filled("client", "validation", n) /\ Begin("client", "validation", d)
      /\ d \in Operations /\ d.data # << >> /\ d.done = 0
      /\ Got("client", n) = Challenge => d.data = Answer
      /\ reading' = [reading EXCEPT !["client"] = Nothing]
  BY <1>1
<1> HIDE DEF d
<1>3. UNCHANGED <<moved, m_qMessagesOut, m_qMessagesIn, m_msgTemporaryIn, sent>>
  BY DEF ChallengeRead, program
<1>4. /\ "server" \in Ends /\ "client" \in Ends /\ "client" # "server"
      /\ Peer("server") = "client" /\ Peer("client") = "server"
      /\ "validation" \in Kinds /\ "validation" # "none"
      /\ "validation" \in Writes /\ "message" \in Writes /\ "message" # "validation"
  BY DEF Ends, Peer, Kinds, Writes
<1>5. /\ reading["client"].kind = "validation" /\ ReadSome("client", n)
      /\ filled' = [filled EXCEPT !["client"] = Append(filled["client"], Got("client", n))]
      /\ Len(filled'["client"]) = Len(filled["client"]) + 1
  BY <1>2, <1>4, FilledIs DEF Typed
<1>6. stream'["server"] = stream["server"] /\ filled'["server"] = filled["server"]
  BY <1>4, <1>5 DEF ReadSome, Typed, ReadsTyped
<1>7. /\ reading'["server"] = reading["server"]
      /\ reading'["client"].kind = "none" /\ reading'["client"].got = << >>
  <2>1. Nothing.kind = "none" /\ Nothing.got = << >>
    BY DEF Buffer, Nothing
  <2> QED
    BY <1>2, <1>4, <2>1 DEF Typed, ReadsTyped
<1>8. /\ writing'["client"]["message"] = writing["client"]["message"]
      /\ writing'["server"] = writing["server"] /\ requests'["server"] = requests["server"]
      /\ begun'["server"] = begun["server"]
      /\ begun'["client"] = Append(begun["client"], d.data)
  BY <1>2, <1>4 DEF Begin, Typed, WritesTyped
<1>9. /\ Flows("server")' /\ Len(filled["client"]) < Len(begun["server"])
      /\ Got("client", n) = begun["server"][Len(filled["client"]) + 1]
  <2>1. WriterSame("server")
    BY <1>3, <1>8 DEF WriterSame
  <2>2. Filled(Peer("server"), "validation", n) /\ reading'[Peer("server")].got = << >>
    BY <1>2, <1>4, <1>7
  <2> QED
    BY <1>4, <2>1, <2>2, FilledSound
<1>10. Len(filled["client"]) = 0 /\ Len(m_qMessagesIn["client"]) = 0
  <2>1. Len(<< >>) = 0
    OBVIOUS
  <2> QED
    BY <1>5, <2>1 DEF Typed, Handshake
<1>11. begun["server"] \in Seq(Seq(Words)) /\ begun["server"] # << >>
  <2>1. Len(<< >>) = 0
    OBVIOUS
  <2>2. begun["server"] \in Seq(Seq(Words))
    BY <1>4, FlowTyped
  <2> QED
    BY <1>9, <1>10, <2>1, <2>2
<1>12. CASE e = "server"
  <2> DEFINE k == Len(filled["client"])
             k1 == Len(filled'["client"])
             size == reading["client"].size
             size1 == reading'["client"].size
             In == m_qMessagesIn["client"]
             temp == m_msgTemporaryIn["client"]
             kind == reading["client"].kind
             kind1 == reading'["client"].kind
             own == reading["server"].kind
             B == begun["server"]
             s == sent["server"]
             out == m_qMessagesOut["server"]
             w == writing["server"]["message"].kind
  <2>1. LayoutIs("server", B, s, out, w, k, kind, size, In, temp, own) /\ kind1 \in Waits
    BY <1>4, <1>7 DEF Sound, Layout, Waits
  <2> HIDE DEF k, size, In, temp, kind, own, size1, kind1, B, s, out, w, k1
  <2>2. LayoutIs("server", B, s, out, w, k1, kind1, size1, In, temp, own)
    BY <2>1, LayoutWaits
  <2>3. Layout("server")'
    BY <1>3, <1>4, <1>7, <1>8, <2>2
    DEF Layout, k, size, In, temp, kind, own, size1, kind1, B, s, out, w, k1
  <2>4. Received(m_qMessagesIn'["client"], sent'["server"])
    BY <1>3, <1>4 DEF Sound
  <2> QED
    BY <1>4, <1>9, <1>12, <2>3, <2>4 DEF Sound
<1>13. CASE e = "client"
  <2>1. d.data = Answer
    <3>1. Got("client", n) = begun["server"][1]
      BY <1>9, <1>10
    <3> DEFINE k == Len(filled["client"])
               size == reading["client"].size
               In == m_qMessagesIn["client"]
               temp == m_msgTemporaryIn["client"]
               kind == reading["client"].kind
               own == reading["server"].kind
               B == begun["server"]
               s == sent["server"]
               out == m_qMessagesOut["server"]
               w == writing["server"]["message"].kind
    <3>2. /\ LayoutIs("server", B, s, out, w, k, kind, size, In, temp, own)
          /\ kind \in Waits /\ B \in Seq(Seq(Words)) /\ B # << >> /\ Len(In) = 0
      BY <1>4, <1>5, <1>10, <1>11 DEF Sound, Layout, Waits
    <3> HIDE DEF k, size, In, temp, kind, own, B, s, out, w
    <3>3. B[1] = First("server")
      BY <1>4, <3>2, LayoutValidationRead
    <3>4. B[1] = Challenge
      BY <3>3 DEF First
    <3> QED
      BY <1>2, <3>1, <3>4 DEF B
  <2>2. writing["client"]["validation"].kind = "none"
    BY <1>5 DEF Typed, Handshake
  <2>3. Flows("client")'
    <3>1. /\ Left(writing["client"]["validation"], moved["client"]["validation"]) = 0
          /\ ~Asks(requests["client"], "validation")
          /\ moved' = [moved EXCEPT !["client"]["validation"] = 0]
      BY <1>3, <1>4, <2>2, IdleWrite
    <3>2. ReaderSame(Peer("client"))
      BY <1>4, <1>6, <1>7 DEF ReaderSame, Taken
    <3>3. Flows("client")
      BY DEF Sound
    <3> QED
      BY <1>2, <1>4, <3>1, <3>2, <3>3, BeginFlows
  <2> DEFINE k == Len(filled["server"])
             size == reading["server"].size
             In == m_qMessagesIn["server"]
             temp == m_msgTemporaryIn["server"]
             kind == reading["server"].kind
             own == reading["client"].kind
             own1 == reading'["client"].kind
             B == begun["client"]
             s == sent["client"]
             out == m_qMessagesOut["client"]
             w == writing["client"]["message"].kind
  <2>4. /\ LayoutIs("client", B, s, out, w, k, kind, size, In, temp, own)
        /\ own = "validation" /\ own1 # "validation" /\ B \in Seq(Seq(Words))
    BY <1>4, <1>5, <1>7, FlowTyped DEF Sound, Layout
  <2>5. LayoutIs("client", Append(B, Answer), s, out, w, k, kind, size, In, temp, own1)
    <3>1. CASE B = << >>
      <4>1. s = << >> /\ out = << >> /\ w = "none" /\ kind \in Waits
        BY <1>4, <3>1, NotBegun DEF Sound
      <4> HIDE DEF k, size, In, temp, kind, own, own1, B, s, out, w
      <4>2. Answer \in Seq(Words) /\ Answer = First("client")
        BY ConstantsTyped DEF First
      <4>3. LayoutIs("client", Append(B, Answer), << >>, << >>, "none", k, kind, size, In,
                     temp, own1)
        BY <2>4, <3>1, <4>1, <4>2, LayoutStarts
      <4> QED
        BY <4>1, <4>3
    <3>2. CASE B # << >>
      <4> HIDE DEF k, size, In, temp, kind, own, own1, B, s, out, w
      <4>1. B[1] \in HeadersOf(ClientMessages) /\ kind \in Waits
        BY <2>4, <3>2 DEF LayoutIs
      <4>2. Append(B, Answer) # << >> /\ Append(B, Answer)[1] = B[1]
        BY <2>4, <3>2, ConstantsTyped, FirstKept
      <4> QED
        BY <4>1, <4>2 DEF LayoutIs
    <3> QED
      BY <3>1, <3>2
  <2>6. Layout("client")'
    BY <1>3, <1>4, <1>6, <1>7, <1>8, <2>1, <2>5 DEF Layout
  <2>7. Received(m_qMessagesIn'["server"], sent'["client"])
    BY <1>3, <1>4 DEF Sound
  <2> QED
    BY <1>4, <1>13, <2>3, <2>6, <2>7 DEF Sound
<1> QED
  BY <1>12, <1>13 DEF Ends
-----------------------------------------------------------------------------
(* Messages are read.                                                      *)
LEMMA ReceivedNext ==
  ASSUME NEW In \in Seq(Messages), NEW s, Received(In, s), Coming(In) \in 1 .. Len(s),
         NEW m \in Messages, Matches(m, s[Coming(In)])
  PROVE  Received(Append(In, m), s)
<1> DEFINE z == Append(In, m)
<1>1. /\ Len(z) = Len(In) + 1 /\ z[Len(In) + 1] = m
      /\ \A i \in 1 .. Len(In) : z[i] = In[i]
  BY AppendProperties
<1>2. Len(In) \in Nat
  BY LenProperties
<1> HIDE DEF z
<1>3. Len(z) <= Len(s)
  BY <1>1, <1>2 DEF Coming
<1>4. ASSUME NEW i \in 1 .. Len(z) PROVE Matches(z[i], s[i])
  <2>1. CASE i \in 1 .. Len(In)
    BY <1>1, <2>1 DEF Received
  <2>2. CASE i = Len(In) + 1
    BY <1>1, <2>2 DEF Coming
  <2> QED
    BY <1>1, <1>2, <2>1, <2>2
<1>5. Received(z, s)
  BY <1>3, <1>4 DEF Received
<1> QED
  BY <1>5 DEF z

LEMMA ReceivedSent ==
  ASSUME NEW In \in Seq(Messages), NEW s \in Seq(Messages), Received(In, s),
         NEW m \in Messages
  PROVE  Received(In, Append(s, m))
<1> DEFINE z == Append(s, m)
<1>1. /\ Len(z) = Len(s) + 1
      /\ \A i \in 1 .. Len(s) : z[i] = s[i]
  BY AppendProperties
<1>2. Len(In) \in Nat /\ Len(s) \in Nat
  BY LenProperties
<1> HIDE DEF z
<1>3. Len(In) <= Len(z) /\ \A i \in 1 .. Len(In) : i \in 1 .. Len(s)
  BY <1>1, <1>2 DEF Received
<1>4. Received(In, z)
  BY <1>1, <1>3 DEF Received
<1> QED
  BY <1>4 DEF z

LEMMA ReadHeaderSound ==
  ASSUME Typed, NEW e \in Ends, Sound(e), TrueSizes(sent[e]), ReadHeader(Peer(e))
  PROVE  Sound(e)'
<1> DEFINE r == Peer(e)
           old == m_msgTemporaryIn[r]
<1>1. r \in Ends /\ r # e
  BY PeerOf
<1>2. PICK n \in 1 .. MaxTransfer, id \in Words, size \in Words :
        LET msg == [id |-> id, size |-> size, body |-> old.body]
            kept == [id |-> id, size |-> size, body |-> Resized(old.body, size)]
        IN  /\ Filled(r, "header", n)
            /\ id = Got(r, n)[1] /\ size = Got(r, n)[2]
            /\ msg \in Messages
            /\ size > 0 => /\ m_msgTemporaryIn' = [m_msgTemporaryIn EXCEPT ![r] = kept]
                           /\ reading' = [reading EXCEPT ![r] = Buffer("body", size)]
                           /\ m_qMessagesIn' = m_qMessagesIn
                           /\ kept \in Messages
            /\ ~(size > 0) =>
                 /\ m_msgTemporaryIn' = [m_msgTemporaryIn EXCEPT ![r] = msg]
                 /\ reading' = [reading EXCEPT ![r] = Buffer("header", 2)]
                 /\ m_qMessagesIn' = [m_qMessagesIn EXCEPT ![r] =
                                        Append(m_qMessagesIn[r], msg)]
  BY <1>1, ReadHeaderIs DEF Typed
<1>3. UNCHANGED <<writing, requests, moved, begun, m_qMessagesOut, sent>>
  BY DEF ReadHeader, writes, program
<1>4. "header" \in Kinds /\ "header" # "none"
  BY DEF Kinds
<1>5. /\ Filled(r, "header", n) /\ id = Got(r, n)[1] /\ size = Got(r, n)[2]
      /\ reading[r].kind = "header" /\ Len(filled'[r]) = Len(filled[r]) + 1
  BY <1>1, <1>2, <1>4, FilledIs DEF Typed
<1> DEFINE k == Len(filled[r])
           size0 == reading[r].size
           In == m_qMessagesIn[r]
           temp == m_msgTemporaryIn[r]
           own == reading[e].kind
           B == begun[e]
           s == sent[e]
           out == m_qMessagesOut[e]
           w == writing[e]["message"].kind
           size1 == reading'[r].size
           In1 == m_qMessagesIn'[r]
           temp1 == m_msgTemporaryIn'[r]
           m == Coming(In)
           msg == [id |-> id, size |-> size, body |-> old.body]
<1>6. /\ reading'[r].got = << >> /\ reading'[e] = reading[e]
      /\ size > 0 => /\ reading'[r].kind = "body" /\ size1 = size /\ In1 = In
                     /\ temp1.id = id /\ temp1.size = size
      /\ ~(size > 0) => reading'[r].kind = "header" /\ In1 = Append(In, msg)
  <2>1. \A kd, sz : /\ Buffer(kd, sz).got = << >> /\ Buffer(kd, sz).kind = kd
                    /\ Buffer(kd, sz).size = sz
    BY DEF Buffer
  <2>2. /\ reading \in [Ends -> Reads] /\ m_qMessagesIn \in [Ends -> Seq(Messages)]
        /\ m_msgTemporaryIn \in [Ends -> Messages]
    BY DEF Typed, ReadsTyped
  <2>3. CASE size > 0
    <3> DEFINE kept == [id |-> id, size |-> size, body |-> Resized(old.body, size)]
    <3>1. /\ m_msgTemporaryIn' = [m_msgTemporaryIn EXCEPT ![r] = kept]
          /\ reading' = [reading EXCEPT ![r] = Buffer("body", size)]
          /\ m_qMessagesIn' = m_qMessagesIn
      BY <1>2, <2>3
    <3>2. kept.id = id /\ kept.size = size
      OBVIOUS
    <3> HIDE DEF kept
    <3> QED
      BY <1>1, <2>1, <2>2, <2>3, <3>1, <3>2
  <2>4. CASE ~(size > 0)
    <3>1. /\ reading' = [reading EXCEPT ![r] = Buffer("header", 2)]
          /\ m_qMessagesIn' = [m_qMessagesIn EXCEPT ![r] = Append(m_qMessagesIn[r], msg)]
      BY <1>2, <2>4
    <3> HIDE DEF msg
    <3> QED
      BY <1>1, <2>1, <2>2, <2>4, <3>1
  <2> QED
    BY <2>3, <2>4
<1>7. msg \in Messages
  BY <1>2
<1>8. WriterSame(e)
  BY <1>3 DEF WriterSame
<1>9. Flows(e)' /\ k < Len(B) /\ Got(r, n) = B[k + 1]
  BY <1>4, <1>5, <1>6, <1>8, FilledSound
<1>10. /\ LayoutIs(e, B, s, out, w, k, "header", size0, In, temp, own)
       /\ B \in Seq(Seq(Words)) /\ s \in Seq(Messages) /\ In \in Seq(Messages)
       /\ k \in Nat /\ Len(In) \in Nat
       /\ TrueSizes(s)
       /\ Received(In, s)
  BY <1>1, <1>5, FlowTyped, LenProperties
  DEF Sound, Layout, Typed, QueuesTyped, ReadsTyped
<1>11. msg.id = id /\ msg.size = size
  OBVIOUS
<1> HIDE DEF k, size0, In, temp, own, B, s, out, w, size1, In1, temp1, m, msg
<1>12a. AfterHeader(e, B, s, out, w, k, own, In, m, size1, In1, temp1)
  BY <1>9, <1>10, LayoutHeaderRead DEF m
<1>12. /\ m \in 1 .. Len(s) /\ B[k + 1] = <<s[m].id, s[m].size>>
       /\ /\ s[m].size > 0 /\ size1 = s[m].size /\ In1 = In
             /\ temp1.id = s[m].id /\ temp1.size = s[m].size
            => LayoutIs(e, B, s, out, w, k + 1, "body", size1, In1, temp1, own)
       /\ ~(s[m].size > 0) /\ Len(In1) = m
            => /\ s[m].body = << >>
               /\ LayoutIs(e, B, s, out, w, k + 1, "header", size1, In1, temp1, own)
  BY <1>12a DEF AfterHeader
<1>13. id = s[m].id /\ size = s[m].size
  BY <1>5, <1>9, <1>12
<1>14. /\ LayoutIs(e, B, s, out, w, k + 1, reading'[r].kind, size1, In1, temp1, own)
       /\ Received(In1, s)
  <2>1. CASE size > 0
    BY <1>6, <1>10, <1>12, <1>13, <2>1
  <2>2. CASE ~(size > 0)
    <3>1. In1 = Append(In, msg) /\ reading'[r].kind = "header"
      BY <1>6, <2>2
    <3>2. Len(In1) = m
      BY <1>7, <1>10, <3>1, AppendProperties DEF m, Coming
    <3>3. /\ s[m].body = << >>
          /\ LayoutIs(e, B, s, out, w, k + 1, "header", size1, In1, temp1, own)
      BY <1>12, <1>13, <2>2, <3>2
    <3>4. Matches(msg, s[m])
      BY <1>11, <1>13, <3>3 DEF Matches
    <3>5. Received(Append(In, msg), s)
      BY <1>7, <1>10, <1>12, <3>4, ReceivedNext DEF m
    <3> QED
      BY <3>1, <3>3, <3>5
  <2> QED
    BY <2>1, <2>2
<1>15. Layout(e)'
  BY <1>3, <1>5, <1>6, <1>14
  DEF Layout, k, size0, In, temp, own, B, s, out, w, size1, In1, temp1
<1>16. Received(m_qMessagesIn'[Peer(e)], sent'[e])
  BY <1>3, <1>14 DEF In1, s
<1> QED
  BY <1>9, <1>15, <1>16 DEF Sound

LEMMA ReadBodySound ==
  ASSUME Typed, NEW e \in Ends, Sound(e), ReadBody(Peer(e))
  PROVE  Sound(e)'
<1> DEFINE r == Peer(e)
           old == m_msgTemporaryIn[r]
<1>1. r \in Ends /\ r # e
  BY PeerOf
<1>2. PICK n \in 1 .. MaxTransfer :
        LET msg == [id |-> old.id, size |-> old.size, body |-> Got(r, n)]
        IN  /\ Filled(r, "body", n)
            /\ msg \in Messages
            /\ m_msgTemporaryIn' = [m_msgTemporaryIn EXCEPT ![r] = msg]
            /\ reading' = [reading EXCEPT ![r] = Buffer("header", 2)]
            /\ m_qMessagesIn' = [m_qMessagesIn EXCEPT ![r] =
                                   Append(m_qMessagesIn[r], msg)]
  BY <1>1, ReadBodyIs DEF Typed
<1>3. UNCHANGED <<writing, requests, moved, begun, m_qMessagesOut, sent>>
  BY DEF ReadBody, writes, program
<1>4. "body" \in Kinds /\ "body" # "none"
  BY DEF Kinds
<1>5. /\ Filled(r, "body", n)
      /\ reading[r].kind = "body" /\ Len(filled'[r]) = Len(filled[r]) + 1
  BY <1>1, <1>2, <1>4, FilledIs DEF Typed
<1> DEFINE k == Len(filled[r])
           size0 == reading[r].size
           In == m_qMessagesIn[r]
           own == reading[e].kind
           B == begun[e]
           s == sent[e]
           out == m_qMessagesOut[e]
           w == writing[e]["message"].kind
           size1 == reading'[r].size
           In1 == m_qMessagesIn'[r]
           temp1 == m_msgTemporaryIn'[r]
           m == Coming(In)
           msg == [id |-> old.id, size |-> old.size, body |-> Got(r, n)]
<1>6. /\ reading'[r].got = << >> /\ reading'[e] = reading[e]
      /\ reading'[r].kind = "header" /\ In1 = Append(In, msg)
  <2>1. /\ Buffer("header", 2).got = << >> /\ Buffer("header", 2).kind = "header"
    BY DEF Buffer
  <2>2. /\ reading' = [reading EXCEPT ![r] = Buffer("header", 2)]
        /\ m_qMessagesIn' = [m_qMessagesIn EXCEPT ![r] = Append(m_qMessagesIn[r], msg)]
    BY <1>2
  <2> HIDE DEF msg
  <2> QED
    BY <1>1, <2>1, <2>2 DEF Typed, ReadsTyped
<1>7. msg \in Messages
  BY <1>2
<1>8. WriterSame(e)
  BY <1>3 DEF WriterSame
<1>9. Flows(e)' /\ k < Len(B) /\ Got(r, n) = B[k + 1]
  BY <1>4, <1>5, <1>6, <1>8, FilledSound
<1>10. /\ LayoutIs(e, B, s, out, w, k, "body", size0, In, old, own)
       /\ B \in Seq(Seq(Words)) /\ s \in Seq(Messages) /\ In \in Seq(Messages)
       /\ k \in Nat /\ Len(In) \in Nat /\ Received(In, s)
  BY <1>1, <1>5, FlowTyped, LenProperties DEF Sound, Layout, Typed, QueuesTyped, ReadsTyped
<1>11. msg.id = old.id /\ msg.size = old.size /\ msg.body = Got(r, n)
  OBVIOUS
<1> HIDE DEF k, size0, In, old, own, B, s, out, w, size1, In1, temp1, m, msg
<1>12. Len(In1) = Len(In) + 1
  BY <1>6, <1>7, <1>10, AppendProperties
<1>13. /\ m \in 1 .. Len(s) /\ B[k + 1] = s[m].body
       /\ old.id = s[m].id /\ old.size = s[m].size
       /\ LayoutIs(e, B, s, out, w, k + 1, "header", size1, In1, temp1, own)
  BY <1>9, <1>10, <1>12, LayoutBodyRead DEF m
<1>14. Matches(msg, s[m])
  BY <1>9, <1>11, <1>13 DEF Matches
<1>15. Received(In1, s)
  BY <1>6, <1>7, <1>10, <1>13, <1>14, ReceivedNext DEF m
<1>16. Layout(e)'
  BY <1>3, <1>5, <1>6, <1>13
  DEF Layout, k, size0, In, own, B, s, out, w, size1, In1, temp1
<1>17. Received(m_qMessagesIn'[Peer(e)], sent'[e])
  BY <1>3, <1>15 DEF In1, s
<1> QED
  BY <1>9, <1>16, <1>17 DEF Sound

LEMMA MessageReadSound ==
  ASSUME Typed, NEW e \in Ends, Sound(e), TrueSizes(sent[e]), NEW f \in Ends,
         ReadHeader(f) \/ ReadBody(f)
  PROVE  Sound(e)'
<1>1. CASE f # e
  <2>1. f = Peer(e)
    BY <1>1, PeerOf
  <2> QED
    BY <2>1, ReadHeaderSound, ReadBodySound
<1>2. CASE f = e
  <2> DEFINE r == Peer(e)
  <2>1. r \in Ends /\ r # e
    BY PeerOf
  <2>2. UNCHANGED <<writing, requests, moved, begun, m_qMessagesOut, sent>>
    BY DEF ReadHeader, ReadBody, writes, program
  <2>3. /\ \E b : reading' = [reading EXCEPT ![e] = b] /\ b.kind # "validation"
        /\ \E F : filled' = [filled EXCEPT ![e] = F]
        /\ \E T : stream' = [stream EXCEPT ![e] = T]
        /\ \/ \E In : m_qMessagesIn' = [m_qMessagesIn EXCEPT ![e] = In]
           \/ m_qMessagesIn' = m_qMessagesIn
        /\ \E msg : m_msgTemporaryIn' = [m_msgTemporaryIn EXCEPT ![e] = msg]
    <3>1. \A n : Buffer("header", n).kind # "validation" /\ Buffer("body", n).kind # "validation"
      BY DEF Buffer
    <3>2. CASE ReadHeader(e)
      BY <3>1, <3>2
      DEF ReadHeader, Filled, ReadSome, StartRead, AddToIncomingMessageQueue
    <3>3. CASE ReadBody(e)
      <4>1. PICK n : /\ Filled(e, "body", n)
                     /\ LET msg == [m_msgTemporaryIn[e] EXCEPT !.body = Got(e, n)]
                        IN  /\ m_msgTemporaryIn' = [m_msgTemporaryIn EXCEPT ![e] = msg]
                            /\ AddToIncomingMessageQueue(e, msg)
        BY <3>3 DEF ReadBody
      <4>2. /\ \E F : filled' = [filled EXCEPT ![e] = F]
            /\ \E T : stream' = [stream EXCEPT ![e] = T]
        BY <4>1 DEF Filled, ReadSome
      <4>3. \E b : reading' = [reading EXCEPT ![e] = b] /\ b.kind # "validation"
        BY <3>1, <4>1 DEF AddToIncomingMessageQueue, StartRead
      <4>4. /\ \E In : m_qMessagesIn' = [m_qMessagesIn EXCEPT ![e] = In]
            /\ \E msg : m_msgTemporaryIn' = [m_msgTemporaryIn EXCEPT ![e] = msg]
        BY <4>1 DEF AddToIncomingMessageQueue
      <4> QED
        BY <4>2, <4>3, <4>4
    <3> QED
      BY <1>2, <3>2, <3>3
  <2>4. /\ stream'[r] = stream[r] /\ filled'[r] = filled[r]
        /\ m_qMessagesIn'[r] = m_qMessagesIn[r]
        /\ m_msgTemporaryIn'[r] = m_msgTemporaryIn[r]
    BY <2>1, <2>3 DEF Typed, ReadsTyped
  <2> QED
    BY <2>2, <2>3, <2>4, OwnWay
<1> QED
  BY <1>1, <1>2
-----------------------------------------------------------------------------
(* Messages are sent and written.                                          *)

(* What only one end does changes nothing of the way from the other one.   *)
LEMMA OtherEnd ==
  ASSUME Typed, NEW e \in Ends, Sound(e),
         UNCHANGED <<stream, reading, filled, m_qMessagesIn, m_msgTemporaryIn>>,
         writing'[e] = writing[e], requests'[e] = requests[e], moved'[e] = moved[e],
         begun'[e] = begun[e], m_qMessagesOut'[e] = m_qMessagesOut[e], sent'[e] = sent[e]
  PROVE  Sound(e)'
<1>1. ReaderSame(Peer(e)) /\ WriterSame(e)
  BY DEF WriterSame, ReaderSame, Taken
<1>2. Flows(e)'
  BY <1>1, FlowsSame DEF Sound
<1>3. LaidSame(e) /\ InputSame(Peer(e)) /\ reading'[e].kind = reading[e].kind
  BY DEF LaidSame, InputSame
<1>4. Layout(e)' /\ Received(m_qMessagesIn'[Peer(e)], sent'[e])
  BY <1>3, RestSame
<1> QED
  BY <1>2, <1>4 DEF Sound

LEMMA SendSound ==
  ASSUME Typed, NEW e \in Ends, Sound(e), NEW f \in Ends, NEW msg \in Messages,
         Send(f, msg),
         begun[f] = << >> => f = "client" /\ msg \in ClientMessages
  PROVE  Sound(e)'
<1> DEFINE h == Header(msg)
<1>1. /\ m_qMessagesOut' = [m_qMessagesOut EXCEPT ![f] = Append(m_qMessagesOut[f], msg)]
      /\ sent' = [sent EXCEPT ![f] = Append(sent[f], msg)]
      /\ m_qMessagesOut[f] = << >> => Begin(f, "message", h) /\ moved' = moved
      /\ m_qMessagesOut[f] # << >> => UNCHANGED <<writing, requests, moved, begun>>
      /\ UNCHANGED <<stream, reading, filled, m_qMessagesIn, m_msgTemporaryIn>>
  BY DEF Send, writes, inputs
<1>2. "message" \in Writes
  BY DEF Writes
<1>3. /\ h \in Operations /\ h.kind = "header" /\ h.data # << >> /\ h.done = 0
      /\ h.data = <<msg.id, msg.size>>
  BY HeaderTyped
<1> HIDE DEF h
<1>4. CASE f # e
  <2>1. /\ m_qMessagesOut'[e] = m_qMessagesOut[e] /\ sent'[e] = sent[e]
    BY <1>1, <1>4 DEF Typed, QueuesTyped
  <2>2. /\ writing'[e] = writing[e] /\ requests'[e] = requests[e] /\ moved'[e] = moved[e]
        /\ begun'[e] = begun[e]
    BY <1>1, <1>4 DEF Begin, Typed, WritesTyped
  <2> QED
    BY <1>1, <2>1, <2>2, OtherEnd
<1>5. CASE f = e
  <2> DEFINE k == Len(filled[Peer(e)])
             size == reading[Peer(e)].size
             In == m_qMessagesIn[Peer(e)]
             temp == m_msgTemporaryIn[Peer(e)]
             kind == reading[Peer(e)].kind
             own == reading[e].kind
             B == begun[e]
             s == sent[e]
             out == m_qMessagesOut[e]
             w == writing[e]["message"].kind
  <2>1. Peer(e) \in Ends
    BY PeerOf
  <2>2. /\ LayoutIs(e, B, s, out, w, k, kind, size, In, temp, own)
        /\ B \in Seq(Seq(Words)) /\ s \in Seq(Messages) /\ out \in Seq(Messages)
        /\ In \in Seq(Messages) /\ (out = << >> <=> w = "none") /\ Received(In, s)
    BY <2>1, FlowTyped DEF Sound, Layout, Typed, QueuesTyped, ReadsTyped
  <2>3. k \in 0 .. Len(B)
    <3>1. k <= Len(B) /\ filled[Peer(e)] \in Seq(Seq(Words))
      BY FlowTyped DEF Sound, Flows, Flow, PrefixOf
    <3> QED
      BY <2>2, <3>1, LenProperties
  <2>4. B = << >> => e = "client" /\ msg \in ClientMessages /\ out = << >>
    BY <1>5, NotBegun DEF Sound
  <2>5. /\ m_qMessagesOut'[e] = Append(out, msg) /\ sent'[e] = Append(s, msg)
    BY <1>1, <1>5 DEF Typed, QueuesTyped
  <2>6. out = << >> => /\ writing'[e]["message"].kind = "header"
                       /\ begun'[e] = Append(B, <<msg.id, msg.size>>)
    BY <1>1, <1>2, <1>3, <1>5 DEF Begin, Typed, WritesTyped
  <2>7. out # << >> => /\ writing'[e]["message"].kind = w /\ begun'[e] = B
    BY <1>1, <1>5
  <2>8. /\ out = << >> => LayoutIs(e, Append(B, <<msg.id, msg.size>>), Append(s, msg),
                             Append(out, msg), "header", k, kind, size, In, temp, own)
        /\ out # << >> => LayoutIs(e, B, Append(s, msg), Append(out, msg), w, k, kind, size,
                             In, temp, own)
    <3> HIDE DEF k, size, In, temp, kind, own, B, s, out, w
    <3> QED
      BY <2>2, <2>3, <2>4, LayoutSent
  <2>9. Layout(e)'
    <3>1. CASE out = << >>
      BY <1>1, <2>5, <2>6, <2>8, <3>1 DEF Layout
    <3>2. CASE out # << >>
      BY <1>1, <2>5, <2>7, <2>8, <3>2 DEF Layout
    <3> QED
      BY <3>1, <3>2
  <2>10. Received(m_qMessagesIn'[Peer(e)], sent'[e])
    BY <1>1, <2>2, <2>5, ReceivedSent
  <2>11. ReaderSame(Peer(e))
    BY <1>1 DEF ReaderSame, Taken
  <2>12. Flows(e)'
    <3>1. CASE out = << >>
      <4>1. writing[e]["message"].kind = "none"
        BY <2>2, <3>1
      <4>2. /\ Left(writing[e]["message"], moved[e]["message"]) = 0
            /\ ~Asks(requests[e], "message")
            /\ moved' = [moved EXCEPT ![e]["message"] = 0]
        BY <1>1, <1>2, <1>5, <3>1, <4>1, IdleWrite
      <4> QED
        BY <1>1, <1>2, <1>3, <1>5, <2>11, <3>1, <4>2, BeginFlows DEF Sound
    <3>2. CASE out # << >>
      <4>1. WriterSame(e)
        BY <1>1, <1>5, <3>2 DEF WriterSame
      <4> QED
        BY <2>11, <4>1, FlowsSame DEF Sound
    <3> QED
      BY <3>1, <3>2
  <2> QED
    BY <2>9, <2>10, <2>12 DEF Sound
<1> QED
  BY <1>4, <1>5

LEMMA MessageWriteSound ==
  ASSUME Typed, NEW e \in Ends, Sound(e), NEW f \in Ends, WriteHeader(f) \/ WriteBody(f)
  PROVE  Sound(e)'
<1> DEFINE msg == Head(m_qMessagesOut[f])
           t == Tail(m_qMessagesOut[f])
           long == writing[f]["message"].kind = "header" /\ msg.body # << >>
           b == Data("body", msg.body)
           h == Header(Head(t))
<1>1. /\ m_qMessagesOut[f] # << >> /\ msg \in Messages
      /\ ~Asks(requests[f], "message") /\ moved' = [moved EXCEPT ![f]["message"] = 0]
      /\ Left(writing[f]["message"], moved[f]["message"]) = 0
      /\ writing[f]["message"].kind = "header" \/ writing[f]["message"].kind = "body"
      /\ sent' = sent
      /\ IF long THEN Begin(f, "message", b) /\ m_qMessagesOut' = m_qMessagesOut
                 ELSE PopAndWriteNext(f)
  BY MessageWritten DEF Typed
<1>2. UNCHANGED <<stream, reading, filled, m_qMessagesIn, m_msgTemporaryIn>>
  BY DEF WriteHeader, WriteBody, inputs
<1>3. "message" \in Writes
  BY DEF Writes
<1>4. /\ long => Begin(f, "message", b) /\ m_qMessagesOut' = m_qMessagesOut
      /\ ~long => m_qMessagesOut' = [m_qMessagesOut EXCEPT ![f] = t]
      /\ ~long /\ t # << >> => Begin(f, "message", h)
      /\ ~long /\ t = << >> => Finish(f, "message")
  BY <1>1 DEF PopAndWriteNext
<1>5. /\ long => /\ b \in Operations /\ b.kind = "body" /\ b.data = msg.body /\ b.done = 0
                 /\ b.data # << >>
      /\ t # << >> => /\ h \in Operations /\ h.kind = "header" /\ h.data # << >> /\ h.done = 0
                      /\ h.data = <<Head(t).id, Head(t).size>>
  <2>1. m_qMessagesOut[f] \in Seq(Messages)
    BY DEF Typed, QueuesTyped
  <2>2. t # << >> => Head(t) \in Messages
    BY <1>1, <2>1, HeadTailProperties
  <2>3. long => msg.body # << >>
    OBVIOUS
  <2> HIDE DEF msg, t, long
  <2> QED
    BY <1>1, <2>2, <2>3, BodyTyped, HeaderTyped
<1> HIDE DEF b, h
<1>6. CASE f # e
  <2>1. /\ m_qMessagesOut'[e] = m_qMessagesOut[e] /\ sent'[e] = sent[e]
    <3> HIDE DEF msg, t, long
    <3> QED
      BY <1>1, <1>4, <1>6 DEF Typed, QueuesTyped
  <2>2. /\ writing'[e] = writing[e] /\ requests'[e] = requests[e] /\ moved'[e] = moved[e]
        /\ begun'[e] = begun[e]
    <3> HIDE DEF msg, t, long
    <3> QED
      BY <1>1, <1>4, <1>6 DEF Begin, Finish, Typed, WritesTyped
  <2> QED
    BY <1>2, <2>1, <2>2, OtherEnd
<1>7. CASE f = e
  <2>1. Peer(e) \in Ends
    BY PeerOf
  <2>2. ReaderSame(Peer(e))
    BY <1>2 DEF ReaderSame, Taken
  <2>3. Flows(e)'
    <3> HIDE DEF msg, t, long
    <3>1. CASE long
      BY <1>1, <1>3, <1>4, <1>5, <1>7, <2>2, <3>1, BeginFlows DEF Sound
    <3>2. CASE ~long /\ t # << >>
      BY <1>1, <1>3, <1>4, <1>5, <1>7, <2>2, <3>2, BeginFlows DEF Sound
    <3>3. CASE ~long /\ t = << >>
      BY <1>1, <1>3, <1>4, <1>7, <2>2, <3>3, FinishFlows DEF Sound
    <3> QED
      BY <3>1, <3>2, <3>3
  <2> DEFINE k == Len(filled[Peer(e)])
             size == reading[Peer(e)].size
             In == m_qMessagesIn[Peer(e)]
             temp == m_msgTemporaryIn[Peer(e)]
             kind == reading[Peer(e)].kind
             own == reading[e].kind
             B == begun[e]
             s == sent[e]
             out == m_qMessagesOut[e]
             w == writing[e]["message"].kind
  <2>4. /\ LayoutIs(e, B, s, out, w, k, kind, size, In, temp, own)
        /\ B \in Seq(Seq(Words)) /\ s \in Seq(Messages) /\ out \in Seq(Messages)
        /\ w \in {"header", "body"} /\ out # << >> /\ Outbox(out, s)
    BY <1>1, <1>7, FlowTyped DEF Sound, Layout, Typed, QueuesTyped
  <2>5. k \in 0 .. Len(B)
    <3>1. k <= Len(B) /\ filled[Peer(e)] \in Seq(Seq(Words))
      BY FlowTyped DEF Sound, Flows, Flow, PrefixOf
    <3> QED
      BY <2>4, <3>1, LenProperties
  <2>6. B # << >>
    <3>1. writing[e]["message"].kind # "none"
      BY <1>1, <1>7
    <3> QED
      BY <1>3, <3>1 DEF Typed, WritesTyped, WriteTrue, WriteIs
  <2>7. /\ msg = Head(out) /\ t = Tail(out) /\ long = (w = "header" /\ Head(out).body # << >>)
    BY <1>7
  <2>8. /\ long => LayoutIs(e, Append(B, msg.body), s, out, "body",
                            k, kind, size, In, temp, own)
        /\ ~long /\ t # << >> =>
             LayoutIs(e, Append(B, <<Head(t).id, Head(t).size>>), s,
                      t, "header", k, kind, size, In, temp, own)
        /\ ~long /\ t = << >> =>
             LayoutIs(e, B, s, t, "none", k, kind, size, In, temp, own)
    <3> HIDE DEF k, size, In, temp, kind, own, B, s, out, w
    <3>1. /\ w = "header" /\ Head(out).body # << >> =>
              LayoutIs(e, Append(B, Head(out).body), s, out, "body",
                       k, kind, size, In, temp, own)
          /\ ~(w = "header" /\ Head(out).body # << >>) /\ Tail(out) # << >> =>
              LayoutIs(e, Append(B, <<Head(Tail(out)).id, Head(Tail(out)).size>>), s,
                       Tail(out), "header", k, kind, size, In, temp, own)
          /\ ~(w = "header" /\ Head(out).body # << >>) /\ Tail(out) = << >> =>
              LayoutIs(e, B, s, Tail(out), "none", k, kind, size, In, temp, own)
      BY <2>4, <2>5, <2>6, LayoutWritten
    <3> HIDE DEF msg, t, long
    <3> QED
      BY <2>7, <3>1
  <2>9. Layout(e)'
    <3> HIDE DEF msg, t, long
    <3>1. CASE long
      <4>1. /\ begun'[e] = Append(B, msg.body) /\ writing'[e]["message"].kind = "body"
            /\ m_qMessagesOut'[e] = out
        BY <1>3, <1>4, <1>5, <1>7, <3>1 DEF Begin, Typed, WritesTyped
      <4> QED
        BY <1>1, <1>2, <2>8, <3>1, <4>1 DEF Layout
    <3>2. CASE ~long /\ t # << >>
      <4>1. /\ begun'[e] = Append(B, <<Head(t).id, Head(t).size>>)
            /\ writing'[e]["message"].kind = "header"
        BY <1>3, <1>4, <1>5, <1>7, <3>2 DEF Begin, Typed, WritesTyped
      <4>2. m_qMessagesOut'[e] = t
        BY <1>4, <1>7, <3>2 DEF Typed, QueuesTyped
      <4> QED
        BY <1>1, <1>2, <2>8, <3>2, <4>1, <4>2 DEF Layout
    <3>3. CASE ~long /\ t = << >>
      <4>1. begun'[e] = B /\ writing'[e]["message"].kind = "none"
        BY <1>3, <1>4, <1>7, <3>3, IdleTyped DEF Finish, Typed, WritesTyped
      <4>2. m_qMessagesOut'[e] = t
        BY <1>4, <1>7, <3>3 DEF Typed, QueuesTyped
      <4> QED
        BY <1>1, <1>2, <2>8, <3>3, <4>1, <4>2 DEF Layout
    <3> QED
      BY <3>1, <3>2, <3>3
  <2>10. Received(m_qMessagesIn'[Peer(e)], sent'[e])
    BY <1>1, <1>2 DEF Sound
  <2> QED
    BY <2>3, <2>9, <2>10 DEF Sound
<1> QED
  BY <1>6, <1>7
-----------------------------------------------------------------------------
(* What the two programs say to each other.                                *)
ServerMessages ==
  {Made(ServerPing, TimePoints[k]) : k \in DOMAIN TimePoints}
  \cup {Made(ServerAccept, << >>), Greet}

Known == /\ \A i \in 1 .. Len(sent["client"]) : sent["client"][i] \in ClientMessages
         /\ \A i \in 1 .. Len(sent["server"]) : sent["server"][i] \in ServerMessages

(* A ping comes back as it was sent: the words that the reused temporary   *)
(* message kept from another one are all replaced.                         *)
LEMMA PingEchoed ==
  ASSUME NEW msg \in Messages, NEW s \in ClientMessages, Matches(msg, s), msg.id = ServerPing
  PROVE  msg \in ServerMessages
<1>1. ServerPing # MessageAll
  BY DEF ServerPing, MessageAll
<1>2. s.id = ServerPing
  BY DEF Matches
<1>3. PICK k \in DOMAIN TimePoints : s = Made(ServerPing, TimePoints[k])
  <2>1. s # Made(MessageAll, << >>)
    BY <1>1, <1>2 DEF Made
  <2> QED
    BY <2>1 DEF ClientMessages
<1>4. TimePoints[k] # << >>
  <2>1. Len(<< >>) = 0 /\ Len(TimePoints[k]) = 2
    BY ConstantsTyped
  <2> QED
    BY <2>1, SMTT(60)
<1>5. msg.id = s.id /\ msg.size = s.size /\ msg.body = s.body
  BY <1>3, <1>4 DEF Matches, Made
<1>6. msg = [id |-> msg.id, size |-> msg.size, body |-> msg.body]
  BY DEF Messages
<1>7. s = [id |-> s.id, size |-> s.size, body |-> s.body]
  BY <1>3 DEF Made
<1>8. msg = s
  BY <1>5, <1>6, <1>7
<1> QED
  BY <1>3, <1>8 DEF ServerMessages

LEMMA ServerMessagesTyped ==
  /\ ServerMessages \subseteq Messages
  /\ \A m \in ServerMessages \cup ClientMessages : m.size = Len(m.body)
<1>1. \A k \in DOMAIN TimePoints : Made(ServerPing, TimePoints[k]) \in Messages
  BY MadeTyped DEF ClientMessages
<1>2. Made(ServerAccept, << >>) \in Messages
  BY MessageMade
<1>3. ServerMessages \subseteq Messages
  BY <1>1, <1>2, MadeTyped DEF ServerMessages
<1>4. \A id, data : Made(id, data).size = Len(Made(id, data).body)
  BY DEF Made
<1> QED
  BY <1>3, <1>4 DEF ServerMessages, ClientMessages, Greet

LEMMA AppendedAll ==
  ASSUME NEW S, NEW s \in Seq(Messages), \A i \in 1 .. Len(s) : s[i] \in S,
         NEW m \in Messages, m \in S
  PROVE  \A i \in 1 .. Len(Append(s, m)) : Append(s, m)[i] \in S
<1> DEFINE z == Append(s, m)
<1>1. /\ Len(z) = Len(s) + 1 /\ z[Len(s) + 1] = m /\ Len(s) \in Nat
      /\ \A i \in 1 .. Len(s) : z[i] = s[i]
  BY AppendProperties, LenProperties
<1> HIDE DEF z
<1>2. \A i \in 1 .. Len(s) + 1 : i \in 1 .. Len(s) \/ i = Len(s) + 1
  BY <1>1
<1>3. \A i \in 1 .. Len(z) : z[i] \in S
  BY <1>1, <1>2
<1> QED
  BY <1>3 DEF z

LEMMA SendKnown ==
  ASSUME Typed, Known, NEW f \in Ends, NEW msg \in Messages, Send(f, msg),
         f = "client" => msg \in ClientMessages,
         f = "server" => msg \in ServerMessages
  PROVE  Known'
<1>1. sent \in [Ends -> Seq(Messages)] /\ sent' = [sent EXCEPT ![f] = Append(sent[f], msg)]
  BY DEF Typed, QueuesTyped, Send
<1>2. /\ "server" \in Ends /\ "client" \in Ends /\ "client" # "server"
      /\ \A x \in Ends : sent[x] \in Seq(Messages)
  BY <1>1 DEF Ends
<1>3. CASE f = "client"
  <2>1. sent'["client"] = Append(sent["client"], msg) /\ sent'["server"] = sent["server"]
    BY <1>1, <1>2, <1>3
  <2>2. \A i \in 1 .. Len(Append(sent["client"], msg)) :
          Append(sent["client"], msg)[i] \in ClientMessages
    BY <1>2, <1>3, AppendedAll DEF Known
  <2> QED
    BY <2>1, <2>2 DEF Known
<1>4. CASE f = "server"
  <2>1. sent'["server"] = Append(sent["server"], msg) /\ sent'["client"] = sent["client"]
    BY <1>1, <1>2, <1>4
  <2>2. \A i \in 1 .. Len(Append(sent["server"], msg)) :
          Append(sent["server"], msg)[i] \in ServerMessages
    BY <1>2, <1>4, AppendedAll DEF Known
  <2> QED
    BY <2>1, <2>2 DEF Known
<1> QED
  BY <1>3, <1>4 DEF Ends

(* What holds as long as no two writes of an end have mixed.               *)
Ordered == Known /\ Sound("client") /\ Sound("server")

LEMMA InitOrdered == Init => Ordered
<1> SUFFICES ASSUME Init PROVE Ordered
  OBVIOUS
<1>1. Typed
  BY InitTyped
<1>2. /\ \A e \in Ends : /\ begun[e] = << >> /\ filled[e] = << >> /\ sent[e] = << >>
                         /\ m_qMessagesIn[e] = << >> /\ stream[e] = << >>
                         /\ reading[e].got = << >> /\ reading[e].kind \in Waits
                         /\ \A w \in Writes : writing[e][w].kind = "none"
  BY DEF Init, Ends, Buffer, Nothing, Waits, Idle
<1>3. Len(<< >>) = 0
  OBVIOUS
<1>4. Known
  BY <1>2, <1>3 DEF Known, Ends
<1>5. ASSUME NEW e \in Ends PROVE Sound(e)
  <2>1. Peer(e) \in Ends /\ "validation" \in Writes /\ "message" \in Writes
    BY PeerOf DEF Writes
  <2>2. \A w \in Writes : Left(writing[e][w], moved[e][w]) = 0
    BY <1>1, <1>2, IdleWrite
  <2>3. Total(writing[e], moved[e]) = 0
    BY <2>1, <2>2 DEF Total
  <2>4. Pending(begun[e], writing[e], moved[e], requests[e])
    BY <2>2 DEF Pending
  <2>5. Taken(Peer(e)) = << >>
    <3>1. << >> \o << >> = << >>
      OBVIOUS
    <3> QED
      BY <1>2, <2>1, <3>1 DEF Taken
  <2>6. Flow(<< >>, << >>, << >>, 0)
    <3>1. PrefixOf(<< >>, << >>)
      BY <1>3 DEF PrefixOf
    <3> DEFINE ends == [i \in 0 .. 0 |-> 0]
    <3>2. ends \in [0 .. Len(<< >>) -> 0 .. Len(<< >>)] /\ ends[0] = 0
      BY <1>3
    <3> HIDE DEF ends
    <3>3. Stretch(<< >>, ends, << >>)
      BY <1>3, <3>2 DEF Stretch
    <3>4. OnTheWay(<< >>, << >>, ends[Len(<< >>)], 0)
      BY <1>3, <3>2 DEF OnTheWay
    <3>5. << >> \in Seq(Words)
      OBVIOUS
    <3> QED
      BY <3>1, <3>2, <3>3, <3>4, <3>5 DEF Flow
  <2>7. Flows(e)
    BY <1>2, <2>1, <2>3, <2>4, <2>5, <2>6 DEF Flows
  <2>8. Layout(e)
    BY <1>2, <2>1 DEF Layout, LayoutIs
  <2>9. Received(m_qMessagesIn[Peer(e)], sent[e])
    BY <1>2, <1>3, <2>1 DEF Received
  <2> QED
    BY <2>7, <2>8, <2>9 DEF Sound
<1> QED
  BY <1>4, <1>5 DEF Ordered, Ends

(* The server sends what it may send: what it sends back came from the     *)
(* client as it was sent.                                                  *)
LEMMA ServerSendsKnown ==
  ASSUME Typed, Known, Sound("client"),
         \/ OnClientConnect \/ Greeting
         \/ \E n \in 1 .. Len(m_qMessagesIn["server"]) : Echoes(n)
  PROVE  \E msg \in ServerMessages : Send("server", msg) /\ begun["server"] # << >>
<1>0. "server" \in Ends /\ "client" \in Ends /\ Peer("client") = "server"
  BY DEF Ends, Peer
<1>1. PICK msg \in Messages :
        /\ Send("server", msg) /\ begun["server"] # << >>
        /\ \/ msg = Made(ServerAccept, << >>)
           \/ msg = Greet
           \/ /\ msg.id = ServerPing
              /\ \E n \in 1 .. Len(m_qMessagesIn["server"]) :
                   msg = m_qMessagesIn["server"][n]
  BY ServerSendsIs
<1>2. msg \in ServerMessages
  <2>1. CASE msg = Made(ServerAccept, << >>) \/ msg = Greet
    BY <2>1 DEF ServerMessages
  <2>2. CASE msg.id = ServerPing /\ \E n \in 1 .. Len(m_qMessagesIn["server"]) :
                                      msg = m_qMessagesIn["server"][n]
    <3>1. PICK n \in 1 .. Len(m_qMessagesIn["server"]) : msg = m_qMessagesIn["server"][n]
      BY <2>2
    <3>2. /\ Matches(msg, sent["client"][n])
          /\ Len(m_qMessagesIn["server"]) <= Len(sent["client"])
      BY <1>0, <3>1 DEF Sound, Received
    <3>3. n \in 1 .. Len(sent["client"])
      <4>1. m_qMessagesIn["server"] \in Seq(Messages) /\ sent["client"] \in Seq(Messages)
        BY <1>0 DEF Typed, ReadsTyped, QueuesTyped
      <4>2. Len(m_qMessagesIn["server"]) \in Nat /\ Len(sent["client"]) \in Nat
        BY <4>1, LenProperties
      <4> QED
        BY <3>2, <4>2
    <3>4. sent["client"][n] \in ClientMessages
      BY <3>3 DEF Known
    <3> QED
      BY <2>2, <3>2, <3>4, PingEchoed
  <2> QED
    BY <1>1, <2>1, <2>2
<1> QED
  BY <1>1, <1>2

LEMMA StepSound ==
  ASSUME AnswerIsNoHeader, Typed, Ordered, [Next]_vars, mixed' = {}, NEW e \in Ends
  PROVE  Sound(e)' /\ Known'
<1>1. Sound(e) /\ Sound("server") /\ Sound("client") /\ Known
  BY DEF Ordered, Ends
<1>2. "server" \in Ends /\ "client" \in Ends /\ "client" # "server"
      /\ Peer("client") = "server"
  BY DEF Ends, Peer
<1>3. TrueSizes(sent[e])
  BY <1>1, ServerMessagesTyped DEF Known, Ends, TrueSizes
<1>4. CASE PingServer \/ MessageAllKey
  <2>1. PICK msg \in ClientMessages : Send("client", msg)
    BY <1>4, ClientSendsIs
  <2>2. msg \in Messages
    BY MadeTyped
  <2> QED
    BY <1>1, <1>2, <2>1, <2>2, SendSound, SendKnown
<1>5. CASE \/ OnClientConnect \/ Greeting
           \/ \E n \in 1 .. Len(m_qMessagesIn["server"]) : Echoes(n)
  <2>1. PICK msg \in ServerMessages : Send("server", msg) /\ begun["server"] # << >>
    BY <1>1, <1>5, ServerSendsKnown
  <2>2. msg \in Messages
    BY ServerMessagesTyped
  <2> QED
    BY <1>1, <1>2, <2>1, <2>2, SendSound, SendKnown
<1>6. ASSUME sent' = sent PROVE Known'
  BY <1>1, <1>6 DEF Known
<1>7. ASSUME NEW f \in Ends,
             \/ Transfer(f) \/ ReadContinues(f) \/ OperationFails(f)
             \/ \E w \in Writes : WriteContinues(f, w)
             \/ ValidationWritten(f)
             \/ ReadHeader(f) \/ ReadBody(f) \/ WriteHeader(f) \/ WriteBody(f)
      PROVE  Sound(e)' /\ Known'
  <2>1. CASE Transfer(f)
    <3>1. sent' = sent
      BY <2>1 DEF Transfer, program
    <3> QED
      BY <1>1, <1>6, <2>1, <3>1, TransferSound
  <2>2. CASE ReadContinues(f)
    <3>1. sent' = sent
      BY <2>2 DEF ReadContinues, program
    <3> QED
      BY <1>1, <1>6, <2>2, <3>1, ReadContinuesSound
  <2>3. CASE OperationFails(f)
    <3>1. UNCHANGED <<stream, reading, filled, writing, requests, moved, begun,
                      m_qMessagesOut, m_qMessagesIn, m_msgTemporaryIn, sent>>
      BY <2>3 DEF OperationFails, inputs, writes, program
    <3> QED
      BY <1>1, <1>6, <3>1, NothingMovesSound
  <2>4. CASE \E w \in Writes : WriteContinues(f, w)
    <3>1. sent' = sent
      BY <2>4 DEF WriteContinues, program
    <3> QED
      BY <1>1, <1>6, <2>4, <3>1, WriteContinuesSound
  <2>5. CASE ValidationWritten(f)
    <3>1. sent' = sent
      BY <2>5 DEF ValidationWritten, program
    <3> QED
      BY <1>1, <1>6, <2>5, <3>1, ValidationWrittenSound
  <2>6. CASE ReadHeader(f) \/ ReadBody(f)
    <3>1. sent' = sent
      BY <2>6 DEF ReadHeader, ReadBody, program
    <3> QED
      BY <1>1, <1>3, <1>6, <2>6, <3>1, MessageReadSound
  <2>7. CASE WriteHeader(f) \/ WriteBody(f)
    <3>1. sent' = sent
      BY <2>7 DEF WriteHeader, WriteBody, program
    <3> QED
      BY <1>1, <1>6, <2>7, <3>1, MessageWriteSound
  <2> QED
    BY <1>7, <2>1, <2>2, <2>3, <2>4, <2>5, <2>6, <2>7
<1>8. CASE ConnectToClient
  <2>1. sent' = sent
    BY <1>8 DEF ConnectToClient, program
  <2> QED
    BY <1>1, <1>6, <1>8, <2>1, ConnectSound
<1>9. CASE AnswerRead
  <2>1. sent' = sent
    BY <1>9 DEF AnswerRead, program
  <2> QED
    BY <1>1, <1>6, <1>9, <2>1, AnswerReadSound
<1>10. CASE ChallengeRead
  <2>1. sent' = sent
    BY <1>10 DEF ChallengeRead, program
  <2> QED
    BY <1>1, <1>6, <1>10, <2>1, ChallengeReadSound
<1>11. CASE \/ Break \/ UNCHANGED vars
            \/ \E n \in 1 .. Len(m_qMessagesIn["server"]) : TakesOther(n)
  <2>1. UNCHANGED <<stream, reading, filled, writing, requests, moved, begun,
                    m_qMessagesOut, m_qMessagesIn, m_msgTemporaryIn, sent>>
    BY <1>11 DEF Break, TakesOther, vars, inputs, writes, program
  <2> QED
    BY <1>1, <1>6, <2>1, NothingMovesSound
<1> QED
  BY <1>4, <1>5, <1>7, <1>8, <1>9, <1>10, <1>11 DEF Next

LEMMA MixedGrows == [Next]_vars => mixed \subseteq mixed'
<1> SUFFICES ASSUME [Next]_vars PROVE mixed \subseteq mixed'
  OBVIOUS
<1>1. ASSUME NEW e \in Ends, Transfer(e) PROVE mixed \subseteq mixed'
  BY <1>1 DEF Transfer
<1>2. ASSUME NEW e \in Ends,
             \/ ReadContinues(e) \/ OperationFails(e)
             \/ \E w \in Writes : WriteContinues(e, w)
             \/ ValidationWritten(e)
             \/ ReadHeader(e) \/ ReadBody(e) \/ WriteHeader(e) \/ WriteBody(e)
      PROVE  mixed' = mixed
  BY <1>2 DEF ReadContinues, OperationFails, WriteContinues, ValidationWritten, ReadHeader,
     ReadBody, WriteHeader, WriteBody
<1>3. CASE \/ ConnectToClient \/ AnswerRead \/ ChallengeRead \/ Break \/ UNCHANGED vars
           \/ \E n \in 1 .. Len(m_qMessagesIn["server"]) : TakesOther(n)
  BY <1>3 DEF ConnectToClient, AnswerRead, ChallengeRead, Break, TakesOther, vars
<1>4. CASE \/ PingServer \/ MessageAllKey \/ OnClientConnect \/ Greeting
           \/ \E n \in 1 .. Len(m_qMessagesIn["server"]) : Echoes(n)
  BY <1>4 DEF PingServer, MessageAllKey, ClientSends, OnClientConnect, Greeting, Echoes, Send
<1> QED
  BY <1>1, <1>2, <1>3, <1>4 DEF Next

LEMMA AlwaysOrdered ==
  ASSUME AnswerIsNoHeader
  PROVE  Spec => [](mixed = {} => Ordered)
<1>1. Init => (mixed = {} => Ordered)
  BY InitOrdered
<1>2. Typed /\ (mixed = {} => Ordered) /\ [Next]_vars => (mixed = {} => Ordered)'
  <2> SUFFICES ASSUME Typed, mixed = {} => Ordered, [Next]_vars, mixed' = {}
               PROVE  Ordered'
    OBVIOUS
  <2>1. Ordered
    BY MixedGrows
  <2>2. \A e \in Ends : Sound(e)' /\ Known'
    BY <2>1, StepSound
  <2> QED
    BY <2>2 DEF Ordered, Ends
<1> QED
  BY <1>1, <1>2, AlwaysTyped, PTL DEF Spec

(* As long as no two writes of an end have mixed: every message that is    *)
(* still to be written has a body of the length its header tells, also one *)
(* that SimpleServer sends back out of the reused m_msgTemporaryIn.  The   *)
(* challenge may be any that is not answered by two words which are the    *)
(* header of a message as well.                                            *)
THEOREM SizesAlwaysTrue ==
  ASSUME AnswerIsNoHeader
  PROVE  Spec => []SizesTrue
<1>1. Typed /\ (mixed = {} => Ordered) => SizesTrue
  <2> SUFFICES ASSUME Typed, Ordered, NEW e \in Ends, NEW i \in DOMAIN m_qMessagesOut[e]
               PROVE  m_qMessagesOut[e][i].size = Len(m_qMessagesOut[e][i].body)
    BY DEF SizesTrue
  <2> DEFINE out == m_qMessagesOut[e]
             s == sent[e]
  <2>1. /\ out \in Seq(Messages) /\ s \in Seq(Messages) /\ Outbox(out, s)
    BY DEF Typed, QueuesTyped
  <2>2. TrueSizes(s)
    BY ServerMessagesTyped DEF Ordered, Known, Ends, TrueSizes
  <2>3. i \in DOMAIN out
    OBVIOUS
  <2> HIDE DEF out, s
  <2>4. /\ i \in 1 .. Len(out) /\ Len(out) \in Nat /\ Len(s) \in Nat
    BY <2>1, <2>3, LenProperties
  <2>5. /\ out[i] = s[Len(s) - Len(out) + i] /\ Len(out) <= Len(s)
    BY <2>1, <2>4 DEF Outbox
  <2>6. Len(s) - Len(out) + i \in 1 .. Len(s)
    BY <2>4, <2>5
  <2>7. out[i].size = Len(out[i].body)
    BY <2>2, <2>5, <2>6 DEF TrueSizes
  <2> QED
    BY <2>7 DEF out
<1> QED
  BY <1>1, AlwaysTyped, AlwaysOrdered, PTL

(* The n-th message a program is given is the n-th that its peer sent,     *)
(* with its body, wherever the stream cuts them, as long as no two writes  *)
(* of an end have mixed.                                                   *)
THEOREM ReceivedInOrder ==
  ASSUME AnswerIsNoHeader
  PROVE  Spec => []ReceivedAsSent
<1>1. Typed /\ (mixed = {} => Ordered) => ReceivedAsSent
  <2> SUFFICES ASSUME Typed, Ordered, NEW e \in Ends, NEW i \in DOMAIN m_qMessagesIn[Peer(e)]
               PROVE  LET msg == m_qMessagesIn[Peer(e)][i]
                      IN  /\ i \in DOMAIN sent[e]
                          /\ msg.id = sent[e][i].id /\ msg.size = sent[e][i].size
                          /\ sent[e][i].body # << >> => msg.body = sent[e][i].body
    BY DEF ReceivedAsSent
  <2> DEFINE In == m_qMessagesIn[Peer(e)]
             s == sent[e]
  <2>1. /\ In \in Seq(Messages) /\ s \in Seq(Messages)
    BY PeerOf DEF Typed, QueuesTyped, ReadsTyped
  <2>2. Received(In, s)
    BY DEF Ordered, Sound, Ends
  <2>3. i \in DOMAIN In
    OBVIOUS
  <2> HIDE DEF In, s
  <2>4. /\ i \in 1 .. Len(In) /\ Len(In) \in Nat /\ Len(s) \in Nat
        /\ DOMAIN s = 1 .. Len(s)
    BY <2>1, <2>3, LenProperties
  <2>5. i \in DOMAIN s
    BY <2>2, <2>4 DEF Received
  <2>6. Matches(In[i], s[i])
    BY <2>2, <2>4 DEF Received
  <2> QED
    BY <2>5, <2>6 DEF Matches, In, s
<1> QED
  BY <1>1, AlwaysTyped, AlwaysOrdered, PTL
-----------------------------------------------------------------------------
(* Pings come back.  PingsAmong counts them.                               *)
LEMMA PingsCounted ==
  ASSUME NEW s, NEW n \in Nat
  PROVE  /\ PingsAmong(s, n) \in Nat
         /\ PingsAmong(s, 0) = 0
         /\ PingsAmong(s, n + 1) =
              IF s[n + 1].id = ServerPing THEN PingsAmong(s, n) + 1 ELSE PingsAmong(s, n)
<1> DEFINE P(k) == {i \in 1 .. k : s[i].id = ServerPing}
<1>1. IsFiniteSet(P(n)) /\ Cardinality(P(n)) \in Nat
  <2>1. IsFiniteSet(1 .. n)
    BY FS_Interval
  <2>2. P(n) \in SUBSET (1 .. n)
    OBVIOUS
  <2>3. IsFiniteSet(P(n))
    BY <2>1, <2>2, FS_Subset
  <2> QED
    BY <2>3, FS_CardinalityType
<1>2. P(0) = {}
  OBVIOUS
<1>3. CASE s[n + 1].id = ServerPing
  <2>1. P(n + 1) = P(n) \cup {n + 1} /\ n + 1 \notin P(n)
    BY <1>3
  <2> HIDE DEF P
  <2>2. Cardinality(P(n + 1)) = Cardinality(P(n)) + 1
    BY <1>1, <2>1, FS_AddElement
  <2> QED
    BY <1>1, <1>2, <1>3, <2>2, FS_EmptySet DEF P, PingsAmong
<1>4. CASE s[n + 1].id # ServerPing
  <2>1. P(n + 1) = P(n)
    BY <1>4
  <2> HIDE DEF P
  <2> QED
    BY <1>1, <1>2, <1>4, <2>1, FS_EmptySet DEF P, PingsAmong
<1> QED
  BY <1>3, <1>4

(* The count looks at identifiers, and not beyond its place.               *)
LEMMA PingsSame ==
  ASSUME NEW s, NEW t, NEW n \in Nat, \A i \in 1 .. n : s[i].id = t[i].id
  PROVE  PingsAmong(s, n) = PingsAmong(t, n)
<1>1. {i \in 1 .. n : s[i].id = ServerPing} = {i \in 1 .. n : t[i].id = ServerPing}
  OBVIOUS
<1> QED
  BY <1>1 DEF PingsAmong

LEMMA PingsAppended ==
  ASSUME NEW s \in Seq(Messages), NEW m \in Messages
  PROVE  LET z == Append(s, m)
         IN  /\ z \in Seq(Messages) /\ Len(z) = Len(s) + 1 /\ z[Len(z)] = m
             /\ \A i \in 1 .. Len(s) : z[i] = s[i]
             /\ \A i \in 0 .. Len(s) : PingsAmong(z, i) = PingsAmong(s, i)
             /\ PingsAmong(z, Len(z)) = IF m.id = ServerPing THEN PingsAmong(s, Len(s)) + 1
                                                             ELSE PingsAmong(s, Len(s))
<1> DEFINE z == Append(s, m)
<1>1. /\ z \in Seq(Messages) /\ Len(z) = Len(s) + 1 /\ z[Len(s) + 1] = m
      /\ \A i \in 1 .. Len(s) : z[i] = s[i]
      /\ Len(s) \in Nat
  BY AppendProperties, LenProperties
<1> HIDE DEF z
<1>2. ASSUME NEW i \in 0 .. Len(s) PROVE PingsAmong(z, i) = PingsAmong(s, i)
  <2>1. i \in Nat /\ \A k \in 1 .. i : z[k].id = s[k].id
    BY <1>1
  <2> QED
    BY <2>1, PingsSame
<1>3. PingsAmong(z, Len(s)) = PingsAmong(s, Len(s))
  BY <1>1, <1>2
<1>4. PingsAmong(z, Len(z)) = IF m.id = ServerPing THEN PingsAmong(s, Len(s)) + 1
                                                   ELSE PingsAmong(s, Len(s))
  BY <1>1, <1>3, PingsCounted
<1> QED
  BY <1>1, <1>2, <1>4 DEF z

(* What SimpleServer has handled it has answered, ping by ping: the pings  *)
(* among what it sent are those among what it handled, in their order.     *)
SentBack(in, n, out) ==
  /\ n \in 0 .. Len(in)
  /\ PingsAmong(out, Len(out)) = PingsAmong(in, n)
  /\ \A i \in 1 .. Len(out) : out[i].id = ServerPing =>
       \E j \in 1 .. n : out[i] = in[j] /\ PingsAmong(out, i) = PingsAmong(in, j)

PingsSentBack == SentBack(m_qMessagesIn["server"], handled, sent["server"])

LEMMA BackReceived ==
  ASSUME NEW in \in Seq(Messages), NEW out, NEW n, SentBack(in, n, out), NEW m \in Messages
  PROVE  SentBack(Append(in, m), n, out)
<1> DEFINE z == Append(in, m)
<1>1. /\ Len(z) = Len(in) + 1 /\ Len(in) \in Nat
      /\ \A i \in 1 .. Len(in) : z[i] = in[i]
      /\ \A i \in 0 .. Len(in) : PingsAmong(z, i) = PingsAmong(in, i)
  BY PingsAppended, LenProperties
<1> HIDE DEF z
<1>2. n \in 0 .. Len(z) /\ n \in 0 .. Len(in) /\ \A j \in 1 .. n : j \in 1 .. Len(in)
  BY <1>1 DEF SentBack
<1>3. \A j \in 1 .. n : z[j] = in[j] /\ PingsAmong(z, j) = PingsAmong(in, j)
  BY <1>1, <1>2
<1>4. PingsAmong(z, n) = PingsAmong(in, n)
  BY <1>1, <1>2
<1>5. SentBack(z, n, out)
  BY <1>2, <1>3, <1>4 DEF SentBack
<1> QED
  BY <1>5 DEF z

LEMMA BackOther ==
  ASSUME NEW in \in Seq(Messages), NEW out, NEW n, SentBack(in, n, out),
         n + 1 <= Len(in), in[n + 1].id # ServerPing
  PROVE  SentBack(in, n + 1, out)
<1>1. Len(in) \in Nat /\ n \in Nat
  BY LenProperties DEF SentBack
<1>2. n + 1 \in 0 .. Len(in) /\ \A j \in 1 .. n : j \in 1 .. n + 1
  BY <1>1
<1>3. PingsAmong(in, n + 1) = PingsAmong(in, n)
  BY <1>1, PingsCounted
<1> QED
  BY <1>2, <1>3 DEF SentBack

LEMMA BackSent ==
  ASSUME NEW in \in Seq(Messages), NEW out \in Seq(Messages), NEW n, SentBack(in, n, out),
         NEW m \in Messages, m.id # ServerPing
  PROVE  SentBack(in, n, Append(out, m))
<1> DEFINE z == Append(out, m)
<1>1. /\ Len(z) = Len(out) + 1 /\ z[Len(z)] = m /\ Len(out) \in Nat
      /\ \A i \in 1 .. Len(out) : z[i] = out[i]
      /\ \A i \in 0 .. Len(out) : PingsAmong(z, i) = PingsAmong(out, i)
      /\ PingsAmong(z, Len(z)) = PingsAmong(out, Len(out))
  BY PingsAppended, LenProperties
<1> HIDE DEF z
<1>2. ASSUME NEW i \in 1 .. Len(z), z[i].id = ServerPing
      PROVE  i \in 1 .. Len(out) /\ z[i] = out[i] /\ PingsAmong(z, i) = PingsAmong(out, i)
  <2>1. i \in 1 .. Len(out)
    BY <1>1, <1>2
  <2>2. i \in 0 .. Len(out)
    BY <1>1, <2>1
  <2> QED
    BY <1>1, <2>1, <2>2
<1>3. SentBack(in, n, z)
  BY <1>1, <1>2 DEF SentBack
<1> QED
  BY <1>3 DEF z

LEMMA BackEchoed ==
  ASSUME NEW in \in Seq(Messages), NEW out \in Seq(Messages), NEW n, SentBack(in, n, out),
         n + 1 <= Len(in), in[n + 1].id = ServerPing
  PROVE  SentBack(in, n + 1, Append(out, in[n + 1]))
<1> DEFINE m == in[n + 1]
           z == Append(out, m)
<1>1. Len(in) \in Nat /\ n \in Nat /\ n + 1 \in 1 .. Len(in)
  BY LenProperties DEF SentBack
<1>2. m \in Messages /\ m.id = ServerPing
  BY <1>1, ElementOfSeq
<1> HIDE DEF m
<1>3. /\ Len(z) = Len(out) + 1 /\ z[Len(z)] = m /\ Len(out) \in Nat
      /\ \A i \in 1 .. Len(out) : z[i] = out[i]
      /\ \A i \in 0 .. Len(out) : PingsAmong(z, i) = PingsAmong(out, i)
      /\ PingsAmong(z, Len(z)) = PingsAmong(out, Len(out)) + 1
  BY <1>2, PingsAppended, LenProperties
<1> HIDE DEF z
<1>4. PingsAmong(in, n + 1) = PingsAmong(in, n) + 1
  BY <1>1, <1>2, PingsCounted DEF m
<1>5. PingsAmong(z, Len(z)) = PingsAmong(in, n + 1)
  BY <1>3, <1>4 DEF SentBack
<1>6. ASSUME NEW i \in 1 .. Len(z), z[i].id = ServerPing
      PROVE  \E j \in 1 .. n + 1 : z[i] = in[j] /\ PingsAmong(z, i) = PingsAmong(in, j)
  <2>1. CASE i = Len(z)
    <3>1. z[i] = in[n + 1] /\ PingsAmong(z, i) = PingsAmong(in, n + 1)
      BY <1>3, <1>5, <2>1 DEF m
    <3>2. n + 1 \in 1 .. n + 1
      BY <1>1
    <3> QED
      BY <3>1, <3>2
  <2>2. CASE i # Len(z)
    <3>1. i \in 1 .. Len(out) /\ i \in 0 .. Len(out)
      BY <1>3, <2>2
    <3>2. z[i] = out[i] /\ PingsAmong(z, i) = PingsAmong(out, i)
      BY <1>3, <3>1
    <3>3. PICK j \in 1 .. n : out[i] = in[j] /\ PingsAmong(out, i) = PingsAmong(in, j)
      BY <1>6, <3>1, <3>2 DEF SentBack
    <3>4. j \in 1 .. n + 1
      BY <1>1
    <3> QED
      BY <3>2, <3>3, <3>4
  <2> QED
    BY <2>1, <2>2
<1>7. n + 1 \in 0 .. Len(in)
  BY <1>1
<1>8. SentBack(in, n + 1, z)
  BY <1>5, <1>6, <1>7 DEF SentBack
<1> QED
  BY <1>8 DEF m, z

LEMMA InitSentBack == Init => PingsSentBack
<1> SUFFICES ASSUME Init PROVE PingsSentBack
  OBVIOUS
<1>1. /\ m_qMessagesIn["server"] = << >> /\ sent["server"] = << >> /\ handled = 0
      /\ Len(<< >>) = 0
  BY DEF Init, Ends
<1> QED
  BY <1>1, PingsSame DEF PingsSentBack, SentBack

LEMMA StepSentBack == Typed /\ PingsSentBack /\ [Next]_vars => PingsSentBack'
<1> SUFFICES ASSUME Typed, PingsSentBack, [Next]_vars PROVE PingsSentBack'
  OBVIOUS
<1> DEFINE in == m_qMessagesIn["server"]
           out == sent["server"]
<1>1. /\ "server" \in Ends /\ "client" \in Ends /\ "client" # "server"
      /\ in \in Seq(Messages) /\ out \in Seq(Messages)
      /\ m_qMessagesIn \in [Ends -> Seq(Messages)] /\ sent \in [Ends -> Seq(Messages)]
      /\ SentBack(in, handled, out)
  BY DEF Ends, Typed, QueuesTyped, ReadsTyped, PingsSentBack
<1>2. ASSUME m_qMessagesIn' = m_qMessagesIn, sent'["server"] = out, handled' = handled
      PROVE  PingsSentBack'
  BY <1>1, <1>2 DEF PingsSentBack
<1>3. ASSUME NEW m, Send("server", m)
      PROVE  m_qMessagesIn' = m_qMessagesIn /\ sent'["server"] = Append(out, m)
  BY <1>1, <1>3 DEF Send
<1>4. CASE PingServer \/ MessageAllKey
  <2>1. PICK m \in ClientMessages : Send("client", m) /\ UNCHANGED <<handled, greetings>>
    BY <1>4, ClientSendsIs
  <2>2. m_qMessagesIn' = m_qMessagesIn /\ sent' = [sent EXCEPT !["client"] = Append(@, m)]
    BY <2>1 DEF Send
  <2>3. sent'["server"] = out
    BY <1>1, <2>2
  <2> QED
    BY <1>2, <2>1, <2>2, <2>3
<1>5. CASE OnClientConnect
  <2>1. Send("server", Message(ServerAccept)) /\ handled' = handled
    BY <1>5 DEF OnClientConnect
  <2>2. Message(ServerAccept) \in Messages /\ Message(ServerAccept).id # ServerPing
    BY MessageMade DEF Message, ServerAccept, ServerPing
  <2> HIDE DEF in, out
  <2>3. SentBack(in, handled, Append(out, Message(ServerAccept)))
    BY <1>1, <2>2, BackSent
  <2> QED
    BY <1>3, <2>1, <2>3 DEF PingsSentBack, in
<1>6. CASE Greeting
  <2>1. Send("server", Greet) /\ handled' = handled
    BY <1>6, MadeTyped DEF Greeting
  <2>2. Greet \in Messages /\ Greet.id # ServerPing
    BY MadeTyped DEF Greet, Made, MessageAll, ServerPing
  <2> HIDE DEF in, out
  <2>3. SentBack(in, handled, Append(out, Greet))
    BY <1>1, <2>2, BackSent
  <2> QED
    BY <1>3, <2>1, <2>3 DEF PingsSentBack, in
<1>7. ASSUME NEW n \in 1 .. Len(m_qMessagesIn["server"]), Echoes(n)
      PROVE  PingsSentBack'
  <2>1. /\ n = handled + 1 /\ n <= Len(in) /\ handled' = n
        /\ in[n].id = ServerPing /\ Send("server", in[n])
    BY <1>7 DEF Echoes, Takes
  <2> HIDE DEF in, out
  <2>2. SentBack(in, n, Append(out, in[n]))
    BY <1>1, <2>1, BackEchoed
  <2> QED
    BY <1>3, <2>1, <2>2 DEF PingsSentBack, in
<1>8. ASSUME NEW n \in 1 .. Len(m_qMessagesIn["server"]), TakesOther(n)
      PROVE  PingsSentBack'
  <2>1. /\ n = handled + 1 /\ n <= Len(in) /\ handled' = n
        /\ in[n].id # ServerPing /\ UNCHANGED <<m_qMessagesIn, sent>>
    BY <1>8 DEF TakesOther, Takes
  <2> HIDE DEF in, out
  <2>2. SentBack(in, n, out)
    BY <1>1, <2>1, BackOther
  <2> QED
    BY <2>1, <2>2 DEF PingsSentBack, in, out
<1>9. ASSUME NEW e \in Ends, ReadHeader(e) \/ ReadBody(e)
      PROVE  PingsSentBack'
  <2>1. handled' = handled /\ sent' = sent
    <3>1. CASE ReadHeader(e)
      BY <3>1 DEF ReadHeader, program
    <3>2. CASE ReadBody(e)
      BY <3>2 DEF ReadBody, program
    <3> QED
      BY <1>9, <3>1, <3>2
  <2>2. \/ m_qMessagesIn' = m_qMessagesIn
        \/ \E m \in Messages :
             m_qMessagesIn' = [m_qMessagesIn EXCEPT ![e] = Append(m_qMessagesIn[e], m)]
    <3>1. ReadsTyped
      BY DEF Typed
    <3>2. CASE ReadHeader(e)
      BY <3>1, <3>2, ReadHeaderIs
    <3>3. CASE ReadBody(e)
      <4>1. PICK n \in 1 .. MaxTransfer :
              LET msg == [id |-> m_msgTemporaryIn[e].id, size |-> m_msgTemporaryIn[e].size,
                          body |-> Got(e, n)]
              IN  /\ msg \in Messages
                  /\ m_qMessagesIn' = [m_qMessagesIn EXCEPT ![e] =
                                         Append(m_qMessagesIn[e], msg)]
        BY <3>1, <3>3, ReadBodyIs
      <4> QED
        BY <4>1
    <3> QED
      BY <1>9, <3>2, <3>3
  <2>3. CASE m_qMessagesIn' = m_qMessagesIn
    BY <1>2, <2>1, <2>3
  <2>4. ASSUME NEW m \in Messages,
               m_qMessagesIn' = [m_qMessagesIn EXCEPT ![e] = Append(m_qMessagesIn[e], m)]
        PROVE  PingsSentBack'
    <3>1. m_qMessagesIn'["server"] = in \/ m_qMessagesIn'["server"] = Append(in, m)
      BY <1>1, <2>4
    <3> HIDE DEF in, out
    <3>2. SentBack(Append(in, m), handled, out)
      BY <1>1, BackReceived
    <3> QED
      BY <1>1, <2>1, <3>1, <3>2 DEF PingsSentBack, out
  <2> QED
    BY <2>2, <2>3, <2>4
<1>10. ASSUME NEW e \in Ends,
              \/ Transfer(e) \/ ReadContinues(e) \/ OperationFails(e)
              \/ \E w \in Writes : WriteContinues(e, w)
              \/ ValidationWritten(e) \/ WriteHeader(e) \/ WriteBody(e)
       PROVE  PingsSentBack'
  <2>1. m_qMessagesIn' = m_qMessagesIn /\ sent' = sent /\ handled' = handled
    <3>1. CASE ReadContinues(e) \/ OperationFails(e)
      BY <3>1 DEF ReadContinues, OperationFails, program
    <3>2. CASE \E w \in Writes : WriteContinues(e, w)
      BY <3>2 DEF WriteContinues, program
    <3>3. CASE ValidationWritten(e) \/ WriteHeader(e) \/ WriteBody(e)
      BY <3>3 DEF ValidationWritten, WriteHeader, WriteBody, program
    <3>4. CASE Transfer(e)
      BY <3>4 DEF Transfer, program
    <3> QED
      BY <1>10, <3>1, <3>2, <3>3, <3>4
  <2> QED
    BY <1>2, <2>1
<1>11. CASE ConnectToClient \/ AnswerRead \/ ChallengeRead \/ Break \/ UNCHANGED vars
  <2>1. UNCHANGED <<m_qMessagesIn, sent, handled>>
    BY <1>11 DEF ConnectToClient, AnswerRead, ChallengeRead, Break, vars, program
  <2> QED
    BY <1>2, <2>1
<1> QED
  BY <1>4, <1>5, <1>6, <1>7, <1>8, <1>9, <1>10, <1>11 DEF Next

(* What >> takes out of a message that was made with one <<.               *)
LEMMA PopsAll ==
  ASSUME NEW msg \in Messages, Len(msg.body) \in {1, 2}
  PROVE  PopDefined(msg, Len(msg.body)) /\ Popped(msg, Len(msg.body)) = msg.body
<1> DEFINE b == msg.body
<1>1. b \in Seq(Words) /\ Len(b) \in Nat /\ Len(b) - Len(b) = 0
  BY LenProperties DEF Messages
<1>2. 0 % SizeT = 0
  BY NetMessageAssumption, ModSmall
<1>3. Offset(msg, Len(b)) = 0
  BY <1>1, <1>2 DEF Offset
<1>4. SubSeq(b, 1, Len(b)) = b
  <2>1. << >> \o b = b /\ Len(<< >>) = 0 /\ << >> \in Seq(Words)
    BY <1>1, ConcatEmptySeq
  <2> HIDE DEF b
  <2>2. SubSeq(b, 0 + 1, 0 + Len(b)) = b
    BY <1>1, <2>1, PartsOfConcat
  <2> QED
    BY <1>1, <2>2
<1> QED
  BY <1>1, <1>3, <1>4 DEF PopDefined, Popped

(* What << puts in at one end >> takes out at the other: the time of the   *)
(* n-th ping that comes back to the client is that of its n-th ping, none  *)
(* is lost, doubled or overtaken on the way through the server; and a      *)
(* greeting names its author.  As long as no two writes of an end have     *)
(* mixed, for any number of pings, greetings and other requests.           *)
THEOREM PingsComeBack ==
  ASSUME AnswerIsNoHeader
  PROVE  Spec => []PopsWhatWasPushed
<1>1. Typed /\ (mixed = {} => Ordered) /\ PingsSentBack => PopsWhatWasPushed
  <2> SUFFICES ASSUME Typed, Ordered, PingsSentBack, NEW i \in DOMAIN m_qMessagesIn["client"]
               PROVE  LET back == m_qMessagesIn["client"]
                      IN  /\ back[i].id = ServerPing =>
                               /\ PopDefined(back[i], TimePointSize)
                               /\ \E k \in DOMAIN sent["client"] :
                                    LET ping == sent["client"][k]
                                    IN  /\ ping.id = ServerPing
                                        /\ PingsAmong(sent["client"], k) = PingsAmong(back, i)
                                        /\ Popped(ping, TimePointSize)
                                             = Popped(back[i], TimePointSize)
                          /\ back[i].id = MessageAll =>
                               PopDefined(back[i], IDSize) /\ Popped(back[i], IDSize) = OtherID
    BY DEF PopsWhatWasPushed
  <2> DEFINE back == m_qMessagesIn["client"]
             out == sent["server"]
             in == m_qMessagesIn["server"]
             all == sent["client"]
  <2>1. /\ back \in Seq(Messages) /\ out \in Seq(Messages)
        /\ in \in Seq(Messages) /\ all \in Seq(Messages)
    BY DEF Ends, Typed, QueuesTyped, ReadsTyped
  <2>2. Received(back, out) /\ Received(in, all)
    BY DEF Ordered, Sound, Peer
  <2>3. SentBack(in, handled, out)
    BY DEF PingsSentBack
  <2>4. /\ \A k \in 1 .. Len(all) : all[k] \in ClientMessages
        /\ \A k \in 1 .. Len(out) : out[k] \in ServerMessages
    BY DEF Ordered, Known
  <2>5. i \in DOMAIN back
    OBVIOUS
  <2> HIDE DEF back, out, in, all
  <2>6. /\ Len(back) \in Nat /\ Len(out) \in Nat /\ Len(in) \in Nat /\ Len(all) \in Nat
        /\ i \in 1 .. Len(back) /\ i \in 1 .. Len(out) /\ i \in Nat
        /\ DOMAIN all = 1 .. Len(all)
    BY <2>1, <2>2, <2>5, LenProperties DEF Received
  <2>7. back[i] \in Messages /\ out[i] \in ServerMessages /\ Matches(back[i], out[i])
    BY <2>1, <2>2, <2>4, <2>6, ElementOfSeq DEF Received
  <2>8. PingsAmong(back, i) = PingsAmong(out, i)
    <3>1. \A k \in 1 .. i : k \in 1 .. Len(back)
      BY <2>6
    <3>2. \A k \in 1 .. i : back[k].id = out[k].id
      BY <2>2, <3>1 DEF Received, Matches
    <3> QED
      BY <2>6, <3>2, PingsSame
  <2>9. ASSUME back[i].id = ServerPing
        PROVE  /\ PopDefined(back[i], TimePointSize)
               /\ \E k \in DOMAIN all :
                    /\ all[k].id = ServerPing
                    /\ PingsAmong(all, k) = PingsAmong(back, i)
                    /\ Popped(all[k], TimePointSize) = Popped(back[i], TimePointSize)
    <3>1. out[i].id = ServerPing
      BY <2>7, <2>9 DEF Matches
    <3>2. PICK j \in 1 .. handled : out[i] = in[j] /\ PingsAmong(out, i) = PingsAmong(in, j)
      BY <2>3, <2>6, <3>1 DEF SentBack
    <3>3. j \in Nat /\ j \in 1 .. Len(in) /\ j \in 1 .. Len(all)
      BY <2>2, <2>3, <2>6 DEF SentBack, Received
    <3>4. PingsAmong(in, j) = PingsAmong(all, j)
      <4>1. \A k \in 1 .. j : k \in 1 .. Len(in)
        BY <2>6, <3>3
      <4>2. \A k \in 1 .. j : in[k].id = all[k].id
        BY <2>2, <4>1 DEF Received, Matches
      <4> QED
        BY <3>3, <4>2, PingsSame
    <3>5. Matches(in[j], all[j]) /\ all[j] \in ClientMessages
      BY <2>2, <2>4, <3>3 DEF Received
    <3>6. all[j].id = ServerPing
      BY <3>1, <3>2, <3>5 DEF Matches
    <3>7. PICK t \in DOMAIN TimePoints : all[j] = Made(ServerPing, TimePoints[t])
      <4>1. all[j] # Made(MessageAll, << >>)
        BY <3>6 DEF Made, ServerPing, MessageAll
      <4> QED
        BY <3>5, <4>1 DEF ClientMessages
    <3>8. all[j].body = TimePoints[t] /\ Len(TimePoints[t]) = 2 /\ TimePoints[t] # << >>
      <4>1. Len(TimePoints[t]) = 2 /\ Len(<< >>) = 0
        BY ConstantsTyped
      <4>2. TimePoints[t] # << >>
        BY <4>1, SMTT(60)
      <4> QED
        BY <3>7, <4>1, <4>2 DEF Made
    <3>9. back[i].body = TimePoints[t]
      BY <2>7, <3>2, <3>5, <3>8 DEF Matches
    <3>10. all[j] \in Messages
      BY <2>1, <3>3, ElementOfSeq
    <3>11. /\ PopDefined(back[i], 2) /\ Popped(back[i], 2) = TimePoints[t]
           /\ Popped(all[j], 2) = TimePoints[t]
      BY <2>7, <3>8, <3>9, <3>10, PopsAll
    <3>12. PingsAmong(all, j) = PingsAmong(back, i) /\ j \in DOMAIN all
      BY <2>6, <2>8, <3>2, <3>3, <3>4
    <3> QED
      BY <3>6, <3>11, <3>12 DEF TimePointSize
  <2>10. ASSUME back[i].id = MessageAll
         PROVE  PopDefined(back[i], IDSize) /\ Popped(back[i], IDSize) = OtherID
    <3>1. out[i] = Greet
      <4>1. out[i].id = MessageAll
        BY <2>7, <2>10 DEF Matches
      <4> QED
        BY <2>7, <4>1 DEF ServerMessages, Made, ServerAccept, ServerPing, MessageAll
    <3>2. out[i].body = OtherID /\ Len(OtherID) = 1 /\ OtherID # << >>
      <4>1. Len(OtherID) = 1 /\ Len(<< >>) = 0
        BY ConstantsTyped
      <4>2. OtherID # << >>
        BY <4>1, SMTT(60)
      <4> QED
        BY <3>1, <4>1, <4>2 DEF Greet, Made
    <3>3. back[i].body = OtherID
      BY <2>7, <3>2 DEF Matches
    <3> QED
      BY <2>7, <3>2, <3>3, PopsAll DEF IDSize
  <2> QED
    BY <2>9, <2>10 DEF back, all
<1>2. Spec => []PingsSentBack
  BY InitSentBack, StepSentBack, AlwaysTyped, PTL DEF Spec
<1> QED
  BY <1>1, <1>2, AlwaysTyped, AlwaysOrdered, PTL
-----------------------------------------------------------------------------
(* Whole buffers: each way is a Channel.                                   *)
LEMMA KnownBuffers ==
  ASSUME NEW m \in ClientMessages \cup ServerMessages
  PROVE  <<m.id, m.size>> \in Buffers /\ (m.body # << >> => m.body \in Buffers)
<1>1. ASSUME NEW id \in {ServerAccept, ServerPing, MessageAll}, NEW data, Len(data) \in 0 .. 2,
             data # << >> => data \in Buffers, m = Made(id, data)
      PROVE  <<m.id, m.size>> \in Buffers /\ (m.body # << >> => m.body \in Buffers)
  <2>1. m.id = id /\ m.size = Len(data) /\ m.body = data
    BY <1>1 DEF Made
  <2>2. <<id, Len(data)>> \in Buffers
    BY <1>1 DEF Buffers, TimePointSize
  <2> QED
    BY <1>1, <2>1, <2>2
<1>2. ASSUME NEW k \in DOMAIN TimePoints
      PROVE  Len(TimePoints[k]) \in 0 .. 2 /\ TimePoints[k] \in Buffers
  BY ConstantsTyped DEF Buffers
<1>3. Len(OtherID) \in 0 .. 2 /\ OtherID \in Buffers /\ Len(<< >>) \in 0 .. 2
  BY ConstantsTyped DEF Buffers
<1>4. CASE \E k \in DOMAIN TimePoints : m = Made(ServerPing, TimePoints[k])
  BY <1>1, <1>2, <1>4
<1>5. CASE m = Made(MessageAll, << >>) \/ m = Made(ServerAccept, << >>)
  BY <1>1, <1>3, <1>5
<1>6. CASE m = Greet
  BY <1>1, <1>3, <1>6 DEF Greet
<1> QED
  BY <1>4, <1>5, <1>6 DEF ClientMessages, ServerMessages

(* What may happen on the way from an end to its peer.                     *)
Quiet(e) == begun'[e] = begun[e] /\ filled'[Peer(e)] = filled[Peer(e)]
Enters(e) == /\ \E b \in Buffers : begun'[e] = Append(begun[e], b)
             /\ filled'[Peer(e)] = filled[Peer(e)]
Leaves(e) == LET n == Len(filled[Peer(e)])
             IN  /\ n < Len(begun[e])
                 /\ filled'[Peer(e)] = Append(filled[Peer(e)], begun[e][n + 1])
                 /\ begun'[e] = begun[e]
Moves(e) == Quiet(e) \/ Enters(e) \/ Leaves(e)

LEMMA BeginMoves ==
  ASSUME Typed, NEW e \in Ends, NEW f \in Ends, NEW w \in Writes, NEW d,
         Begin(f, w, d), d.data \in Buffers, filled'[Peer(e)] = filled[Peer(e)]
  PROVE  Moves(e)
<1>1. begun' = [begun EXCEPT ![f] = Append(@, d.data)]
  BY DEF Begin
<1>2. CASE e = f
  BY <1>1, <1>2 DEF Typed, WritesTyped, Moves, Enters
<1>3. CASE e # f
  BY <1>1, <1>3 DEF Typed, WritesTyped, Moves, Quiet
<1> QED
  BY <1>2, <1>3

LEMMA FilledMoves ==
  ASSUME Typed, NEW e \in Ends, Sound(e), NEW f \in Ends, NEW k \in Kinds, k # "none",
         NEW n \in 1 .. MaxTransfer, Filled(f, k, n),
         reading'[f].got = << >>, e # f => WriterSame(e), begun'[e] = begun[e]
  PROVE  Moves(e)
<1>1. /\ filled' = [filled EXCEPT ![f] = Append(filled[f], Got(f, n))]
  BY FilledIs DEF Typed
<1>2. CASE e = f
  <2>1. Peer(e) \in Ends /\ Peer(e) # e
    BY PeerOf
  <2>2. filled'[Peer(e)] = filled[Peer(e)]
    BY <1>1, <1>2, <2>1 DEF Typed, ReadsTyped
  <2> QED
    BY <2>2 DEF Moves, Quiet
<1>3. CASE e # f
  <2>1. f = Peer(e)
    BY <1>3, PeerOf
  <2>2. /\ Len(filled[Peer(e)]) < Len(begun[e])
        /\ Got(Peer(e), n) = begun[e][Len(filled[Peer(e)]) + 1]
    <3>1. WriterSame(e) /\ Filled(Peer(e), k, n) /\ reading'[Peer(e)].got = << >>
      BY <1>3, <2>1
    <3> QED
      BY <3>1, FilledSound
  <2>3. filled'[Peer(e)] = Append(filled[Peer(e)], Got(Peer(e), n))
    BY <1>1, <2>1 DEF Typed, ReadsTyped
  <2> QED
    BY <2>2, <2>3 DEF Moves, Leaves
<1> QED
  BY <1>2, <1>3

LEMMA SendMoves ==
  ASSUME Typed, NEW e \in Ends, NEW f \in Ends,
         NEW msg \in ClientMessages \cup ServerMessages, Send(f, msg)
  PROVE  Moves(e)
<1>1. filled' = filled
  BY DEF Send, inputs
<1>2. "message" \in Writes
  BY DEF Writes
<1>3. CASE m_qMessagesOut[f] = << >>
  <2>1. Begin(f, "message", Header(msg))
    BY <1>3 DEF Send
  <2>2. msg \in Messages
    BY MadeTyped, ServerMessagesTyped
  <2>3. Header(msg).data \in Buffers
    BY <2>2, HeaderTyped, KnownBuffers
  <2> QED
    BY <1>1, <1>2, <2>1, <2>3, BeginMoves
<1>4. CASE m_qMessagesOut[f] # << >>
  <2>1. begun' = begun
    BY <1>4 DEF Send, writes
  <2> QED
    BY <1>1, <2>1 DEF Moves, Quiet
<1> QED
  BY <1>3, <1>4

LEMMA MessageWriteMoves ==
  ASSUME Typed, Known, NEW e \in Ends, NEW f \in Ends, WriteHeader(f) \/ WriteBody(f)
  PROVE  Moves(e)
<1> DEFINE out == m_qMessagesOut[f]
           msg == Head(out)
           next == Head(Tail(out))
<1>1. filled' = filled
  BY DEF WriteHeader, WriteBody, inputs
<1>2. "message" \in Writes
  BY DEF Writes
<1>3. /\ out # << >> /\ msg \in Messages
      /\ \/ Begin(f, "message", Data("body", msg.body)) /\ msg.body # << >>
         \/ PopAndWriteNext(f)
  BY MessageWritten DEF Typed
<1>4. \A i \in 1 .. Len(out) : out[i] \in ClientMessages \cup ServerMessages
  <2> DEFINE s == sent[f]
  <2>1. /\ out \in Seq(Messages) /\ s \in Seq(Messages) /\ Outbox(out, s)
        /\ \A i \in 1 .. Len(s) : s[i] \in ClientMessages \cup ServerMessages
    BY DEF Typed, QueuesTyped, Known, Ends
  <2> HIDE DEF out, s
  <2>2. Len(out) \in Nat /\ Len(s) \in Nat /\ Len(out) <= Len(s)
    BY <2>1, LenProperties DEF Outbox
  <2>3. \A i \in 1 .. Len(out) : Len(s) - Len(out) + i \in 1 .. Len(s)
    BY <2>2
  <2> QED
    BY <2>1, <2>3 DEF Outbox
<1>5. msg \in ClientMessages \cup ServerMessages
      /\ (Tail(out) # << >> => /\ next \in ClientMessages \cup ServerMessages
                               /\ next \in Messages)
  <2>1. out \in Seq(Messages) /\ Tail(out) \in Seq(Messages)
    BY <1>3, HeadTailProperties DEF Typed, QueuesTyped
  <2> HIDE DEF out
  <2>2. msg = out[1] /\ 1 \in 1 .. Len(out) /\ Len(out) \in Nat
        /\ Len(Tail(out)) = Len(out) - 1
    <3>1. Len(out) # 0 /\ Len(out) \in Nat
      BY <1>3, <2>1, EmptySeq, LenProperties
    <3> QED
      BY <1>3, <2>1, <3>1, HeadTailProperties
  <2>3. Tail(out) # << >> => next = out[2] /\ 2 \in 1 .. Len(out) /\ next \in Messages
    <3>1. Tail(out) # << >> => Len(Tail(out)) # 0 /\ Len(Tail(out)) \in Nat
      BY <2>1, EmptySeq, LenProperties
    <3>2. Tail(out) # << >> => 2 \in 1 .. Len(out) /\ 1 \in 1 .. Len(out) - 1
      BY <2>2, <3>1
    <3>3. Tail(out) # << >> => next = Tail(out)[1] /\ next \in Messages
      BY <2>1, HeadTailProperties
    <3>4. Tail(out) # << >> => Tail(out)[1] = out[1 + 1]
      BY <1>3, <2>1, <3>2, HeadTailProperties
    <3> QED
      BY <3>2, <3>3, <3>4
  <2> QED
    BY <1>4, <2>2, <2>3
<1> HIDE DEF msg, next
<1>6. CASE Begin(f, "message", Data("body", msg.body)) /\ msg.body # << >>
  <2>1. Data("body", msg.body).data \in Buffers
    BY <1>5, <1>6, KnownBuffers DEF Data
  <2> QED
    BY <1>1, <1>2, <1>6, <2>1, BeginMoves
<1>7. CASE PopAndWriteNext(f)
  <2>1. CASE Tail(out) # << >>
    <3>1. Begin(f, "message", Header(next))
      BY <1>7, <2>1 DEF PopAndWriteNext, next
    <3>2. Header(next).data \in Buffers
      BY <1>5, <2>1, HeaderTyped, KnownBuffers
    <3> QED
      BY <1>1, <1>2, <3>1, <3>2, BeginMoves
  <2>2. CASE Tail(out) = << >>
    <3>1. begun' = begun
      BY <1>7, <2>2 DEF PopAndWriteNext, Finish
    <3> QED
      BY <1>1, <3>1 DEF Moves, Quiet
  <2> QED
    BY <2>1, <2>2
<1> QED
  BY <1>3, <1>6, <1>7

LEMMA HandshakeMoves ==
  ASSUME Typed, NEW e \in Ends, Sound(e), ConnectToClient \/ AnswerRead \/ ChallengeRead
  PROVE  Moves(e)
<1>1. /\ "server" \in Ends /\ "client" \in Ends /\ "client" # "server"
      /\ Peer("server") = "client" /\ Peer("client") = "server"
      /\ "validation" \in Kinds /\ "validation" # "none" /\ "validation" \in Writes
  BY DEF Ends, Peer, Kinds, Writes
<1>2. /\ \A k, words : Data(k, words).data = words
      /\ \A k, n : Buffer(k, n).got = << >>
      /\ Nothing.got = << >>
  BY DEF Data, Buffer, Nothing
<1>3. {Challenge, Answer, OtherAnswer} \subseteq Buffers
  BY DEF Buffers
<1>4. CASE ConnectToClient
  <2>1. Begin("server", "validation", Data("validation", Challenge)) /\ filled' = filled
    BY <1>4 DEF ConnectToClient
  <2> QED
    BY <1>1, <1>2, <1>3, <2>1, BeginMoves
<1>5. CASE AnswerRead
  <2>1. PICK n \in 1 .. MaxTransfer :
          /\ Filled("server", "validation", n)
          /\ \/ reading' = [reading EXCEPT !["server"] = Buffer("header", 2)]
             \/ reading' = [reading EXCEPT !["server"] = Nothing]
    BY <1>5, AnswerReadIs
  <2>2. reading'["server"].got = << >>
    BY <1>1, <1>2, <2>1 DEF Typed, ReadsTyped
  <2>3. UNCHANGED <<writing, requests, moved, begun>>
    BY <1>5 DEF AnswerRead, writes
  <2>4. WriterSame(e) /\ begun'[e] = begun[e]
    BY <2>3 DEF WriterSame
  <2> QED
    BY <1>1, <2>1, <2>2, <2>4, FilledMoves
<1>6. CASE ChallengeRead
  <2>1. PICK n \in 1 .. MaxTransfer :
          /\ Filled("client", "validation", n)
          /\ Begin("client", "validation", Data("validation",
               IF Got("client", n) = Challenge THEN Answer ELSE OtherAnswer))
    BY <1>6 DEF ChallengeRead
  <2>2. reading'["client"].got = << >> /\ moved' = moved
    <3>1. reading' = [reading EXCEPT !["client"] = Nothing] /\ moved' = moved
      BY <1>6 DEF ChallengeRead, ReadNothing
    <3> QED
      BY <1>1, <1>2, <3>1 DEF Typed, ReadsTyped
  <2> DEFINE d == Data("validation", IF Got("client", n) = Challenge
                                     THEN Answer ELSE OtherAnswer)
  <2>3. d.data \in Buffers /\ Begin("client", "validation", d)
    BY <1>2, <1>3, <2>1
  <2> HIDE DEF d
  <2>4. filled' = [filled EXCEPT !["client"] = Append(filled["client"], Got("client", n))]
    BY <1>1, <2>1, FilledIs DEF Typed
  <2>5. CASE e = "client"
    <3>1. filled'[Peer(e)] = filled[Peer(e)]
      BY <1>1, <2>4, <2>5 DEF Typed, ReadsTyped
    <3> QED
      BY <1>1, <2>3, <3>1, BeginMoves
  <2>6. CASE e # "client"
    <3>1. WriterSame(e) /\ begun'[e] = begun[e]
      BY <2>2, <2>3, <2>6 DEF WriterSame, Begin, Typed, WritesTyped
    <3> QED
      BY <1>1, <2>1, <2>2, <2>6, <3>1, FilledMoves
  <2> QED
    BY <2>5, <2>6
<1> QED
  BY <1>4, <1>5, <1>6

LEMMA MessageReadMoves ==
  ASSUME Typed, NEW e \in Ends, Sound(e), NEW f \in Ends, ReadHeader(f) \/ ReadBody(f)
  PROVE  Moves(e)
<1>1. /\ "header" \in Kinds /\ "header" # "none" /\ "body" \in Kinds /\ "body" # "none"
  BY DEF Kinds
<1>2. \A k, n : Buffer(k, n).got = << >>
  BY DEF Buffer
<1>3. UNCHANGED <<writing, requests, moved, begun>>
  BY DEF ReadHeader, ReadBody, writes
<1>4. WriterSame(e) /\ begun'[e] = begun[e]
  BY <1>3 DEF WriterSame
<1>5. PICK n \in 1 .. MaxTransfer, k \in {"header", "body"} :
        Filled(f, k, n) /\ \E kd, sz : reading' = [reading EXCEPT ![f] = Buffer(kd, sz)]
  <2>1. CASE ReadHeader(f)
    <3>1. PICK n \in 1 .. MaxTransfer, id \in Words, size \in Words :
            /\ Filled(f, "header", n)
            /\ size > 0 => reading' = [reading EXCEPT ![f] = Buffer("body", size)]
            /\ ~(size > 0) => reading' = [reading EXCEPT ![f] = Buffer("header", 2)]
      BY <2>1, ReadHeaderIs DEF Typed
    <3>2. \E kd, sz : reading' = [reading EXCEPT ![f] = Buffer(kd, sz)]
      BY <3>1
    <3> QED
      BY <3>1, <3>2
  <2>2. CASE ReadBody(f)
    <3>1. PICK n \in 1 .. MaxTransfer :
            Filled(f, "body", n) /\ reading' = [reading EXCEPT ![f] = Buffer("header", 2)]
      BY <2>2, ReadBodyIs DEF Typed
    <3> QED
      BY <3>1
  <2> QED
    BY <2>1, <2>2
<1>6. reading'[f].got = << >>
  BY <1>2, <1>5 DEF Typed, ReadsTyped
<1> QED
  BY <1>1, <1>4, <1>5, <1>6, FilledMoves

LEMMA StepMoves ==
  ASSUME Typed, Ordered, [Next]_vars, NEW e \in Ends
  PROVE  Moves(e)
<1>1. Sound(e) /\ Sound("server") /\ Sound("client") /\ Known
  BY DEF Ordered, Ends
<1>2. "server" \in Ends /\ "client" \in Ends /\ Peer("client") = "server"
  BY DEF Ends, Peer
<1>3. CASE PingServer \/ MessageAllKey
  <2>1. PICK msg \in ClientMessages : Send("client", msg)
    BY <1>3, ClientSendsIs
  <2> QED
    BY <1>2, <2>1, SendMoves
<1>4. CASE \/ OnClientConnect \/ Greeting
           \/ \E n \in 1 .. Len(m_qMessagesIn["server"]) : Echoes(n)
  <2>1. PICK msg \in ServerMessages : Send("server", msg)
    BY <1>1, <1>2, <1>4, ServerSendsKnown
  <2> QED
    BY <1>2, <2>1, SendMoves
<1>5. ASSUME begun' = begun, filled' = filled PROVE Moves(e)
  BY <1>5 DEF Moves, Quiet
<1>6. ASSUME NEW f \in Ends, \/ Transfer(f) \/ ReadContinues(f) \/ OperationFails(f)
                             \/ \E w \in Writes : WriteContinues(f, w)
                             \/ ValidationWritten(f)
      PROVE  Moves(e)
  <2>1. begun' = begun /\ filled' = filled
    BY <1>6 DEF Transfer, ReadContinues, OperationFails, WriteContinues, ValidationWritten,
       Finish, writes, inputs
  <2> QED
    BY <1>5, <2>1
<1>7. CASE Break \/ UNCHANGED vars
           \/ \E n \in 1 .. Len(m_qMessagesIn["server"]) : TakesOther(n)
  <2>1. begun' = begun /\ filled' = filled
    BY <1>7 DEF Break, TakesOther, vars, writes, inputs
  <2> QED
    BY <1>5, <2>1
<1>8. ASSUME NEW f \in Ends, ReadHeader(f) \/ ReadBody(f) \/ WriteHeader(f) \/ WriteBody(f)
      PROVE  Moves(e)
  BY <1>1, <1>8, MessageReadMoves, MessageWriteMoves
<1>9. CASE ConnectToClient \/ AnswerRead \/ ChallengeRead
  BY <1>1, <1>9, HandshakeMoves
<1> QED
  BY <1>3, <1>4, <1>6, <1>7, <1>8, <1>9 DEF Next

(* The composed reads and writes over a stream that takes and gives parts  *)
(* of a buffer implement, each way, a channel of whole buffers: those that *)
(* Session is about.  A step that mixes two writes of an end is the only   *)
(* one that need not be a step of the channel, and after it nothing is     *)
(* claimed.                                                                *)
THEOREM WireIsChannel ==
  ASSUME AnswerIsNoHeader
  PROVE  Spec => BuffersAreChannel
<1>1. Init => ToClient!Init /\ ToServer!Init
  BY DEF Init, ToClient!Init, ToServer!Init, Ends
<1>2. /\ Typed /\ (mixed = {} => Ordered) /\ [Next]_vars
      => /\ [ToClient!Next \/ mixed' # {}]_(ToClient!vars)
         /\ [ToServer!Next \/ mixed' # {}]_(ToServer!vars)
  <2> SUFFICES ASSUME Typed, mixed = {} => Ordered, [Next]_vars, mixed' = {}
               PROVE  /\ [ToClient!Next]_(ToClient!vars)
                      /\ [ToServer!Next]_(ToServer!vars)
    OBVIOUS
  <2>1. Ordered
    BY MixedGrows
  <2>2. Moves("server") /\ Moves("client")
    BY <2>1, StepMoves DEF Ends
  <2>3. [ToClient!Next]_(ToClient!vars)
    BY <2>2 DEF Moves, Quiet, Enters, Leaves, Peer, ToClient!Next, ToClient!Send,
       ToClient!Receive, ToClient!vars
  <2>4. [ToServer!Next]_(ToServer!vars)
    BY <2>2 DEF Moves, Quiet, Enters, Leaves, Peer, ToServer!Next, ToServer!Send,
       ToServer!Receive, ToServer!vars
  <2> QED
    BY <2>3, <2>4
<1> QED
  BY <1>1, <1>2, AlwaysTyped, AlwaysOrdered, PTL DEF Spec, BuffersAreChannel
=============================================================================
