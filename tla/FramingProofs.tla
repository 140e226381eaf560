---------------------------- MODULE FramingProofs ----------------------------
(***************************************************************************)
(* For inputs of every size, every width of a byte and every packet limit: *)
(* the decoder of the harness stays within the input and its packet array, *)
(* the replay tool's decoder agrees with it, an accepted input is nothing  *)
(* but its packets, and a seed decodes into what it was written from.      *)
(***************************************************************************)
EXTENDS Framing, SequenceTheorems, WellFoundedInduction, TLAPS

Views    == [first : Nat, size : Nat]
Decoders == [offset : Nat, packets : Seq(Views),
             verdict : {"more", "accept", "reject"}, high : Nat]

\* The views of a decoder lie in the input.
ViewsFit(s) ==
    \A i \in 1..Len(s.packets) : s.packets[i].first + s.packets[i].size <= Len(data)

\* Until they decide, the decoders are at the same place of the input.
Lockstep ==
    c.verdict = "more" => py.offset = c.offset /\ py.packets = c.packets

IInv ==
    /\ data \in Seq(Nat)
    /\ c \in Decoders /\ py \in Decoders
    /\ phase = "write" => c = Fresh /\ py = Fresh
    /\ InBounds
    /\ SameVerdict /\ Lockstep

-----------------------------------------------------------------------------
\* A frame is a string of bytes.
LEMMA FrameType ==
    ASSUME NEW n \in Nat, NEW p \in Strings(n)
    PROVE  Frame(p) \in Seq(Nat)
<1>1. PICK k \in 0..n : p \in [1..k -> Bytes]
  BY DEF Strings
<1>2. p \in Seq(Nat) /\ Len(p) \in Nat
  BY <1>1, FramingAssumption DEF Bytes
<1>3. Len(p) \div Base \in Nat /\ Len(p) % Base \in Nat
  BY <1>2, FramingAssumption
<1> QED
  BY <1>2, <1>3 DEF Frame

\* What is read of the input, in it or behind it, is a natural number.
LEMMA LengthType ==
    ASSUME data \in Seq(Nat), NEW o \in Nat
    PROVE  Length(o) \in Nat
<1>1. Byte(o) \in Nat /\ Byte(o + 1) \in Nat
  BY DEF Byte
<1>2. \A x, y \in Nat : Base * x + y \in Nat
  BY FramingAssumption
<1> QED
  BY <1>1, <1>2 DEF Length

\* The initial states satisfy the invariant.
LEMMA InitInv == Init => IInv
<1> SUFFICES ASSUME Init PROVE IInv
  OBVIOUS
<1>1. data \in Seq(Nat)
  <2>1. CASE data = <<>>
    BY <2>1
  <2>2. CASE \E f \in Flags, body \in Strings(MaxSize) : data = <<f>> \o body
    <3>1. PICK f \in Flags, body \in Strings(MaxSize) : data = <<f>> \o body
      BY <2>2
    <3>2. PICK k \in 0..MaxSize : body \in [1..k -> Bytes]
      BY <3>1 DEF Strings
    <3>3. body \in Seq(Nat)
      BY <3>2, FramingAssumption DEF Bytes
    <3>4. <<f>> \in Seq(Nat)
      BY FramingAssumption
    <3> QED
      BY <3>1, <3>3, <3>4
  <2>3. CASE \E f \in Flags : data = <<f>>
    BY <2>3, FramingAssumption
  <2> QED
    BY <2>1, <2>2, <2>3 DEF Init
<1>2. Fresh \in Decoders /\ Fresh.high = 0 /\ Fresh.packets = <<>>
      /\ Fresh.verdict = "more"
  BY DEF Fresh, Decoders
<1>3. InBounds
  BY <1>1, <1>2, FramingAssumption DEF InBounds, Init
<1> QED
  BY <1>1, <1>2, <1>3 DEF Init, IInv, SameVerdict, Lockstep

-----------------------------------------------------------------------------
\* A step of the harness's decoder keeps its type and its bounds.
LEMMA CStepInv ==
    ASSUME data \in Seq(Nat), c \in Decoders, InBounds, CStep, data' = data
    PROVE  c' \in Decoders /\ InBounds'
<1>1. CASE CFirst
  <2>1. CASE data = <<>>
    <3>1. c' = [c EXCEPT !.verdict = "reject"]
      BY <1>1, <2>1 DEF CFirst
    <3> QED
      BY <3>1 DEF Decoders, InBounds
  <2>2. CASE data # <<>>
    <3>1. c' = [c EXCEPT !.verdict = "accept", !.high = 1,
                         !.packets = <<View(1, Len(data) - 1)>>]
      BY <1>1, <2>2 DEF CFirst
    <3>2. Len(data) \in Nat /\ Len(data) >= 1
      BY <2>2
    <3>3. View(1, Len(data) - 1) \in Views
      BY <3>2 DEF View, Views
    <3>4. c' \in Decoders
      <4>1. <<View(1, Len(data) - 1)>> \in Seq(Views)
        BY <3>3
      <4> QED
        BY <3>1, <4>1 DEF Decoders
    <3>5. c'.high = 1 /\ c'.packets = <<View(1, Len(data) - 1)>>
      BY <3>1 DEF Decoders
    <3>6. /\ Len(c'.packets) = 1
          /\ c'.packets[1].first = 1 /\ c'.packets[1].size = Len(data) - 1
      BY <3>5 DEF View
    <3> QED
      BY <3>2, <3>4, <3>5, <3>6, FramingAssumption DEF InBounds
  <2> QED
    BY <2>1, <2>2
<1>2. CASE CRefuse
  <2>1. c.offset \in Nat
    BY DEF Decoders
  <2>2. \/ c' = [c EXCEPT !.verdict = "reject"]
        \/ /\ c.offset + 2 <= Len(data)
           /\ c' = [c EXCEPT !.verdict = "reject", !.high = c.offset + 2]
    BY <1>2, <2>1 DEF CRefuse, HeaderCut
  <2>3. c' \in Decoders
    <3>1. CASE c' = [c EXCEPT !.verdict = "reject"]
      BY <3>1 DEF Decoders
    <3>2. CASE c' = [c EXCEPT !.verdict = "reject", !.high = c.offset + 2]
      <4>1. c.offset + 2 \in Nat
        BY <2>1
      <4> QED
        BY <3>2, <4>1 DEF Decoders
    <3> QED
      BY <2>2, <3>1, <3>2
  <2>4. c'.packets = c.packets /\ (c'.high = c.high \/ c'.high <= Len(data))
    BY <2>2 DEF Decoders
  <2> QED
    BY <2>3, <2>4 DEF InBounds
<1>3. CASE CTake
  <2> DEFINE o == c.offset
             v == View(o + 2, Length(o))
  <2>1. o \in Nat /\ Length(o) \in Nat /\ c.packets \in Seq(Views)
    BY LengthType DEF Decoders
  <2>2. v \in Views /\ v.first = o + 2 /\ v.size = Length(o)
    BY <2>1 DEF View, Views
  <2>3. /\ o + 2 <= Len(data) /\ Len(c.packets) # MaxPackets
        /\ o + 2 + Length(o) <= Len(data)
    BY <1>3, <2>1 DEF CTake, HeaderCut, Full, BadLength
  <2>4. /\ c'.packets = Append(c.packets, v) /\ c'.high = o + 2
        /\ c'.offset = o + 2 + Length(o) /\ c' \in Decoders
    <3>1. c' = [c EXCEPT !.offset = o + 2 + Length(o),
                         !.packets = Append(c.packets, v), !.high = o + 2]
      BY <1>3 DEF CTake, Decoders
    <3>2. Append(c.packets, v) \in Seq(Views)
      BY <2>1, <2>2
    <3>3. o + 2 \in Nat /\ o + 2 + Length(o) \in Nat
      BY <2>1
    <3> HIDE DEF v, o
    <3>4. c' \in Decoders
      BY <3>1, <3>2, <3>3 DEF Decoders
    <3> QED
      BY <3>1, <3>4 DEF Decoders
  <2>5. Len(c'.packets) = Len(c.packets) + 1 /\ Len(c'.packets) <= MaxPackets
    BY <2>1, <2>2, <2>3, <2>4, FramingAssumption DEF InBounds
  <2>6. ASSUME NEW i \in 1..Len(c'.packets)
        PROVE  c'.packets[i].first + c'.packets[i].size <= Len(data)
    <3>1. CASE i \in 1..Len(c.packets)
      BY <2>1, <2>2, <2>4, <3>1 DEF InBounds
    <3>2. CASE i = Len(c.packets) + 1
      <4>1. c'.packets[i] = v
        BY <2>1, <2>2, <2>4, <3>2
      <4> HIDE DEF v
      <4> QED
        BY <2>1, <2>2, <2>3, <4>1
    <3> QED
      BY <2>1, <2>5, <3>1, <3>2
  <2> QED
    BY <2>3, <2>4, <2>5, <2>6 DEF InBounds
<1>4. CASE CEnd
  BY <1>4 DEF CEnd, Decoders, InBounds
<1>5. CASE UNCHANGED c
  BY <1>5 DEF InBounds
<1> QED
  BY <1>1, <1>2, <1>3, <1>4, <1>5 DEF CStep

\* A step of the replay tool's decoder keeps its type.
LEMMA PyStepType ==
    ASSUME data \in Seq(Nat), py \in Decoders, PyStep
    PROVE  py' \in Decoders
<1> DEFINE o == py.offset
           v == View(o + 2, Length(o))
<1>1. o \in Nat /\ py.packets \in Seq(Views) /\ o + 2 \in Nat
  BY DEF Decoders
<1>2. Length(o) \in Nat
  BY <1>1, LengthType
<1>8. v \in Views /\ Append(py.packets, v) \in Seq(Views) /\ o + 2 + Length(o) \in Nat
  BY <1>1, <1>2 DEF View, Views
<1>3. CASE PyFirst
  <2>1. CASE data = <<>>
    BY <1>3, <2>1 DEF PyFirst, Decoders
  <2>2. CASE data # <<>>
    <3>1. <<View(1, Len(data) - 1)>> \in Seq(Views)
      BY <2>2 DEF View, Views
    <3>2. py' = [py EXCEPT !.verdict = "accept", !.high = 1,
                           !.packets = <<View(1, Len(data) - 1)>>]
      BY <1>3, <2>2 DEF PyFirst
    <3> QED
      BY <3>1, <3>2 DEF Decoders
  <2> QED
    BY <2>1, <2>2
<1>4. CASE PyRefuse
  BY <1>1, <1>4 DEF PyRefuse, Decoders
<1>5. CASE PyTake
  <2> HIDE DEF v
  <2>1. \/ py' = [py EXCEPT !.verdict = "reject", !.high = o + 2,
                            !.packets = Append(py.packets, v)]
        \/ py' = [py EXCEPT !.offset = o + 2 + Length(o),
                            !.packets = Append(py.packets, v), !.high = o + 2]
    BY <1>5 DEF PyTake, v
  <2> QED
    BY <1>1, <1>8, <2>1 DEF Decoders
<1>6. CASE PyEnd
  BY <1>6 DEF PyEnd, Decoders
<1>7. CASE UNCHANGED py
  BY <1>7
<1> QED
  BY <1>3, <1>4, <1>5, <1>6, <1>7 DEF PyStep

-----------------------------------------------------------------------------
\* From the same place the two decoders take, refuse or end alike: that the
\* one looks at the packet limit before it takes a packet and the other after
\* makes no difference.
LEMMA LockstepInv ==
    ASSUME data \in Seq(Nat), c \in Decoders, py \in Decoders, InBounds,
           SameVerdict, Lockstep, CStep, PyStep
    PROVE  SameVerdict' /\ Lockstep'
<1>1. CASE c.verdict = "more"
  <2> DEFINE o == c.offset
             v == View(o + 2, Length(o))
  <2>1. /\ py.verdict = "more" /\ py.offset = o /\ py.packets = c.packets
        /\ o \in Nat /\ Length(o) \in Nat /\ Len(data) \in Nat
        /\ c.packets \in Seq(Views) /\ Len(c.packets) \in Nat
        /\ Len(c.packets) <= MaxPackets /\ MaxPackets \in Nat
    <3>1. o \in Nat
      BY DEF Decoders
    <3>2. Length(o) \in Nat
      BY <3>1, LengthType
    <3> QED
      BY <1>1, <3>1, <3>2, FramingAssumption DEF SameVerdict, Lockstep, Decoders, InBounds
  <2>2. CASE data = <<>>
    <3>1. c'.verdict = "reject" /\ py'.verdict = "reject"
      BY <1>1, <2>1, <2>2 DEF CStep, PyStep, CFirst, PyFirst, CRefuse, PyRefuse,
         CTake, PyTake, CEnd, PyEnd, CMore, PyMore, Decoders
    <3> QED
      BY <3>1 DEF SameVerdict, Lockstep
  <2>3. CASE data # <<>> /\ ~Multipacket(data[1])
    <3>1. /\ c' = [c EXCEPT !.verdict = "accept", !.high = 1,
                            !.packets = <<View(1, Len(data) - 1)>>]
          /\ py' = [py EXCEPT !.verdict = "accept", !.high = 1,
                              !.packets = <<View(1, Len(data) - 1)>>]
      BY <1>1, <2>1, <2>3 DEF CStep, PyStep, CFirst, PyFirst, CRefuse, PyRefuse,
         CTake, PyTake, CEnd, PyEnd, CMore, PyMore
    <3> QED
      BY <3>1 DEF SameVerdict, Lockstep, Decoders
  <2>4. CASE data # <<>> /\ Multipacket(data[1])
    <3>0. (CRefuse \/ CTake \/ CEnd) /\ (PyRefuse \/ PyTake \/ PyEnd)
      BY <1>1, <2>1, <2>4 DEF CStep, PyStep, CFirst, PyFirst
    <3>1. CASE o >= Len(data)
      <4>1. CEnd /\ PyEnd
        BY <2>1, <3>0, <3>1 DEF CRefuse, CTake, PyRefuse, PyTake
      <4>2. /\ c'.verdict = (IF c.packets = <<>> THEN "reject" ELSE "accept")
            /\ py'.verdict = (IF c.packets = <<>> THEN "reject" ELSE "accept")
            /\ c'.packets = c.packets /\ py'.packets = c.packets
        BY <2>1, <4>1 DEF CEnd, PyEnd, Decoders
      <4> QED
        BY <4>2 DEF SameVerdict, Lockstep
    <3>2. CASE o < Len(data) /\ (Len(data) - o < 2 \/ Len(c.packets) = MaxPackets \/ BadLength(o))
      <4>0. CRefuse
        BY <2>1, <3>0, <3>2 DEF CTake, CEnd, HeaderCut, Full
      <4>1. c'.verdict = "reject"
        BY <4>0 DEF CRefuse, Decoders
      <4>2. PyBadLength(o) <=> BadLength(o)
        BY <2>1 DEF PyBadLength, BadLength
      <4>3. CASE Len(data) - o < 2 \/ BadLength(o)
        <5>1. PyRefuse
          BY <2>1, <3>0, <3>2, <4>2, <4>3 DEF PyTake, PyEnd
        <5>2. py'.verdict = "reject"
          BY <5>1 DEF PyRefuse, Decoders
        <5> QED
          BY <4>1, <5>2 DEF SameVerdict, Lockstep
      <4>4. CASE ~(Len(data) - o < 2) /\ ~BadLength(o)
        <5>1. PyTake /\ Len(c.packets) = MaxPackets
          BY <2>1, <3>0, <3>2, <4>2, <4>4 DEF PyRefuse, PyEnd
        <5>2. Len(Append(c.packets, v)) > MaxPackets
          BY <2>1, <5>1
        <5>3. py'.verdict = "reject"
          BY <2>1, <5>1, <5>2 DEF PyTake, Decoders
        <5> QED
          BY <4>1, <5>3 DEF SameVerdict, Lockstep
      <4> QED
        BY <4>3, <4>4
    <3>3. CASE o < Len(data) /\ ~(Len(data) - o < 2) /\ Len(c.packets) # MaxPackets /\ ~BadLength(o)
      <4>1. CTake
        BY <2>1, <3>0, <3>3 DEF CRefuse, CEnd, HeaderCut, Full
      <4>2. ~PyBadLength(o)
        BY <2>1, <3>3 DEF PyBadLength, BadLength
      <4>3. PyTake
        BY <2>1, <3>0, <3>3, <4>2 DEF PyRefuse, PyEnd
      <4>4. ~(Len(Append(c.packets, v)) > MaxPackets)
        BY <2>1, <3>3
      <4>5. /\ c'.offset = o + 2 + Length(o) /\ c'.packets = Append(c.packets, v)
            /\ c'.verdict = "more"
        BY <1>1, <4>1 DEF CTake, Decoders
      <4>6. py' = [py EXCEPT !.offset = o + 2 + Length(o),
                             !.packets = Append(c.packets, v), !.high = o + 2]
        BY <2>1, <4>3, <4>4 DEF PyTake
      <4>7. /\ py'.offset = o + 2 + Length(o) /\ py'.packets = Append(c.packets, v)
            /\ py'.verdict = "more"
        BY <2>1, <4>6 DEF Decoders
      <4> QED
        BY <4>5, <4>7 DEF SameVerdict, Lockstep
    <3> QED
      BY <2>1, <3>1, <3>2, <3>3
  <2> QED
    BY <2>2, <2>3, <2>4
<1>2. CASE c.verdict # "more"
  <2>1. c' = c /\ py' = py
    BY <1>2 DEF SameVerdict, CStep, PyStep, CFirst, PyFirst, CRefuse, PyRefuse,
       CTake, PyTake, CEnd, PyEnd, CMore, PyMore
  <2> QED
    BY <2>1 DEF SameVerdict, Lockstep
<1> QED
  BY <1>1, <1>2

\* Every step keeps the invariant; a seed in the making is not yet decoded.
LEMMA StepInv == IInv /\ [Next]_vars => IInv'
<1> SUFFICES ASSUME IInv, [Next]_vars PROVE IInv'
  OBVIOUS
<1> USE DEF IInv
<1>1. CASE Decode
  <2>1. data' = data /\ phase' = phase /\ phase # "write" /\ CStep /\ PyStep
    BY <1>1 DEF Decode
  <2>2. c' \in Decoders /\ InBounds'
    BY <2>1, CStepInv
  <2>3. py' \in Decoders
    BY <2>1, PyStepType
  <2>4. SameVerdict' /\ Lockstep'
    BY <2>1, LockstepInv
  <2> QED
    BY <2>1, <2>2, <2>3, <2>4
<1>2. CASE WriteSeed
  BY <1>2 DEF WriteSeed, InBounds, SameVerdict, Lockstep
<1>3. ASSUME NEW p \in Strings(Base * Base - 1), AddPacket(p)
      PROVE  IInv'
  <2>1. Base * Base - 1 \in Nat
    BY FramingAssumption
  <2>2. Frame(p) \in Seq(Nat)
    BY <2>1, FrameType
  <2>3. /\ data' = data \o Frame(p) /\ c = Fresh /\ py = Fresh
        /\ c' = c /\ py' = py /\ phase' = phase
    BY <1>3 DEF AddPacket
  <2>4. data' \in Seq(Nat)
    BY <2>2, <2>3
  <2>5. InBounds'
    BY <2>3, <2>4, FramingAssumption DEF InBounds, Fresh
  <2> QED
    BY <2>3, <2>4, <2>5 DEF SameVerdict, Lockstep
<1>4. CASE UNCHANGED vars
  BY <1>4 DEF vars, InBounds, SameVerdict, Lockstep
<1> QED
  BY <1>1, <1>2, <1>3, <1>4 DEF Next

\* decodeFuzzInput keeps its reads and views inside the input and its writes
\* inside the packet array, whatever bytes it is given.
THEOREM FramingInBounds == Spec => []InBounds
<1>1. IInv => InBounds
  BY DEF IInv
<1> QED
  BY <1>1, InitInv, StepInv, PTL DEF Spec

\* The replay tool decodes every input as the harness does.
THEOREM FramingSameVerdict == Spec => []SameVerdict
<1>1. IInv => SameVerdict
  BY DEF IInv
<1> QED
  BY <1>1, InitInv, StepInv, PTL DEF Spec

-----------------------------------------------------------------------------
(* Induction, and what it gives for FlattenSeq.                             *)

\* A set of natural numbers has a least element.
LEMMA LeastElement ==
    ASSUME NEW S \in SUBSET Nat, S # {}
    PROVE  \E m \in S : \A k \in S : m <= k
<1> DEFINE R == OpToRel(<, Nat)
<1>1. IsWellFoundedOn(R, Nat)
  BY NatLessThanWellFounded
<1>2. \A k, m \in Nat : k < m => <<k, m>> \in R
  BY DEF OpToRel
<1> HIDE DEF R
<1>3. PICK m \in S : \A k \in S : <<k, m>> \notin R
  BY <1>1, WFMin
<1>4. ASSUME NEW k \in S PROVE m <= k
  <2>1. ~(k < m)
    BY <1>2, <1>3
  <2> QED
    BY <2>1
<1> QED
  BY <1>4

\* Induction over a set: what holds of 0 and is handed on holds of all.
LEMMA Induct ==
    ASSUME NEW S, 0 \in S, \A n \in Nat : n \in S => n + 1 \in S
    PROVE  \A n \in Nat : n \in S
<1> DEFINE T == Nat \ S
<1> SUFFICES ASSUME T # {} PROVE FALSE
  OBVIOUS
<1>1. PICK m \in T : \A k \in T : m <= k
  BY LeastElement
<1>2. m # 0 /\ m - 1 \in Nat
  BY <1>1
<1>3. m - 1 \notin T
  BY <1>1, <1>2
<1> QED
  BY <1>1, <1>2, <1>3

\* The recursion of FlattenSeq.
Flattens(f, ss, n) == f = [i \in 1..n |-> IF i = 1 THEN ss[i] ELSE f[i - 1] \o ss[i]]

\* It has a solution.
LEMMA FlattensExists ==
    ASSUME NEW ss
    PROVE  \A n \in Nat : \E f : Flattens(f, ss, n)
<1> DEFINE S == {n \in Nat : \E f : Flattens(f, ss, n)}
<1>1. 0 \in S
  <2>1. Flattens([i \in 1..0 |-> 0], ss, 0)
    BY DEF Flattens
  <2> QED
    BY <2>1
<1>2. ASSUME NEW n \in Nat, n \in S
      PROVE  n + 1 \in S
  <2>1. PICK f : Flattens(f, ss, n)
    BY <1>2
  <2> DEFINE g == [i \in 1..n + 1 |->
                     IF i \in 1..n THEN f[i]
                     ELSE IF i = 1 THEN ss[i] ELSE f[i - 1] \o ss[i]]
  <2>2. \A i \in 1..n : f[i] = IF i = 1 THEN ss[i] ELSE f[i - 1] \o ss[i]
    BY <2>1 DEF Flattens
  <2>3. \A i \in 1..n + 1 : i # 1 => i - 1 \in 1..n
    OBVIOUS
  <2>4. \A i \in 1..n + 1 : g[i] = IF i = 1 THEN ss[i] ELSE f[i - 1] \o ss[i]
    BY <2>2
  <2>5. \A i \in 1..n : g[i] = f[i]
    OBVIOUS
  <2>6. \A i \in 1..n + 1 : g[i] = IF i = 1 THEN ss[i] ELSE g[i - 1] \o ss[i]
    BY <2>3, <2>4, <2>5
  <2>7. g = [i \in 1..n + 1 |-> g[i]]
    OBVIOUS
  <2> HIDE DEF g
  <2>8. Flattens(g, ss, n + 1)
    BY <2>6, <2>7 DEF Flattens
  <2> QED
    BY <2>8
<1> HIDE DEF S
<1>3. \A n \in Nat : n \in S
  BY <1>1, <1>2, Induct
<1> QED
  BY <1>3 DEF S

\* Three byte strings one after the other.
LEMMA Reassociated ==
    ASSUME NEW x \in Seq(Nat), NEW y \in Seq(Nat), NEW z \in Seq(Nat)
    PROVE  (x \o y) \o z = x \o (y \o z)
BY ConcatAssociative, Z3

\* FlattenSeq of a sequence with one element more is the longer by that element.
LEMMA FlattenAppend ==
    ASSUME NEW V, NEW ss \in Seq(Seq(V)), NEW x \in Seq(V)
    PROVE  /\ FlattenSeq(ss) \in Seq(V)
           /\ FlattenSeq(Append(ss, x)) = FlattenSeq(ss) \o x
<1> DEFINE n == Len(ss)
           tt == Append(ss, x)
           W == Seq(V)
<1>1. /\ n \in Nat /\ Len(tt) = n + 1 /\ tt[n + 1] = x
      /\ \A i \in 1..n : tt[i] = ss[i] /\ ss[i] \in W
  <2> HIDE DEF W
  <2>1. ss \in Seq(W) /\ x \in W
    BY DEF W
  <2> QED
    BY <2>1, AppendProperties
<1> HIDE DEF n, tt, W
<1>2. PICK f : f = CHOOSE h : Flattens(h, tt, n + 1)
  OBVIOUS
<1>3. PICK g : g = CHOOSE h : Flattens(h, ss, n)
  OBVIOUS
<1>4. Flattens(f, tt, n + 1) /\ Flattens(g, ss, n)
  <2>1. n + 1 \in Nat
    BY <1>1
  <2>2. (\E h : Flattens(h, tt, n + 1)) /\ (\E h : Flattens(h, ss, n))
    BY <1>1, <2>1, FlattensExists
  <2> QED
    BY <1>2, <1>3, <2>2
<1>5. FlattenSeq(tt) = f[n + 1]
  BY <1>1, <1>2 DEF FlattenSeq, Flattens
<1>6. n # 0 => FlattenSeq(ss) = g[n]
  BY <1>1, <1>3 DEF FlattenSeq, Flattens, n
<1>7. /\ \A i \in 1..n + 1 : f[i] = IF i = 1 THEN tt[i] ELSE f[i - 1] \o tt[i]
      /\ \A i \in 1..n : g[i] = IF i = 1 THEN ss[i] ELSE g[i - 1] \o ss[i]
  BY <1>4 DEF Flattens
<1>8. \A i \in Nat : i \in 1..n => f[i] = g[i] /\ g[i] \in W
  <2> DEFINE S == {i \in Nat : i \in 1..n => f[i] = g[i] /\ g[i] \in W}
  <2>1. 0 \in S
    OBVIOUS
  <2>2. ASSUME NEW i \in Nat, i \in S
        PROVE  i + 1 \in S
    <3> SUFFICES ASSUME i + 1 \in 1..n
                 PROVE  f[i + 1] = g[i + 1] /\ g[i + 1] \in W
      OBVIOUS
    <3>1. CASE i = 0
      BY <1>1, <1>7, <3>1
    <3>2. CASE i # 0
      <4>1. i \in 1..n /\ i + 1 # 1 /\ i + 1 \in 1..n + 1 /\ (i + 1) - 1 = i
        BY <1>1, <3>2
      <4>2. f[i] = g[i] /\ g[i] \in W /\ ss[i + 1] \in W /\ tt[i + 1] = ss[i + 1]
        BY <1>1, <2>2, <4>1
      <4>3. f[i + 1] = f[i] \o tt[i + 1] /\ g[i + 1] = g[i] \o ss[i + 1]
        BY <1>7, <4>1
      <4> QED
        BY <4>2, <4>3, ConcatProperties DEF W
    <3> QED
      BY <3>1, <3>2
  <2> HIDE DEF S
  <2>3. \A i \in Nat : i \in S
    BY <2>1, <2>2, Induct
  <2> QED
    BY <2>3 DEF S
<1>9. CASE n = 0
  <2>1. ss = <<>> /\ FlattenSeq(ss) = ss
    BY <1>9 DEF FlattenSeq, n
  <2>2. f[n + 1] = x
    BY <1>1, <1>7, <1>9
  <2> QED
    <3>1. <<>> \in Seq(V) /\ <<>> \o x = x
      BY ConcatEmptySeq, EmptySeq
    <3> QED
      BY <1>5, <2>1, <2>2, <3>1 DEF tt
<1>10. CASE n # 0
  <2>0. n \in Nat
    BY <1>1
  <2>1. n \in 1..n /\ n + 1 \in 1..n + 1 /\ n + 1 # 1 /\ (n + 1) - 1 = n
    BY <2>0, <1>10
  <2>2. f[n + 1] = f[n] \o x /\ f[n] = g[n] /\ g[n] \in W
    BY <1>1, <1>7, <1>8, <2>1
  <2> QED
    BY <1>5, <1>6, <1>10, <2>2 DEF tt, W
<1> QED
  BY <1>9, <1>10

-----------------------------------------------------------------------------
(* What lies between the flags and the place of the decoder.                *)

\* data is a frame after a frame: its bytes are bytes, and the packets of the
\* decoder, framed again, are what it has passed.
Written ==
    /\ \A i \in 2..Len(data) : data[i] \in Bytes
    /\ seed \in Seq(Seq(Nat)) /\ \A i \in 1..Len(seed) : Len(seed[i]) > 0
    /\ phase = "write" \/ seed # <<>> => data # <<>> /\ Multipacket(data[1])

Live == c.verdict # "reject" /\ data # <<>> /\ Multipacket(data[1])

Framed(views) == [i \in DOMAIN views |-> Frame(Contents(views)[i])]

Tiled ==
    /\ c.verdict = "accept" => data # <<>>
    /\ Live =>
         /\ c.offset \in 1..Len(data)
         /\ SubSeq(data, 1, c.offset) = <<data[1]>> \o FlattenSeq(Framed(c.packets))
         /\ c.verdict = "accept" => c.offset = Len(data)

\* A number is taken apart by the base and put together again.
LEMMA DivMod ==
    ASSUME NEW m \in Nat \ {0}, NEW k \in Nat, NEW j \in 0..m - 1
    PROVE  (m * k + j) \div m = k /\ (m * k + j) % m = j
<1>1. PICK n \in Int : n = m * k + j
  OBVIOUS
<1>2. /\ n = m * (n \div m) + (n % m) /\ n % m \in 0..m - 1 /\ n \div m \in Int
  BY <1>1, SMTT(30)
<1>3. ~(n \div m >= k + 1)
  <2>1. ASSUME n \div m >= k + 1 PROVE m * (n \div m) >= m * (k + 1)
    BY <1>2, <2>1, SMTT(30)
  <2> QED
    BY <1>1, <1>2, <2>1, SMTT(30)
<1>4. ~(n \div m <= k - 1)
  <2>1. ASSUME n \div m <= k - 1 PROVE m * (n \div m) <= m * (k - 1)
    BY <1>2, <2>1, SMTT(30)
  <2> QED
    BY <1>1, <1>2, <2>1, SMTT(30)
<1>5. n \div m = k
  BY <1>2, <1>3, <1>4
<1> QED
  BY <1>1, <1>2, <1>5, SMTT(30)

\* The two bytes of a length and the bytes it counts are the frame of these.
LEMMA FrameAtOffset ==
    ASSUME data \in Seq(Nat), Written, NEW o \in Nat, o >= 1, o + 2 + Length(o) <= Len(data)
    PROVE  /\ Length(o) \in Nat
           /\ SubSeq(data, o + 3, o + 2 + Length(o)) \in Seq(Nat)
           /\ Len(SubSeq(data, o + 3, o + 2 + Length(o))) = Length(o)
           /\ Frame(SubSeq(data, o + 3, o + 2 + Length(o))) = SubSeq(data, o + 1, o + 2 + Length(o))
           /\ SubSeq(data, o + 1, o + 2 + Length(o)) \in Seq(Nat)
<1> DEFINE L == Length(o)
           p == SubSeq(data, o + 3, o + 2 + L)
           h == SubSeq(data, o + 1, o + 2)
<1>1. L \in Nat /\ Len(data) \in Nat /\ Base \in Nat \ {0, 1}
  BY LengthType, FramingAssumption
<1>2. o + 1 \in 2..Len(data) /\ o + 2 \in 2..Len(data)
  BY <1>1
<1>3. /\ L = Base * data[o + 1] + data[o + 2]
      /\ data[o + 1] \in Bytes /\ data[o + 2] \in Bytes
  BY <1>1, <1>2 DEF Length, Byte, Written
<1> HIDE DEF L
<1>4. L \div Base = data[o + 1] /\ L % Base = data[o + 2]
  <2>1. data[o + 1] \in Nat /\ data[o + 2] \in 0..Base - 1 /\ Base \in Nat \ {0}
    BY <1>1, <1>3 DEF Bytes
  <2> QED
    BY <1>3, <2>1, DivMod
<1>5. p \in Seq(Nat) /\ Len(p) = L
  <2>1. \A i \in o + 3..o + 2 + L : data[i] \in Nat
    BY <1>1 DEF L
  <2>2. o + 3 \in Int /\ o + 2 + L \in Int
    BY <1>1
  <2>3. p \in Seq(Nat) /\ Len(p) = (IF o + 3 <= o + 2 + L THEN (o + 2 + L) - (o + 3) + 1 ELSE 0)
    BY <2>1, <2>2, SubSeqProperties
  <2> QED
    BY <1>1, <2>3
<1>6. h = <<data[o + 1], data[o + 2]>>
  <2>1. /\ h \in Seq(Nat) /\ Len(h) = 2 /\ h[1] = data[o + 1] /\ h[2] = data[o + 2]
    BY <1>1, <1>2
  <2>2. /\ <<data[o + 1], data[o + 2]>> \in Seq(Nat) /\ Len(<<data[o + 1], data[o + 2]>>) = 2
        /\ <<data[o + 1], data[o + 2]>>[1] = data[o + 1]
        /\ <<data[o + 1], data[o + 2]>>[2] = data[o + 2]
    BY <1>1, <1>2
  <2>3. \A i \in 1..2 : i = 1 \/ i = 2
    OBVIOUS
  <2> HIDE DEF h
  <2> QED
    BY <2>1, <2>2, <2>3, SeqEqual
<1>7. Frame(p) = h \o p
  <2> HIDE DEF h, p
  <2> QED
    BY <1>4, <1>5, <1>6 DEF Frame
<1>8. h \o p = SubSeq(data, o + 1, o + 2 + L)
  <2>1. /\ o + 1 \in 1..Len(data) + 1 /\ o + 2 \in (o + 1) - 1..Len(data)
        /\ o + 2 + L \in o + 2..Len(data) /\ (o + 2) + 1 = o + 3
    BY <1>1 DEF L
  <2>2. SubSeq(data, o + 1, o + 2) \o SubSeq(data, (o + 2) + 1, o + 2 + L)
          = SubSeq(data, o + 1, o + 2 + L)
    BY <2>1, ConcatAdjacentSubSeq
  <2> QED
    BY <2>1, <2>2
<1>9. Frame(p) \in Seq(Nat)
  <2>1. h \in Seq(Nat)
    BY <1>1, <1>2
  <2> HIDE DEF h, p
  <2> QED
    BY <1>5, <1>7, <2>1, ConcatProperties
<1> QED
  BY <1>1, <1>5, <1>7, <1>8, <1>9 DEF L

\* One view more is one frame more.
LEMMA FramedAppend ==
    ASSUME data \in Seq(Nat), NEW views \in Seq(Views), NEW v \in Views,
           \A i \in 1..Len(views) : views[i].first + views[i].size <= Len(data),
           v.first + v.size <= Len(data)
    PROVE  /\ Framed(views) \in Seq(Seq(Nat))
           /\ Framed(Append(views, v))
                = Append(Framed(views), Frame(SubSeq(data, v.first + 1, v.first + v.size)))
<1> DEFINE n == Len(views)
           t == Append(views, v)
           F(w) == Frame(SubSeq(data, w.first + 1, w.first + w.size))
<1>1. /\ n \in Nat /\ DOMAIN views = 1..n /\ DOMAIN t = 1..n + 1 /\ t[n + 1] = v
      /\ \A i \in 1..n : t[i] = views[i] /\ views[i] \in Views
  BY AppendProperties, LenProperties
<1>2. /\ Framed(views) = [i \in 1..n |-> F(views[i])]
      /\ Framed(t) = [i \in 1..n + 1 |-> F(t[i])]
  BY <1>1 DEF Framed, Contents
<1>3. ASSUME NEW w \in Views, w.first + w.size <= Len(data) PROVE F(w) \in Seq(Nat)
  <2> DEFINE p == SubSeq(data, w.first + 1, w.first + w.size)
  <2>1. w \in Views /\ w.first + w.size <= Len(data)
    BY <1>3
  <2>2. w.first \in Nat /\ w.size \in Nat
    BY <2>1 DEF Views
  <2>3. \A j \in w.first + 1..w.first + w.size : data[j] \in Nat
    BY <2>1, <2>2
  <2>4. w.first + 1 \in Int /\ w.first + w.size \in Int
    BY <2>2
  <2>5. p \in Seq(Nat)
    BY <2>3, <2>4, SubSeqProperties
  <2> HIDE DEF p
  <2>6. Len(p) \in Nat
    BY <2>5, LenProperties
  <2>7. Len(p) \div Base \in Nat /\ Len(p) % Base \in Nat
    <3>1. \A k \in Nat : k \div Base \in Nat /\ k % Base \in Nat
      BY FramingAssumption
    <3> QED
      BY <2>6, <3>1
  <2>8. Frame(p) \in Seq(Nat)
    BY <2>5, <2>7 DEF Frame
  <2> QED
    BY <2>8 DEF p
<1> HIDE DEF n, t, F
<1>4. Framed(views) \in Seq(Seq(Nat))
  <2> DEFINE W == Seq(Nat)
  <2> HIDE DEF W
  <2>0. \A i \in 1..n : F(views[i]) \in W
    BY <1>1, <1>3 DEF W, n
  <2>1. Framed(views) \in [1..n -> W]
    BY <1>2, <2>0
  <2>2. Framed(views) \in Seq(W)
    BY <1>1, <2>1, SeqDef
  <2> QED
    BY <2>2 DEF W
<1>5. Framed(t) = Append(Framed(views), F(v))
  <2>1. DOMAIN Framed(views) = 1..n /\ Len(Framed(views)) = n
    <3>1. DOMAIN Framed(views) = 1..n
      BY <1>2
    <3>2. DOMAIN Framed(views) = 1..Len(Framed(views)) /\ Len(Framed(views)) \in Nat
      BY <1>4, LenProperties
    <3> QED
      BY <1>1, <3>1, <3>2
  <2> DEFINE W == Seq(Nat)
             a == Append(Framed(views), F(v))
  <2>2. F(v) \in W
    BY <1>3
  <2>3. Framed(views) \in Seq(W)
    BY <1>4
  <2> HIDE DEF W
  <2>4. /\ a \in Seq(W) /\ Len(a) = n + 1 /\ a[n + 1] = F(v)
        /\ \A i \in 1..n : a[i] = Framed(views)[i]
    BY <2>1, <2>2, <2>3, AppendProperties
  <2> HIDE DEF a
  <2>5. a = [i \in 1..n + 1 |-> a[i]]
    BY <2>4, LenProperties
  <2>6. \A i \in 1..n + 1 : i = n + 1 \/ i \in 1..n
    BY <1>1
  <2>7. \A i \in 1..n + 1 : a[i] = Framed(t)[i]
    BY <1>1, <1>2, <2>4, <2>6
  <2>8. Framed(t) = [i \in 1..n + 1 |-> Framed(t)[i]]
    BY <1>2
  <2> QED
    BY <2>5, <2>7, <2>8 DEF a
<1> QED
  BY <1>4, <1>5 DEF t, F

\* The first byte is the whole of what a decoder has passed that has no packet.
LEMMA TiledFresh ==
    ASSUME NEW d \in Seq(Nat), d # <<>>
    PROVE  SubSeq(d, 1, 1) = <<d[1]>> \o FlattenSeq(<<>>)
<1>1. FlattenSeq(<<>>) = <<>>
  BY DEF FlattenSeq
<1>2. <<d[1]>> \in Seq(Nat) /\ Len(d) \in Nat /\ Len(d) >= 1
  OBVIOUS
<1>3. <<d[1]>> \o <<>> = <<d[1]>>
  BY <1>2, ConcatEmptySeq
<1>4. SubSeq(d, 1, 1) = <<d[1]>>
  <2> DEFINE s == SubSeq(d, 1, 1)
             t == <<d[1]>>
  <2>1. s \in Seq(Nat) /\ Len(s) = 1 /\ s[1] = d[1]
    BY <1>2
  <2>2. t \in Seq(Nat) /\ Len(t) = 1 /\ t[1] = d[1]
    BY <1>2
  <2>3. \A i \in 1..1 : i = 1
    OBVIOUS
  <2> HIDE DEF s, t
  <2>4. s = t
    BY <2>1, <2>2, <2>3, SeqEqual
  <2> QED
    BY <2>4 DEF s, t
<1> QED
  BY <1>1, <1>3, <1>4

\* A packet that is taken continues the tiling.
LEMMA TiledTake ==
    ASSUME data \in Seq(Nat), Written, InBounds, c \in Decoders, Tiled, CTake, data' = data
    PROVE  Tiled'
<1> DEFINE o == c.offset
           L == Length(o)
           v == View(o + 2, L)
           p == SubSeq(data, o + 3, o + 2 + L)
<1>1. /\ c.verdict = "more" /\ data # <<>> /\ Multipacket(data[1]) /\ o < Len(data)
      /\ ~HeaderCut(o) /\ ~BadLength(o)
      /\ c' = [c EXCEPT !.offset = o + 2 + L, !.packets = Append(c.packets, v), !.high = o + 2]
  BY DEF CTake, CMore, Decoders
<1>2. /\ o \in 1..Len(data)
      /\ SubSeq(data, 1, o) = <<data[1]>> \o FlattenSeq(Framed(c.packets))
  BY <1>1 DEF Tiled, Live
<1>3. o \in Nat /\ o >= 1 /\ L \in Nat /\ Len(data) \in Nat /\ o + 2 + L <= Len(data)
  <2>1. o \in Nat /\ o >= 1 /\ Len(data) \in Nat
    BY <1>2
  <2>2. L \in Nat
    BY <2>1, LengthType
  <2>3. ~(L > Len(data) - (o + 2))
    BY <1>1 DEF BadLength
  <2> HIDE DEF L, o
  <2> QED
    BY <2>1, <2>2, <2>3
<1>4. Frame(p) = SubSeq(data, o + 1, o + 2 + L) /\ Frame(p) \in Seq(Nat)
  BY <1>3, FrameAtOffset
<1>5. /\ v \in Views /\ v.first + 1 = o + 3 /\ v.first + v.size = o + 2 + L
      /\ c.packets \in Seq(Views)
  BY <1>3 DEF View, Views, Decoders
<1>6. /\ Framed(c.packets) \in Seq(Seq(Nat))
      /\ Framed(Append(c.packets, v)) = Append(Framed(c.packets), Frame(p))
  <2> HIDE DEF v, L, o
  <2> QED
    BY <1>3, <1>5, FramedAppend DEF InBounds
<1> DEFINE P == FlattenSeq(Framed(c.packets))
           Q == FlattenSeq(Framed(Append(c.packets, v)))
<1>7. P \in Seq(Nat) /\ Q = P \o Frame(p)
  BY <1>4, <1>6, FlattenAppend
<1>8. SubSeq(data, 1, o + 2 + L) = SubSeq(data, 1, o) \o SubSeq(data, o + 1, o + 2 + L)
  <2>1. 1 \in 1..Len(data) + 1 /\ o \in 1 - 1..Len(data) /\ o + 2 + L \in o..Len(data)
    BY <1>3
  <2> HIDE DEF L, o
  <2> QED
    BY <2>1, ConcatAdjacentSubSeq
<1>9. SubSeq(data, 1, o + 2 + L) = <<data[1]>> \o Q
  <2> DEFINE a == <<data[1]>>
             F == Frame(p)
  <2>1. a \in Seq(Nat) /\ P \in Seq(Nat) /\ F \in Seq(Nat)
    BY <1>1, <1>4, <1>7
  <2>2. Q = P \o F /\ SubSeq(data, 1, o) = a \o P /\ SubSeq(data, o + 1, o + 2 + L) = F
    BY <1>2, <1>4, <1>7
  <2> HIDE DEF P, Q, F, a
  <2>3. (a \o P) \o F = a \o (P \o F)
    BY <2>1, Reassociated
  <2>4. SubSeq(data, 1, o + 2 + L) = a \o Q
    BY <1>8, <2>2, <2>3
  <2> QED
    BY <2>4 DEF a
<1>10. /\ c'.verdict = "more" /\ c'.offset = o + 2 + L /\ c'.packets = Append(c.packets, v)
       /\ Framed(c.packets)' = Framed(Append(c.packets, v))
  <2>1. c'.verdict = "more" /\ c'.offset = o + 2 + L /\ c'.packets = Append(c.packets, v)
    <3> DEFINE t == Append(c.packets, v)
               q == o + 2 + L
    <3>1. c' = [c EXCEPT !.offset = q, !.packets = t, !.high = o + 2] /\ c.verdict = "more"
      BY <1>1
    <3> HIDE DEF t, q, v, L, o
    <3>2. c'.verdict = "more" /\ c'.offset = q /\ c'.packets = t
      BY <3>1 DEF Decoders
    <3> QED
      BY <3>2 DEF t, q
  <2> DEFINE t == Append(c.packets, v)
  <2>2. c'.packets = t
    BY <2>1
  <2> HIDE DEF t, p, P, Q
  <2>3. Framed(c.packets)' = Framed(t)
    BY <2>2 DEF Framed, Contents
  <2> QED
    BY <2>1, <2>3 DEF t
<1>11. o + 2 + L \in 1..Len(data)
  BY <1>3
<1> DEFINE q == o + 2 + L
<1>12. /\ c'.verdict = "more" /\ c'.offset = q /\ q \in 1..Len(data')
       /\ SubSeq(data', 1, q) = <<data'[1]>> \o FlattenSeq(Framed(c.packets)')
  BY <1>9, <1>10, <1>11
<1> HIDE DEF q
<1> QED
  BY <1>12 DEF Tiled, Live

\* So does every other step of the decoder.
LEMMA TiledStep ==
    ASSUME data \in Seq(Nat), Written, InBounds, c \in Decoders, Tiled, CStep, data' = data
    PROVE  Tiled'
<1>1. CASE CFirst
  BY <1>1 DEF CFirst, Tiled, Live, Decoders
<1>2. CASE CRefuse
  <2>1. c'.verdict = "reject"
    BY <1>2 DEF CRefuse, Decoders
  <2> QED
    BY <2>1 DEF Tiled, Live
<1>3. CASE CTake
  BY <1>3, TiledTake
<1>4. CASE CEnd
  <2>1. /\ c.verdict = "more" /\ data # <<>> /\ Multipacket(data[1]) /\ c.offset >= Len(data)
        /\ c'.offset = c.offset /\ c'.packets = c.packets /\ c.offset \in Nat
    BY <1>4 DEF CEnd, CMore, Decoders
  <2>2. Framed(c.packets)' = Framed(c.packets)
    BY <2>1 DEF Framed, Contents
  <2>3. c.offset \in 1..Len(data) /\ Len(data) \in Nat
    BY <2>1 DEF Tiled, Live
  <2>4. c.offset = Len(data)
    BY <2>1, <2>3
  <2> QED
    BY <2>1, <2>2, <2>3, <2>4 DEF Tiled, Live
<1>5. CASE UNCHANGED c
  BY <1>5 DEF Tiled, Live, Framed, Contents
<1> QED
  BY <1>1, <1>2, <1>3, <1>4, <1>5 DEF CStep

-----------------------------------------------------------------------------
(* Where the packets of a seed lie in it.                                   *)

\* d holds the frames of the packets s; st[i] is where that of the i-th starts.
LaidIn(d, s, st) ==
    /\ st \in [1..Len(s) + 1 -> Nat]
    /\ st[1] = 1 /\ st[Len(s) + 1] = Len(d)
    /\ \A i \in 1..Len(s) :
         /\ st[i + 1] = st[i] + 2 + Len(s[i]) /\ st[i + 1] <= Len(d)
         /\ Base * d[st[i] + 1] + d[st[i] + 2] = Len(s[i])
         /\ SubSeq(d, st[i] + 3, st[i + 1]) = s[i]

Laid(st) == LaidIn(data, seed, st)

\* The decoder is at the start of a frame, and has the packets before it.
Follows(st) ==
    c.verdict # "reject" =>
        /\ Len(c.packets) <= Len(seed)
        /\ \A i \in 1..Len(c.packets) : c.packets[i] = View(st[i] + 2, Len(seed[i]))
        /\ c.verdict = "more" => c.offset = st[Len(c.packets) + 1]
        /\ c.verdict = "accept" => Len(c.packets) = Len(seed)

AtSeed ==
    phase = "write" \/ seed # <<>> =>
        /\ \E st : Laid(st) /\ Follows(st)
        /\ c.verdict = "reject" => Len(seed) > MaxPackets

\* A step of the decoder on a seed: it takes the next packet, or refuses the
\* first one too many, or ends behind the last.
LEMMA SeedDecodeStep ==
    ASSUME data \in Seq(Nat), Written, InBounds, c \in Decoders, CStep,
           seed # <<>>, NEW st, Laid(st), Follows(st),
           c.verdict = "reject" => Len(seed) > MaxPackets,
           data' = data, seed' = seed
    PROVE  Laid(st)' /\ Follows(st)' /\ (c'.verdict = "reject" => Len(seed) > MaxPackets)
<1> DEFINE n == Len(seed)
           k == Len(c.packets)
<1>1. /\ n \in Nat \ {0} /\ Len(data) \in Nat /\ data # <<>> /\ Multipacket(data[1])
      /\ k \in Nat /\ k <= MaxPackets /\ MaxPackets \in Nat /\ c.packets \in Seq(Views)
      /\ \A i \in 1..n : Len(seed[i]) \in Nat \ {0}
  BY FramingAssumption DEF Written, InBounds, Decoders
<1>2. Laid(st)'
  BY DEF Laid
<1>3. CASE c.verdict = "more"
  <2> DEFINE o == c.offset
             L == Length(o)
             v == View(o + 2, L)
  <2>1. k <= n /\ o = st[k + 1] /\ k + 1 \in 1..n + 1 /\ o \in Nat
    BY <1>1, <1>3 DEF Follows, Laid, LaidIn
  <2>2. k < n => /\ L = Len(seed[k + 1]) /\ L \in Nat \ {0} /\ st[k + 2] = o + 2 + L
                 /\ o + 2 + L <= Len(data) /\ o < Len(data)
    <3> SUFFICES ASSUME k < n
                 PROVE  /\ L = Len(seed[k + 1]) /\ L \in Nat \ {0} /\ st[k + 2] = o + 2 + L
                        /\ o + 2 + L <= Len(data) /\ o < Len(data)
      OBVIOUS
    <3>1. k + 1 \in 1..n /\ (k + 1) + 1 = k + 2
      BY <1>1, <2>1
    <3>2. /\ st[k + 2] = st[k + 1] + 2 + Len(seed[k + 1]) /\ st[k + 2] <= Len(data)
          /\ Length(st[k + 1]) = Len(seed[k + 1])
      <4>1. /\ st[k + 2] = st[k + 1] + 2 + Len(seed[k + 1]) /\ st[k + 2] <= Len(data)
            /\ Base * data[st[k + 1] + 1] + data[st[k + 1] + 2] = Len(seed[k + 1])
            /\ st[k + 1] \in Nat
        BY <2>1, <3>1 DEF Laid, LaidIn
      <4>2. Len(seed[k + 1]) \in Nat \ {0}
        BY <1>1, <3>1
      <4>3. PICK x \in Nat, l \in Nat \ {0} : x = st[k + 1] /\ l = Len(seed[k + 1])
        BY <4>1, <4>2
      <4>6. PICK z \in Nat : z = Len(data)
        BY <1>1
      <4>7. x + 2 + l <= z
        BY <4>1, <4>3, <4>6
      <4>8. x < z /\ x + 1 < z /\ (x + 1) + 1 = x + 2
        BY <4>7
      <4>4. x < Len(data) /\ x + 1 < Len(data) /\ (x + 1) + 1 = x + 2
        BY <4>6, <4>8
      <4>5. Length(x) = Base * data[x + 1] + data[x + 2]
        BY <4>4 DEF Length, Byte
      <4> QED
        BY <4>1, <4>3, <4>5
    <3>3. L = Len(seed[k + 1]) /\ L \in Nat \ {0}
      BY <1>1, <2>1, <3>1, <3>2
    <3> QED
      BY <1>1, <2>1, <3>2, <3>3
  <2>3. k = n => o = Len(data)
    BY <1>1, <2>1 DEF Laid, LaidIn
  <2>4. CASE k = n
    <3>1. CEnd
      BY <1>1, <1>3, <2>1, <2>3, <2>4 DEF CStep, CFirst, CRefuse, CTake
    <3>2. c.packets # <<>>
      BY <1>1, <2>4
    <3>3. c' = [c EXCEPT !.verdict = "accept"]
      BY <3>1, <3>2 DEF CEnd
    <3>4. c'.verdict = "accept" /\ c'.packets = c.packets
      BY <3>3 DEF Decoders
    <3> QED
      BY <1>2, <1>3, <2>4, <3>4 DEF Follows
  <2>5. CASE k < n /\ k = MaxPackets
    <3>1. CRefuse
      BY <1>1, <1>3, <2>1, <2>2, <2>5 DEF CStep, CFirst, CEnd, CTake, Full
    <3>2. c'.verdict = "reject"
      BY <3>1 DEF CRefuse, Decoders
    <3> QED
      BY <1>1, <1>2, <2>5, <3>2 DEF Follows
  <2>6. CASE k < n /\ k # MaxPackets
    <3>0. /\ o \in Nat /\ L \in Nat \ {0} /\ Len(data) \in Nat
          /\ o + 2 + L <= Len(data) /\ o < Len(data)
      BY <1>1, <2>1, <2>2, <2>6
    <3>1. ~HeaderCut(o) /\ ~Full(k) /\ ~BadLength(o)
      <4>1. ~HeaderCut(o) /\ ~(L = 0 \/ L > Len(data) - (o + 2))
        <5> HIDE DEF L, o
        <5> QED
          BY <3>0 DEF HeaderCut
      <4> QED
        BY <2>6, <4>1 DEF Full, BadLength
    <3>2. CTake
      <4>1. ~CFirst /\ ~CRefuse
        BY <1>1, <3>1 DEF CFirst, CRefuse
      <4>2. ~CEnd
        <5>1. ~(o >= Len(data))
          <6> HIDE DEF o
          <6> QED
            BY <3>0
        <5> QED
          BY <5>1 DEF CEnd
      <4> QED
        BY <1>3, <4>1, <4>2 DEF CStep
    <3> DEFINE t == Append(c.packets, v)
               q == o + 2 + L
    <3>3. c' = [c EXCEPT !.offset = q, !.packets = t, !.high = o + 2]
      BY <3>2 DEF CTake
    <3>4. /\ v \in Views /\ Len(t) = k + 1 /\ t[k + 1] = v
          /\ \A i \in 1..k : t[i] = c.packets[i]
      <4>1. v \in Views
        <5> HIDE DEF o, L
        <5> QED
          BY <3>0 DEF View, Views
      <4> HIDE DEF v
      <4> QED
        BY <1>1, <4>1, AppendProperties
    <3>5. v = View(st[k + 1] + 2, Len(seed[k + 1]))
      BY <2>1, <2>2, <2>6
    <3>6. q = st[(k + 1) + 1]
      <4>1. (k + 1) + 1 = k + 2
        BY <1>1
      <4> QED
        BY <2>2, <2>6, <4>1
    <3> HIDE DEF v, t, q
    <3>7. c'.verdict = "more" /\ c'.offset = q /\ c'.packets = t
      BY <1>3, <3>3 DEF Decoders
    <3>8. \A i \in 1..k + 1 : t[i] = View(st[i] + 2, Len(seed[i]))
      <4>1. \A i \in 1..k + 1 : i \in 1..k \/ i = k + 1
        BY <1>1
      <4> QED
        BY <1>3, <3>4, <3>5, <4>1 DEF Follows
    <3>9. k + 1 <= n
      BY <1>1, <2>6
    <3> QED
      BY <1>2, <3>4, <3>6, <3>7, <3>8, <3>9 DEF Follows
  <2> QED
    BY <1>1, <2>1, <2>4, <2>5, <2>6
<1>4. CASE c.verdict # "more"
  <2>1. c' = c
    BY <1>4 DEF CStep, CFirst, CRefuse, CTake, CEnd, CMore
  <2> QED
    BY <1>2, <2>1 DEF Follows
<1> QED
  BY <1>3, <1>4

\* Two digits are enough below the square of the base.
LEMMA TwoDigits ==
    ASSUME NEW b \in Nat \ {0}, NEW m \in Nat, m < b * b
    PROVE  m \div b \in 0..b - 1 /\ m % b \in 0..b - 1 /\ b * (m \div b) + (m % b) = m
<1>1. PICK q \in Int : q = m \div b
  OBVIOUS
<1>2. q \in Nat /\ m % b \in 0..b - 1 /\ m = b * q + (m % b)
  BY <1>1, SMTT(30)
<1>3. PICK r \in Nat : r = m % b
  BY <1>2
<1>4. ~(q >= b)
  <2> SUFFICES ASSUME q >= b PROVE FALSE
    OBVIOUS
  <2>1. PICK d \in Nat : q = b + d
    <3>1. q - b \in Nat /\ q = b + (q - b)
      BY <1>2
    <3> QED
      BY <3>1
  <2>2. b * q = b * b + b * d /\ b * d \in Nat /\ b * b \in Nat
    BY <2>1, SMTT(30)
  <2> QED
    BY <1>2, <1>3, <2>2
<1> QED
  BY <1>1, <1>2, <1>4

\* What multipacket() appends: two bytes of length, then the packet.
LEMMA FrameOfPacket ==
    ASSUME NEW p \in Strings(Base * Base - 1), p # <<>>, Len(p) < Base * Base
    PROVE  /\ p \in Seq(Nat) /\ Len(p) \in Nat \ {0}
           /\ Frame(p) \in Seq(Nat) /\ Len(Frame(p)) = 2 + Len(p)
           /\ \A i \in 1..2 + Len(p) : Frame(p)[i] \in Bytes
           /\ Base * Frame(p)[1] + Frame(p)[2] = Len(p)
           /\ SubSeq(Frame(p), 3, 2 + Len(p)) = p
<1> DEFINE L == Len(p)
           h == <<L \div Base, L % Base>>
           f == Frame(p)
<1>1. PICK k \in Nat : p \in [1..k -> Bytes]
  BY DEF Strings
<1>2. p \in Seq(Nat) /\ L = k /\ k \in Nat \ {0} /\ \A i \in 1..k : p[i] \in Bytes
  BY <1>1, FramingAssumption DEF Bytes
<1>3. /\ L \div Base \in Bytes /\ L % Base \in Bytes
      /\ Base * (L \div Base) + (L % Base) = L
  <2>1. L \in Nat /\ L < Base * Base /\ Base \in Nat \ {0}
    BY <1>2, FramingAssumption
  <2> HIDE DEF L
  <2> QED
    BY <2>1, TwoDigits DEF Bytes
<1>4. h \in Seq(Nat) /\ Len(h) = 2 /\ h[1] = L \div Base /\ h[2] = L % Base
  <2>1. L \div Base \in Nat /\ L % Base \in Nat
    BY <1>3, FramingAssumption DEF Bytes
  <2> QED
    BY <2>1
<1>5. f = h \o p
  BY DEF Frame
<1> HIDE DEF h, f
<1>6. /\ f \in Seq(Nat) /\ Len(f) = 2 + L
      /\ \A i \in 1..2 + L : f[i] = IF i <= 2 THEN h[i] ELSE p[i - 2]
  <2>1. p \in Seq(Nat)
    BY <1>2
  <2>2. /\ f \in Seq(Nat) /\ Len(f) = Len(h) + Len(p)
        /\ \A i \in 1..Len(h) + Len(p) : f[i] = IF i <= Len(h) THEN h[i] ELSE p[i - Len(h)]
    BY <1>4, <1>5, <2>1, ConcatProperties
  <2> QED
    BY <1>4, <2>2
<1>7. L \in Nat
  BY <1>2
<1>8. \A i \in 1..2 + L : f[i] \in Bytes
  <2> SUFFICES ASSUME NEW i \in 1..2 + L PROVE f[i] \in Bytes
    OBVIOUS
  <2>1. CASE i <= 2
    <3>1. i = 1 \/ i = 2
      BY <1>7, <2>1
    <3> QED
      BY <1>3, <1>4, <1>6, <2>1, <3>1
  <2>2. CASE ~(i <= 2)
    <3>1. i - 2 \in 1..k
      BY <1>2, <1>7, <2>2
    <3> QED
      BY <1>2, <1>6, <2>2, <3>1
  <2> QED
    BY <2>1, <2>2
<1>9. f[1] = L \div Base /\ f[2] = L % Base
  BY <1>4, <1>6, <1>7
<1>10. SubSeq(f, 3, 2 + L) = p
  <2> DEFINE s == SubSeq(f, 3, 2 + L)
  <2>1. /\ s \in Seq(Nat) /\ Len(s) = L /\ \A i \in 1..L : s[i] = f[3 + i - 1]
    <3>1. \A i \in 3..2 + L : f[i] \in Nat
      BY <1>6, <1>7
    <3>2. 3 \in Int /\ 2 + L \in Int /\ (2 + L) - 3 + 1 = L /\ 3 <= 2 + L
      BY <1>2, <1>7
    <3> HIDE DEF L
    <3> QED
      BY <3>1, <3>2, SubSeqProperties
  <2>2. \A i \in 1..L : s[i] = p[i]
    <3> SUFFICES ASSUME NEW i \in 1..L PROVE s[i] = p[i]
      OBVIOUS
    <3>1. 3 + i - 1 \in 1..2 + L /\ ~(3 + i - 1 <= 2) /\ (3 + i - 1) - 2 = i
      BY <1>7
    <3> QED
      BY <1>6, <2>1, <3>1
  <2> HIDE DEF s
  <2>3. s = p
    BY <1>2, <2>1, <2>2, SeqEqual
  <2> QED
    BY <2>3 DEF s
<1> QED
  <2>1. Base * f[1] + f[2] = L
    BY <1>3, <1>9
  <2> QED
    BY <1>2, <1>6, <1>8, <1>10, <2>1 DEF f

\* What lay in the seed stays where it was.
LEMMA PrefixKept ==
    ASSUME NEW d \in Seq(Nat), NEW f \in Seq(Nat)
    PROVE  /\ d \o f \in Seq(Nat) /\ Len(d \o f) = Len(d) + Len(f)
           /\ \A i \in 1..Len(d) : (d \o f)[i] = d[i]
           /\ \A i \in 1..Len(f) : (d \o f)[Len(d) + i] = f[i]
<1> DEFINE g == d \o f
<1>1. /\ g \in Seq(Nat) /\ Len(g) = Len(d) + Len(f)
      /\ \A i \in 1..Len(d) + Len(f) : g[i] = IF i <= Len(d) THEN d[i] ELSE f[i - Len(d)]
  BY ConcatProperties
<1>2. Len(d) \in Nat /\ Len(f) \in Nat
  BY LenProperties
<1> HIDE DEF g
<1>3. \A i \in 1..Len(d) : g[i] = d[i]
  BY <1>1, <1>2
<1>4. ASSUME NEW i \in 1..Len(f) PROVE g[Len(d) + i] = f[i]
  <2>1. /\ Len(d) + i \in 1..Len(d) + Len(f) /\ ~(Len(d) + i <= Len(d))
        /\ (Len(d) + i) - Len(d) = i
    BY <1>2
  <2> QED
    BY <1>1, <2>1
<1> QED
  BY <1>1, <1>3, <1>4 DEF g

\* A packet put behind the others has its frame where the seed ended.
LEMMA LaidAppend ==
    ASSUME NEW d \in Seq(Nat), d # <<>>,
           NEW s \in Seq(Seq(Nat)), \A i \in 1..Len(s) : Len(s[i]) > 0,
           NEW p \in Strings(Base * Base - 1), p # <<>>, Len(p) < Base * Base,
           NEW st, LaidIn(d, s, st)
    PROVE  \E tt : LaidIn(d \o Frame(p), Append(s, p), tt) /\ tt[1] = st[1]
<1> DEFINE f == Frame(p)
           n == Len(s)
           e == Len(d)
           g == d \o f
           a == Append(s, p)
           tt == [i \in 1..n + 2 |-> IF i = n + 2 THEN e + 2 + Len(p) ELSE st[i]]
<1>1. /\ p \in Seq(Nat) /\ Len(p) \in Nat \ {0} /\ f \in Seq(Nat) /\ Len(f) = 2 + Len(p)
      /\ Base * f[1] + f[2] = Len(p)
      /\ SubSeq(f, 3, 2 + Len(p)) = p
  BY FrameOfPacket
<1> HIDE DEF f
<1>3. /\ g \in Seq(Nat) /\ Len(g) = e + Len(f)
      /\ \A i \in 1..e : g[i] = d[i]
      /\ \A i \in 1..Len(f) : g[e + i] = f[i]
  BY <1>1, PrefixKept
<1>4. e \in Nat /\ e >= 1 /\ n \in Nat
  OBVIOUS
<1>5. /\ Len(a) = n + 1 /\ a[n + 1] = p /\ \A i \in 1..n : a[i] = s[i]
      /\ \A i \in 1..n : s[i] \in Seq(Nat) /\ Len(s[i]) \in Nat \ {0}
  <2> DEFINE W == Seq(Nat)
  <2>1. s \in Seq(W) /\ p \in W
    BY <1>1
  <2> HIDE DEF W
  <2>2. /\ Len(a) = Len(s) + 1 /\ a[Len(s) + 1] = p
        /\ \A i \in 1..Len(s) : a[i] = s[i] /\ s[i] \in W
    BY <2>1, AppendProperties, LenProperties
  <2> QED
    BY <2>2 DEF W
<1>6. /\ st \in [1..n + 1 -> Nat] /\ st[1] = 1 /\ st[n + 1] = e
      /\ \A i \in 1..n : /\ st[i + 1] = st[i] + 2 + Len(s[i]) /\ st[i + 1] <= e
                         /\ Base * d[st[i] + 1] + d[st[i] + 2] = Len(s[i])
                         /\ SubSeq(d, st[i] + 3, st[i + 1]) = s[i]
  BY DEF LaidIn
<1> HIDE DEF n, a
<1>7. /\ tt \in [1..n + 2 -> Nat] /\ tt[n + 2] = e + 2 + Len(p)
      /\ \A i \in 1..n + 1 : tt[i] = st[i] /\ st[i] \in Nat
  <2>1. \A i \in 1..n + 2 : i # n + 2 => i \in 1..n + 1
    BY <1>4
  <2>2. \A i \in 1..n + 1 : i \in 1..n + 2 /\ i # n + 2
    BY <1>4
  <2>3. n + 2 \in 1..n + 2 /\ e + 2 + Len(p) \in Nat
    BY <1>1, <1>4
  <2> QED
    BY <1>6, <2>1, <2>2, <2>3
<1> HIDE DEF tt
<1>8. ASSUME NEW i \in 1..n
      PROVE  /\ tt[i + 1] = tt[i] + 2 + Len(a[i]) /\ tt[i + 1] <= Len(g)
             /\ Base * g[tt[i] + 1] + g[tt[i] + 2] = Len(a[i])
             /\ SubSeq(g, tt[i] + 3, tt[i + 1]) = a[i]
  <2>1. i \in 1..n + 1 /\ i + 1 \in 1..n + 1
    BY <1>4
  <2>2. tt[i] = st[i] /\ tt[i + 1] = st[i + 1] /\ st[i] \in Nat /\ a[i] = s[i]
    BY <1>5, <1>7, <2>1
  <2>3. /\ st[i + 1] = st[i] + 2 + Len(s[i]) /\ st[i + 1] <= e
        /\ Base * d[st[i] + 1] + d[st[i] + 2] = Len(s[i])
        /\ SubSeq(d, st[i] + 3, st[i + 1]) = s[i] /\ Len(s[i]) \in Nat \ {0}
    BY <1>5, <1>6
  <2>5. /\ st[i] + 1 \in 1..e /\ st[i] + 2 \in 1..e /\ st[i + 1] <= Len(g)
        /\ st[i] + 3 \in 1..e /\ st[i + 1] \in 1..e
    <3>0. Len(f) \in Nat
      BY <1>1
    <3> HIDE DEF e, g
    <3>1. PICK x \in Nat : x = st[i]
      BY <2>2
    <3>2. PICK l \in Nat \ {0} : l = Len(s[i])
      BY <2>3
    <3>3. PICK m \in Nat : m = Len(f)
      BY <3>0
    <3>4. PICK z \in Nat : z = e
      BY <1>4
    <3>5. st[i + 1] = x + 2 + l /\ x + 2 + l <= z /\ Len(g) = z + m
      BY <1>3, <2>3, <3>1, <3>2, <3>3, <3>4
    <3>6. /\ x + 1 \in 1..z /\ x + 2 \in 1..z /\ x + 3 \in 1..z
          /\ x + 2 + l \in 1..z /\ x + 2 + l <= z + m
      BY <3>5
    <3> QED
      BY <3>1, <3>4, <3>5, <3>6
  <2>6. SubSeq(g, st[i] + 3, st[i + 1]) = SubSeq(d, st[i] + 3, st[i + 1])
    BY <1>1, <2>5, SubSeqOfConcat1
  <2>7. g[st[i] + 1] = d[st[i] + 1] /\ g[st[i] + 2] = d[st[i] + 2]
    BY <1>3, <2>5
  <2> HIDE DEF g, e
  <2> QED
    BY <2>2, <2>3, <2>5, <2>6, <2>7
<1>9. /\ tt[n + 2] = tt[n + 1] + 2 + Len(p) /\ tt[n + 2] = Len(g)
      /\ Base * g[tt[n + 1] + 1] + g[tt[n + 1] + 2] = Len(p)
      /\ SubSeq(g, tt[n + 1] + 3, tt[n + 2]) = p
  <2>1. n + 1 \in 1..n + 1
    BY <1>4
  <2>2. tt[n + 1] = e
    BY <1>6, <1>7, <2>1
  <2>3. tt[n + 2] = e + 2 + Len(p) /\ Len(g) = e + 2 + Len(p)
    BY <1>1, <1>3, <1>4, <1>7
  <2>4. Base * g[e + 1] + g[e + 2] = Len(p)
    <3>1. 1 \in 1..Len(f) /\ 2 \in 1..Len(f)
      BY <1>1
    <3>2. g[e + 1] = f[1] /\ g[e + 2] = f[2]
      BY <1>3, <3>1
    <3> QED
      BY <1>1, <3>2
  <2>5. SubSeq(g, e + 3, e + 2 + Len(p)) = p
    <3>0. g = d \o f /\ e = Len(d)
      OBVIOUS
    <3>1. /\ e + 3 \in Len(d) + 1..Len(d) + Len(f)
          /\ e + 2 + Len(p) \in Len(d) + 1..Len(d) + Len(f)
          /\ (e + 3) - Len(d) = 3 /\ (e + 2 + Len(p)) - Len(d) = 2 + Len(p)
      <4>1. \A x, l \in Nat : l # 0 =>
              /\ x + 3 \in x + 1..x + (2 + l) /\ x + 2 + l \in x + 1..x + (2 + l)
              /\ (x + 3) - x = 3 /\ (x + 2 + l) - x = 2 + l
        OBVIOUS
      <4> QED
        BY <1>1, <1>4, <4>1
    <3>2. SubSeq(g, e + 3, e + 2 + Len(p))
            = SubSeq(f, (e + 3) - Len(d), (e + 2 + Len(p)) - Len(d))
      <4>1. ASSUME NEW x \in Len(d) + 1..Len(d) + Len(f),
                   NEW y \in Len(d) + 1..Len(d) + Len(f)
            PROVE  SubSeq(d \o f, x, y) = SubSeq(f, x - Len(d), y - Len(d))
        <5>1. f \in Seq(Nat)
          BY <1>1
        <5> QED
          BY <5>1, SubSeqOfConcat2
      <4> HIDE DEF g, e
      <4> QED
        BY <3>0, <3>1, <4>1
    <3> QED
      BY <1>1, <3>1, <3>2
  <2> QED
    BY <2>2, <2>3, <2>4, <2>5
<1>10. LaidIn(g, a, tt)
  <2>1. Len(a) = n + 1 /\ (n + 1) + 1 = n + 2
    BY <1>4, <1>5
  <2>2. tt[1] = 1
    BY <1>4, <1>6, <1>7
  <2>3. ASSUME NEW i \in 1..n + 1
        PROVE  /\ tt[i + 1] = tt[i] + 2 + Len(a[i]) /\ tt[i + 1] <= Len(g)
               /\ Base * g[tt[i] + 1] + g[tt[i] + 2] = Len(a[i])
               /\ SubSeq(g, tt[i] + 3, tt[i + 1]) = a[i]
    <3>1. CASE i \in 1..n
      BY <1>8, <3>1
    <3>2. CASE i = n + 1
      <4>1. a[i] = p /\ i + 1 = n + 2
        BY <1>5, <2>1, <3>2
      <4>2. Len(g) <= Len(g)
        <5>1. Len(g) \in Nat
          BY <1>3, LenProperties
        <5> HIDE DEF g
        <5> QED
          BY <5>1
      <4>3. tt[i + 1] = tt[n + 2] /\ tt[i] = tt[n + 1]
        BY <3>2, <4>1
      <4> HIDE DEF g
      <4>4. tt[i + 1] = tt[i] + 2 + Len(a[i])
        BY <1>9, <4>1, <4>3
      <4>5. Base * g[tt[i] + 1] + g[tt[i] + 2] = Len(a[i])
        BY <1>9, <4>1, <4>3
      <4>6. SubSeq(g, tt[i] + 3, tt[i + 1]) = a[i]
        BY <1>9, <4>1, <4>3
      <4>7. tt[i + 1] <= Len(g)
        BY <1>9, <4>2, <4>3
      <4> QED
        BY <4>4, <4>5, <4>6, <4>7
    <3>3. i \in 1..n \/ i = n + 1
      BY <1>4
    <3> HIDE DEF g
    <3> QED
      BY <3>1, <3>2, <3>3
  <2> HIDE DEF g
  <2> QED
    BY <1>7, <1>9, <2>1, <2>2, <2>3 DEF LaidIn
<1> QED
  <2>1. tt[1] = st[1]
    BY <1>4, <1>7
  <2> QED
    BY <1>10, <2>1 DEF g, a, f

-----------------------------------------------------------------------------
(* The invariant behind NothingLost and SeedsDecode.                        *)

Decoded == IInv /\ Written /\ Tiled /\ AtSeed

\* The initial states satisfy it.
LEMMA InitDecoded == Init => Decoded
<1> SUFFICES ASSUME Init PROVE Decoded
  OBVIOUS
<1>1. IInv /\ data \in Seq(Nat)
  BY InitInv DEF IInv
<1>2. /\ c = Fresh /\ seed = <<>> /\ c.verdict = "more" /\ c.packets = <<>> /\ c.offset = 1
      /\ Len(c.packets) = 0
  BY DEF Init, Fresh
<1>3. phase = "write" => data # <<>> /\ Len(data) = 1 /\ Multipacket(data[1])
  BY DEF Init
<1>4. \A i \in 2..Len(data) : data[i] \in Bytes
  <2>1. CASE data = <<>>
    BY <2>1
  <2>2. CASE \E f \in Flags, body \in Strings(MaxSize) : data = <<f>> \o body
    <3>1. PICK f \in Flags, body \in Strings(MaxSize) : data = <<f>> \o body
      BY <2>2
    <3>2. PICK k \in 0..MaxSize : body \in [1..k -> Bytes]
      BY <3>1 DEF Strings
    <3>3. body \in Seq(Nat) /\ Len(body) = k /\ \A i \in 1..k : body[i] \in Bytes
      BY <3>2, FramingAssumption DEF Bytes
    <3>4. <<f>> \in Seq(Nat) /\ Len(<<f>>) = 1
      BY FramingAssumption
    <3>5. Len(data) = 1 + k /\ \A i \in 1..1 + k : i > 1 => data[i] = body[i - 1]
      BY <3>1, <3>3, <3>4
    <3>6. ASSUME NEW i \in 2..Len(data) PROVE data[i] \in Bytes
      <4>1. i \in 1..1 + k /\ i > 1 /\ i - 1 \in 1..k
        BY <3>5, <3>6
      <4> QED
        BY <3>3, <3>5, <4>1
    <3> QED
      BY <3>6
  <2>3. CASE \E f \in Flags : data = <<f>>
    BY <2>3
  <2> QED
    BY <2>1, <2>2, <2>3 DEF Init
<1>5. Written
  <2>1. seed \in Seq(Seq(Nat)) /\ Len(seed) = 0
    BY <1>2
  <2> QED
    BY <1>2, <1>3, <1>4, <2>1 DEF Written
<1>6. Tiled
  <2> SUFFICES ASSUME data # <<>>
               PROVE  /\ 1 \in 1..Len(data)
                      /\ SubSeq(data, 1, 1) = <<data[1]>> \o FlattenSeq(Framed(c.packets))
    BY <1>2 DEF Tiled, Live
  <2>1. DOMAIN c.packets = {} /\ Framed(c.packets) = <<>>
    BY <1>2 DEF Framed
  <2>2. 1 \in 1..Len(data)
    BY <1>1
  <2> QED
    BY <1>1, <2>1, <2>2, TiledFresh
<1>7. AtSeed
  <2> SUFFICES ASSUME phase = "write" PROVE \E st : Laid(st) /\ Follows(st)
    BY <1>2 DEF AtSeed
  <2> DEFINE one == [i \in 1..1 |-> 1]
  <2>1. one \in [1..1 -> Nat] /\ one[1] = 1
    OBVIOUS
  <2> HIDE DEF one
  <2>2. Len(seed) = 0 /\ Len(data) = 1
    BY <1>2, <1>3
  <2>3. Laid(one)
    BY <2>1, <2>2 DEF Laid, LaidIn
  <2>4. Follows(one)
    BY <1>2, <2>1, <2>2 DEF Follows
  <2> QED
    BY <2>3, <2>4
<1> QED
  BY <1>1, <1>5, <1>6, <1>7 DEF Decoded

\* So does the state after multipacket() has put a packet behind the others.
LEMMA AddPacketDecoded ==
    ASSUME Decoded, NEW p \in Strings(Base * Base - 1), AddPacket(p)
    PROVE  Written' /\ Tiled' /\ AtSeed'
<1> DEFINE f == Frame(p)
<1>1. /\ p \in Seq(Nat) /\ Len(p) \in Nat \ {0} /\ f \in Seq(Nat) /\ Len(f) = 2 + Len(p)
      /\ \A i \in 1..2 + Len(p) : f[i] \in Bytes
  BY FrameOfPacket DEF AddPacket
<1>2. /\ phase = "write" /\ phase' = phase /\ seed' = Append(seed, p) /\ data' = data \o f
      /\ p # <<>> /\ Len(p) < Base * Base
      /\ data \in Seq(Nat) /\ data # <<>> /\ Multipacket(data[1]) /\ seed \in Seq(Seq(Nat))
      /\ \A i \in 1..Len(seed) : Len(seed[i]) > 0
      /\ \A i \in 2..Len(data) : data[i] \in Bytes
      /\ c' = c /\ c = Fresh
  BY DEF AddPacket, Decoded, IInv, Written
<1> HIDE DEF f
<1>3. /\ data' \in Seq(Nat) /\ Len(data') = Len(data) + Len(f)
      /\ \A i \in 1..Len(data) : data'[i] = data[i]
      /\ \A i \in 1..Len(f) : data'[Len(data) + i] = f[i]
  <2>1. data \in Seq(Nat) /\ f \in Seq(Nat) /\ data' = data \o f
    BY <1>1, <1>2
  <2> QED
    BY <2>1, PrefixKept
<1>4. Len(data) \in Nat /\ Len(data) >= 1
  BY <1>2
<1>5. data' # <<>> /\ data'[1] = data[1] /\ 1 \in 1..Len(data')
  BY <1>1, <1>3, <1>4
<1>6. c.verdict = "more" /\ c.packets = <<>> /\ c.offset = 1
  BY <1>2 DEF Fresh
<1>7. Written'
  <2>1. ASSUME NEW i \in 2..Len(data') PROVE data'[i] \in Bytes
    <3>1. PICK e \in Nat : e = Len(data)
      BY <1>4
    <3>2. Len(data') = e + (2 + Len(p)) /\ Len(f) = 2 + Len(p) /\ Len(p) \in Nat
      BY <1>1, <1>3, <3>1
    <3>3. i \in 2..e \/ (i - e \in 1..2 + Len(p) /\ e + (i - e) = i)
      BY <1>4, <3>1, <3>2
    <3>4. CASE i \in 2..e
      <4>1. i \in 1..Len(data)
        BY <3>1, <3>4
      <4> QED
        BY <1>2, <1>3, <3>1, <3>4, <4>1
    <3>5. CASE i - e \in 1..2 + Len(p) /\ e + (i - e) = i
      <4>1. PICK j \in 1..2 + Len(p) : e + j = i
        BY <3>5
      <4> QED
        BY <1>1, <1>3, <3>1, <4>1
    <3> QED
      BY <3>3, <3>4, <3>5
  <2>2. seed' \in Seq(Seq(Nat)) /\ \A i \in 1..Len(seed') : Len(seed'[i]) > 0
    <3> DEFINE W == Seq(Nat)
    <3>1. seed \in Seq(W) /\ p \in W
      BY <1>1, <1>2
    <3> HIDE DEF W
    <3>2. /\ seed' \in Seq(W) /\ Len(seed') = Len(seed) + 1 /\ seed'[Len(seed) + 1] = p
          /\ \A i \in 1..Len(seed) : seed'[i] = seed[i]
      BY <1>2, <3>1, AppendProperties
    <3>3. Len(seed) \in Nat
      BY <3>1, LenProperties
    <3>4. \A i \in 1..Len(seed') : i \in 1..Len(seed) \/ i = Len(seed) + 1
      BY <3>2, <3>3
    <3> QED
      BY <1>1, <1>2, <3>2, <3>4 DEF W
  <2> QED
    BY <1>2, <1>5, <2>1, <2>2 DEF Written, Multipacket
<1>8. Tiled'
  <2>1. Framed(c.packets)' = <<>>
    BY <1>2, <1>6 DEF Framed
  <2>2. SubSeq(data', 1, 1) = <<data'[1]>> \o FlattenSeq(<<>>)
    BY <1>3, <1>5, TiledFresh
  <2>3. c'.verdict = "more" /\ c'.offset = 1
    BY <1>2, <1>6
  <2>4. (Framed(c.packets))' = <<>> /\ c'.offset \in 1..Len(data')
    BY <1>5, <2>1, <2>3
  <2>5. /\ c'.verdict # "accept"
        /\ SubSeq(data', 1, c'.offset) = <<data'[1]>> \o FlattenSeq((Framed(c.packets))')
    BY <2>2, <2>3, <2>4
  <2> QED
    BY <2>4, <2>5 DEF Tiled, Live
<1>9. AtSeed'
  <2>1. PICK st : Laid(st) /\ Follows(st)
    BY <1>2 DEF Decoded, AtSeed
  <2>2. LaidIn(data, seed, st)
    BY <2>1 DEF Laid
  <2>3. PICK tt : LaidIn(data \o Frame(p), Append(seed, p), tt)
    BY <1>2, <2>2, LaidAppend
  <2>4. Laid(tt)'
    BY <1>2, <2>3 DEF Laid, f
  <2>5. tt[1] = 1
    BY <2>3 DEF LaidIn
  <2>6. Len(seed') \in Nat
    BY <1>2
  <2>7. Follows(tt)'
    BY <1>2, <1>6, <2>5, <2>6 DEF Follows
  <2> QED
    BY <1>2, <1>6, <2>4, <2>7 DEF AtSeed
<1> QED
  BY <1>7, <1>8, <1>9

\* Every step keeps it.
LEMMA StepDecoded == Decoded /\ [Next]_vars => Decoded'
<1> SUFFICES ASSUME Decoded, [Next]_vars PROVE Decoded'
  OBVIOUS
<1>0. IInv'
  BY StepInv DEF Decoded
<1>1. CASE Decode
  <2>1. data' = data /\ seed' = seed /\ phase' = phase /\ phase # "write" /\ CStep
    BY <1>1 DEF Decode, Decoded, IInv
  <2>2. data \in Seq(Nat) /\ c \in Decoders /\ InBounds /\ Written /\ Tiled /\ AtSeed
    BY DEF Decoded, IInv
  <2>3. Tiled'
    BY <2>1, <2>2, TiledStep
  <2>4. Written'
    BY <2>1, <2>2 DEF Written
  <2>5. AtSeed'
    <3> SUFFICES ASSUME seed # <<>>
                 PROVE  /\ (\E st : Laid(st) /\ Follows(st))'
                        /\ c'.verdict = "reject" => Len(seed) > MaxPackets
      BY <2>1 DEF AtSeed
    <3>1. PICK st : Laid(st) /\ Follows(st)
      BY <2>2 DEF AtSeed
    <3>2. c.verdict = "reject" => Len(seed) > MaxPackets
      BY <2>2 DEF AtSeed
    <3>3. Laid(st)' /\ Follows(st)' /\ (c'.verdict = "reject" => Len(seed) > MaxPackets)
      BY <2>1, <2>2, <3>1, <3>2, SeedDecodeStep
    <3> QED
      BY <3>3
  <2> QED
    BY <1>0, <2>3, <2>4, <2>5 DEF Decoded
<1>2. CASE WriteSeed \/ UNCHANGED vars
  <2>1. data' = data /\ seed' = seed /\ c' = c /\ (phase = "write" \/ seed # <<>>)'
           = (phase = "write" \/ seed # <<>>)
    BY <1>2 DEF WriteSeed, vars
  <2>2. Written'
    BY <2>1 DEF Decoded, Written
  <2>3. Tiled'
    BY <2>1 DEF Decoded, Tiled, Live, Framed, Contents
  <2>4. AtSeed'
    BY <2>1 DEF Decoded, AtSeed, Laid, Follows
  <2> QED
    BY <1>0, <2>2, <2>3, <2>4 DEF Decoded
<1>3. ASSUME NEW p \in Strings(Base * Base - 1), AddPacket(p) PROVE Decoded'
  BY <1>0, <1>3, AddPacketDecoded DEF Decoded
<1> QED
  BY <1>1, <1>2, <1>3 DEF Next

\* An accepted input is its flags and its packets, framed again: no byte of it
\* is skipped, none is in two packets.
THEOREM FramingNothingLost == Spec => []NothingLost
<1>1. Decoded => NothingLost
  <2> SUFFICES ASSUME Decoded, c.verdict = "accept", Multipacket(data[1])
               PROVE  data = <<data[1]>> \o FlattenSeq(Framed(c.packets))
    BY DEF NothingLost, Framed
  <2>1. data \in Seq(Nat) /\ data # <<>> /\ c.offset = Len(data)
        /\ SubSeq(data, 1, c.offset) = <<data[1]>> \o FlattenSeq(Framed(c.packets))
    BY DEF Decoded, IInv, Tiled, Live
  <2>2. SubSeq(data, 1, Len(data)) = data
    BY <2>1, SubSeqFull
  <2> QED
    BY <2>1, <2>2
<1> QED
  BY <1>1, InitDecoded, StepDecoded, PTL DEF Spec

\* A seed decodes into the packets it was written from, if they are not more
\* than the harness takes; if they are, it is refused.
THEOREM FramingSeedsDecode == Spec => []SeedsDecode
<1>1. Decoded => SeedsDecode
  <2> SUFFICES ASSUME Decoded, seed # <<>>, c.verdict # "more"
               PROVE  IF Len(seed) <= MaxPackets
                        THEN c.verdict = "accept" /\ Contents(c.packets) = seed
                        ELSE c.verdict = "reject"
    BY DEF SeedsDecode
  <2>1. /\ c \in Decoders /\ InBounds /\ data \in Seq(Nat) /\ seed \in Seq(Seq(Nat))
        /\ Len(seed) \in Nat /\ MaxPackets \in Nat
        /\ c.verdict = "reject" => Len(seed) > MaxPackets
    BY FramingAssumption DEF Decoded, IInv, Written, AtSeed
  <2>2. PICK st : Laid(st) /\ Follows(st)
    BY DEF Decoded, AtSeed
  <2>3. CASE c.verdict = "reject"
    BY <2>1, <2>3
  <2>4. CASE c.verdict = "accept"
    <3>1. /\ Len(c.packets) = Len(seed) /\ Len(c.packets) <= MaxPackets
          /\ \A i \in 1..Len(seed) : c.packets[i] = View(st[i] + 2, Len(seed[i]))
      BY <2>1, <2>2, <2>4 DEF Follows, InBounds
    <3>2. ASSUME NEW i \in 1..Len(seed)
          PROVE  SubSeq(data, c.packets[i].first + 1, c.packets[i].first + c.packets[i].size)
                   = seed[i]
      <4>1. /\ st[i] \in Nat /\ st[i + 1] = st[i] + 2 + Len(seed[i])
            /\ SubSeq(data, st[i] + 3, st[i + 1]) = seed[i]
        <5>1. i \in 1..Len(seed) + 1
          BY <2>1
        <5> QED
          BY <2>2, <5>1 DEF Laid, LaidIn
      <4>2. c.packets[i] = [first |-> st[i] + 2, size |-> Len(seed[i])]
        BY <3>1 DEF View
      <4>3. c.packets[i].first = st[i] + 2 /\ c.packets[i].size = Len(seed[i])
        BY <4>2
      <4>4. (st[i] + 2) + 1 = st[i] + 3
        BY <4>1
      <4> QED
        BY <4>1, <4>3, <4>4
    <3>3. Contents(c.packets) = [i \in 1..Len(seed) |-> seed[i]]
      <4>1. DOMAIN c.packets = 1..Len(seed)
        BY <2>1, <3>1 DEF Decoders
      <4> QED
        BY <3>2, <4>1 DEF Contents
    <3>4. [i \in 1..Len(seed) |-> seed[i]] = seed
      BY <2>1
    <3> QED
      BY <2>4, <3>1, <3>3, <3>4
  <2> QED
    BY <2>1, <2>3, <2>4 DEF Decoders
<1> QED
  BY <1>1, InitDecoded, StepDecoded, PTL DEF Spec
=============================================================================
