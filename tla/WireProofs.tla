----------------------------- MODULE WireProofs -----------------------------
(***************************************************************************)
(* Proofs about Wire, for any writers, types and payload lengths and any    *)
(* number of packets.                                                       *)
(*                                                                          *)
(* Every unit in the stream has a place: the number of its packet in sent   *)
(* and its index there.  The places follow one another from where the       *)
(* reader is to where the writers are, so that no induction over the        *)
(* packets is needed.                                                       *)
(***************************************************************************)
EXTENDS Wire, SequenceTheorems, TLAPS

(* The units that can be in the stream, and the packets that can be in      *)
(* sent.                                                                    *)
BodyUnits == {Unit("body", v) : v \in Nat \X Nat}
AllUnits == {Unit("type", t) : t \in Types} \cup {Unit("length", n) : n \in 0 .. MaxLen}
              \cup BodyUnits
SentPackets == [type : Types, length : 0 .. MaxLen, body : Seq(BodyUnits)]

(* What the reader's header can hold and what it can have handled.          *)
Headers == [type : Types \cup {"garbage"}, length : 0 .. MaxLen]
Handled == [type : Types \cup {"garbage"}, length : 0 .. MaxLen, body : Seq(AllUnits)]

(* The i-th unit of packet p, and how many there are. *)
UnitOf(p, i) == IF i = 1 THEN Unit("type", p.type)
                ELSE IF i = 2 THEN Unit("length", p.length) ELSE p.body[i - 2]
SizeOf(p) == p.length + 2

(* The types, and the payload of a sent packet is as long as its length     *)
(* says.                                                                    *)
WellTyped ==
  /\ left \in Nat
  /\ out \in [Writers -> Seq(AllUnits)]
  /\ sent \in Seq(SentPackets)
  /\ \A n \in 1 .. Len(sent) : Len(sent[n].body) = sent[n].length
  /\ stream \in Seq(AllUnits)
  /\ closed \in BOOLEAN
  /\ rpc \in {"type", "length", "body", "left"}
  /\ hdr \in Headers
  /\ received \in Seq(Handled)
  /\ body \in Seq(AllUnits)

(* A packet of which nothing has been written. *)
Fresh(s) ==
  /\ Len(s) \in 2 .. MaxLen + 2
  /\ s[1] \in {Unit("type", t) : t \in Types}
  /\ s[2] = Unit("length", Len(s) - 2)
  /\ \A i \in 3 .. Len(s) : s[i] \in BodyUnits

(* What is left of packet p. *)
Rest(s, p) ==
  /\ Len(s) \in 1 .. SizeOf(p) - 1
  /\ \A i \in 1 .. Len(s) : s[i] = UnitOf(p, SizeOf(p) - Len(s) + i)

(* A writer has nothing, a packet not begun, or the rest of the packet      *)
(* sent last; and only one is in the middle of a packet.                    *)
OutOK ==
  /\ \A w \in Writers : \/ out[w] = <<>> \/ Fresh(out[w])
                        \/ sent # <<>> /\ Rest(out[w], sent[Len(sent)])
  /\ \A v, w \in Writers : Begun(v) /\ Begun(w) => v = w

(* The place after p, where s are the packets sent.                         *)
After(s, p) ==
  IF p[2] < SizeOf(s[p[1]]) THEN <<p[1], p[2] + 1>> ELSE <<p[1] + 1, 1>>

(* u is the unit at place p.                                                *)
IsUnit(u, s, p) ==
  /\ p[1] \in 1 .. Len(s) /\ p[2] \in 1 .. SizeOf(s[p[1]])
  /\ u = UnitOf(s[p[1]], p[2])

(* The place of the next unit to read.                                      *)
ReaderPlace ==
  <<Len(received) + 1, IF rpc = "type" THEN 1 ELSE IF rpc = "length" THEN 2 ELSE 3 + Len(body)>>

(* The next unit to be written has place p.                                 *)
WriterAt(p) ==
  IF \E w \in Writers : Begun(w)
  THEN \E w \in Writers :
         Begun(w) /\ p = <<Len(sent), SizeOf(sent[Len(sent)]) - Len(out[w]) + 1>>
  ELSE p = <<Len(sent) + 1, 1>>

(* pos gives each unit in the stream its place, from the reader's to the    *)
(* writers'.                                                                *)
Chain(pos) ==
  /\ pos[1] = ReaderPlace
  /\ WriterAt(pos[Len(stream) + 1])
  /\ \A j \in 1 .. Len(stream) :
       IsUnit(stream[j], sent, pos[j]) /\ pos[j + 1] = After(sent, pos[j])

(* The reader is inside packet p. *)
Inside(p) ==
  /\ hdr.type = p.type
  /\ rpc = "body" =>
       /\ hdr.length = p.length /\ Len(body) < p.length
       /\ \A i \in 1 .. Len(body) : body[i] = p.body[i]

(* What is handled was sent, and what is in the stream comes next.          *)
OnTrack ==
  /\ Len(received) <= Len(sent)
  /\ \A n \in 1 .. Len(received) : received[n] = sent[n]
  /\ rpc # "left"
  /\ rpc # "body" => body = <<>>
  /\ rpc # "type" => Len(received) < Len(sent) /\ Inside(sent[Len(received) + 1])
  /\ \E pos \in [1 .. Len(stream) + 1 -> Nat \X Nat] : Chain(pos)

(* The stream has come to its end and the reader has gone on. *)
Beyond ==
  /\ closed /\ stream = <<>>
  /\ written <= Len(received)
  /\ \A n \in 1 .. written : received[n] = sent[n]

(* The inductive invariant.                                                 *)
IInv == ~torn => WellTyped /\ OutOK /\ (OnTrack \/ Beyond)

(* The fields of a unit.                                                    *)
LEMMA Fields ==
  /\ \A f, v : Unit(f, v).field = f /\ Unit(f, v).value = v
  /\ \A u \in BodyUnits : u.field = "body"
BY DEF Unit, BodyUnits

(* A function on 1 .. n is a sequence.                                      *)
LEMMA FcnSeq ==
  ASSUME NEW S, NEW n \in Nat, NEW f \in [1 .. n -> S]
  PROVE  f \in Seq(S) /\ Len(f) = n
OBVIOUS

(* Sequences with the same elements are equal, whatever sets they are       *)
(* known over.                                                              *)
LEMMA SameElements ==
  ASSUME NEW S, NEW T, NEW a \in Seq(S), NEW b \in Seq(T), Len(a) = Len(b),
         \A i \in 1 .. Len(a) : a[i] = b[i]
  PROVE  a = b
OBVIOUS

(* What is left of a sequence from its third element on.                    *)
LEMMA Third ==
  ASSUME NEW S, NEW s \in Seq(S), Len(s) >= 2
  PROVE  LET b == SubSeq(s, 3, Len(s)) IN
         Len(b) = Len(s) - 2 /\ \A i \in 1 .. Len(s) - 2 : b[i] = s[i + 2]
<1> DEFINE b == SubSeq(s, 3, Len(s))
<1>1. Len(s) \in Nat /\ Len(s) \in Int /\ 3 \in Int /\ \A i \in 3 .. Len(s) : s[i] \in S
  OBVIOUS
<1>2. /\ Len(b) = IF 3 <= Len(s) THEN Len(s) - 3 + 1 ELSE 0
      /\ \A i \in 1 .. Len(s) - 3 + 1 : b[i] = s[3 + i - 1]
  BY <1>1, SubSeqProperties
<1> HIDE DEF b
<1>3. Len(b) = Len(s) - 2
  <2>1. \A n \in Nat : n >= 2 => (IF 3 <= n THEN n - 3 + 1 ELSE 0) = n - 2
    OBVIOUS
  <2>2. (IF 3 <= Len(s) THEN Len(s) - 3 + 1 ELSE 0) = Len(s) - 2
    BY <1>1, <2>1
  <2>3. QED
    BY <1>2, <2>2
<1>4. ASSUME NEW i \in 1 .. Len(s) - 2 PROVE b[i] = s[i + 2]
  <2>1. i \in 1 .. Len(s) - 3 + 1 /\ 3 + i - 1 = i + 2
    BY <1>1
  <2>2. QED
    BY <1>2, <2>1
<1>5. QED
  BY <1>3, <1>4 DEF b

(* proto_send_packet starts with a whole packet to write.                   *)
LEMMA FreshUnits ==
  ASSUME NEW k \in Nat, NEW p \in Packets
  PROVE  Fresh(Units(k, p)) /\ Units(k, p) \in Seq(AllUnits)
<1>1. p.type \in Types /\ p.length \in 0 .. MaxLen /\ MaxLen \in Nat
  BY ConstantsOK DEF Packets
<1>2. Payload(k, p) \in Seq(BodyUnits) /\ Len(Payload(k, p)) = p.length
  <2>1. \A i \in 1 .. p.length : Unit("body", <<k, i>>) \in BodyUnits
    BY <1>1 DEF BodyUnits
  <2>2. [i \in 1 .. p.length |-> Unit("body", <<k, i>>)] \in [1 .. p.length -> BodyUnits]
    BY <2>1
  <2>3. p.length \in Nat
    BY <1>1
  <2>4. QED
    BY <2>2, <2>3, FcnSeq DEF Payload
<1> DEFINE h == <<Unit("type", p.type), Unit("length", p.length)>>
           b == Payload(k, p)
           s == h \o b
<1>3. h \in Seq(AllUnits) /\ Len(h) = 2 /\ h[1] = Unit("type", p.type) /\ h[2] = Unit("length", p.length)
  BY <1>1 DEF AllUnits
<1>4. b \in Seq(AllUnits) /\ Len(b) = p.length /\ \A i \in 1 .. p.length : b[i] \in BodyUnits
  BY <1>2 DEF AllUnits
<1> HIDE DEF h, b
<1>5. /\ s \in Seq(AllUnits) /\ Len(s) = p.length + 2 /\ s[1] = h[1] /\ s[2] = h[2]
      /\ \A i \in 3 .. p.length + 2 : s[i] = b[i - 2]
  <2>1. s \in Seq(AllUnits)
    BY <1>3, <1>4
  <2>2. Len(s) = p.length + 2
    <3>1. Len(s) = Len(h) + Len(b)
      BY <1>3, <1>4, ConcatProperties
    <3>2. QED
      BY <1>1, <1>3, <1>4, <3>1
  <2>3. \A i \in 1 .. p.length + 2 : s[i] = IF i <= 2 THEN h[i] ELSE b[i - 2]
    <3>1. \A i \in 1 .. Len(h) + Len(b) : s[i] = IF i <= Len(h) THEN h[i] ELSE b[i - Len(h)]
      BY <1>3, <1>4, ConcatProperties
    <3>2. Len(h) + Len(b) = p.length + 2
      BY <1>1, <1>3, <1>4
    <3>3. QED
      BY <1>3, <3>1, <3>2
  <2>4. QED
    BY <1>1, <2>1, <2>2, <2>3
<1> HIDE DEF s
<1>6. Fresh(s)
  <2>1. Len(s) \in 2 .. MaxLen + 2 /\ Len(s) - 2 = p.length
    BY <1>1, <1>5
  <2>2. \A i \in 3 .. Len(s) : s[i] \in BodyUnits
    <3>1. \A i \in 3 .. p.length + 2 : i - 2 \in 1 .. p.length
      BY <1>1
    <3>2. QED
      BY <1>4, <1>5, <3>1
  <2>3. QED
    BY <1>1, <1>3, <1>5, <2>1, <2>2 DEF Fresh
<1>7. QED
  BY <1>5, <1>6 DEF s, h, b, Units

(* Of a fresh packet the type is the next unit.                             *)
LEMMA FreshNotBegun ==
  ASSUME NEW s \in Seq(AllUnits), Fresh(s)
  PROVE  s # <<>> /\ Head(s).field = "type"
<1>1. Len(s) \in Nat /\ Len(s) >= 2
  BY ConstantsOK DEF Fresh
<1>2. s # <<>> /\ Head(s) = s[1]
  BY <1>1
<1>3. QED
  BY <1>2, Fields DEF Fresh

(* The last packet in sent is a packet, with the payload its length says.   *)
LEMMA LastSent ==
  ASSUME WellTyped, sent # <<>>
  PROVE  LET p == sent[Len(sent)] IN
         /\ Len(sent) \in 1 .. Len(sent)
         /\ p \in SentPackets /\ Len(p.body) = p.length /\ p.length \in Nat
         /\ p.body \in Seq(BodyUnits)
<1>1. Len(sent) \in 1 .. Len(sent) /\ sent[Len(sent)] \in SentPackets
  BY DEF WellTyped
<1>2. QED
  BY <1>1, ConstantsOK DEF WellTyped, SentPackets

(* Of the rest of a packet the next unit is never the type.                 *)
LEMMA RestBegun ==
  ASSUME NEW s \in Seq(AllUnits), NEW p \in SentPackets, Len(p.body) = p.length, Rest(s, p)
  PROVE  s # <<>> /\ Head(s).field # "type"
<1>1. p.length \in Nat /\ p.body \in Seq(BodyUnits)
  BY ConstantsOK DEF SentPackets
<1>2. /\ s # <<>> /\ Len(s) \in 1 .. p.length + 1
      /\ Head(s) = UnitOf(p, (p.length + 2) - Len(s) + 1)
  <2>1. Len(s) \in 1 .. p.length + 1
    BY <1>1 DEF Rest, SizeOf
  <2>2. 1 \in 1 .. Len(s)
    BY <2>1, <1>1
  <2>3. s[1] = UnitOf(p, SizeOf(p) - Len(s) + 1)
    BY <2>2 DEF Rest
  <2>4. s[1] = UnitOf(p, (p.length + 2) - Len(s) + 1)
    BY <2>3 DEF SizeOf
  <2>5. s # <<>> /\ Head(s) = s[1]
    BY <2>1
  <2>6. QED
    BY <2>1, <2>4, <2>5
<1>3. UnitOf(p, (p.length + 2) - Len(s) + 1).field # "type"
  <2>1. SUFFICES ASSUME NEW i \in Int, i = (p.length + 2) - Len(s) + 1
                 PROVE  UnitOf(p, i).field # "type"
    BY <1>1, <1>2
  <2>2. i \in 2 .. p.length + 2
    <3>1. \A n \in Nat : \A l \in 1 .. n + 1 : (n + 2) - l + 1 \in 2 .. n + 2
      OBVIOUS
    <3>2. (p.length + 2) - Len(s) + 1 \in 2 .. p.length + 2
      BY <1>1, <1>2, <3>1
    <3>3. QED
      BY <2>1, <3>2
  <2>3. CASE i = 2
    BY <2>3, Fields DEF UnitOf
  <2>4. CASE i # 2
    <3>1. i - 2 \in 1 .. Len(p.body) /\ i # 1
      BY <1>1, <2>2, <2>4
    <3>2. p.body[i - 2] \in BodyUnits
      BY <1>1, <3>1
    <3>3. QED
      BY <2>4, <3>1, <3>2, Fields DEF UnitOf
  <2>5. QED
    BY <2>3, <2>4
<1>4. QED
  BY <1>2, <1>3

(* A packet of which something is written is begun, no other. *)
LEMMA BegunOrFresh ==
  ASSUME WellTyped, NEW w \in Writers
  PROVE  /\ out[w] = <<>> => ~ Begun(w)
         /\ Fresh(out[w]) => ~ Begun(w) /\ out[w] # <<>>
         /\ sent # <<>> /\ Rest(out[w], sent[Len(sent)]) => Begun(w)
<1>1. out[w] \in Seq(AllUnits)
  BY DEF WellTyped
<1>2. ASSUME Fresh(out[w]) PROVE ~ Begun(w) /\ out[w] # <<>>
  BY <1>1, <1>2, FreshNotBegun DEF Begun
<1>3. ASSUME sent # <<>>, Rest(out[w], sent[Len(sent)]) PROVE Begun(w)
  BY <1>1, <1>3, LastSent, RestBegun DEF Begun
<1>4. QED
  BY <1>2, <1>3 DEF Begun

(* Nothing sent, nothing read: the reader and the writers are at the same   *)
(* place.                                                                   *)
LEMMA InitInv == Init => IInv
<1> SUFFICES ASSUME Init PROVE IInv
  OBVIOUS
<1>1. WellTyped
  <2>1. hdr \in Headers
    BY DEF Init, Garbage, Headers
  <2>2. left \in Nat /\ out \in [Writers -> Seq(AllUnits)]
    BY ConstantsOK DEF Init
  <2>3. sent = <<>> /\ stream = <<>> /\ received = <<>> /\ body = <<>>
    BY DEF Init
  <2>4. sent \in Seq(SentPackets) /\ Len(sent) = 0
    BY <2>3
  <2>5. stream \in Seq(AllUnits) /\ body \in Seq(AllUnits)
    BY <2>3
  <2>6. received \in Seq(Handled)
    BY <2>3
  <2>7. closed \in BOOLEAN /\ rpc \in {"type", "length", "body", "left"}
    BY DEF Init
  <2>8. QED
    BY <2>1, <2>2, <2>4, <2>5, <2>6, <2>7 DEF WellTyped
<1>2. OutOK
  BY DEF Init, OutOK, Begun
<1>3. OnTrack
  <2> DEFINE pos == [j \in 1 .. 1 |-> <<1, 1>>]
  <2>1. ReaderPlace = <<1, 1>> /\ Len(stream) = 0
    BY DEF Init, ReaderPlace
  <2>2. WriterAt(<<1, 1>>)
    BY DEF Init, WriterAt, Begun
  <2>3. pos \in [1 .. Len(stream) + 1 -> Nat \X Nat] /\ Chain(pos)
    BY <2>1, <2>2 DEF Chain
  <2>4. QED
    BY <2>3 DEF Init, OnTrack
<1>4. QED
  BY <1>1, <1>2, <1>3 DEF IInv

(* The packet WriteUnit puts in sent. *)
PacketOf(s) == [type |-> s[1].value, length |-> s[2].value, body |-> SubSeq(s, 3, Len(s))]

(* The units of a fresh packet are those of the packet put in sent.         *)
LEMMA FreshPacket ==
  ASSUME NEW s \in Seq(AllUnits), Fresh(s)
  PROVE  LET q == PacketOf(s) IN
         /\ q \in SentPackets /\ q.length \in Nat /\ Len(q.body) = q.length
         /\ Len(s) = SizeOf(q) /\ SizeOf(q) \in Nat
         /\ \A i \in 1 .. Len(s) : s[i] = UnitOf(q, i)
<1> DEFINE q == PacketOf(s)
           b == SubSeq(s, 3, Len(s))
<1>1. /\ Len(s) \in 2 .. MaxLen + 2 /\ s[2] = Unit("length", Len(s) - 2)
      /\ \A i \in 3 .. Len(s) : s[i] \in BodyUnits
      /\ MaxLen \in Nat
  BY ConstantsOK DEF Fresh
<1>2. PICK t \in Types : s[1] = Unit("type", t)
  BY DEF Fresh
<1>3. s[1].value = t /\ s[2].value = Len(s) - 2 /\ Len(s) - 2 \in 0 .. MaxLen
  <2>1. Len(s) - 2 \in 0 .. MaxLen
    BY <1>1
  <2>2. QED
    BY <1>1, <1>2, <2>1, Fields
<1>4. b \in Seq(BodyUnits) /\ Len(b) = Len(s) - 2 /\ \A i \in 1 .. Len(s) - 2 : b[i] = s[i + 2]
  <2>1. Len(b) = Len(s) - 2 /\ \A i \in 1 .. Len(s) - 2 : b[i] = s[i + 2]
    BY <1>1, Third
  <2>2. b \in Seq(AllUnits)
    BY <1>1
  <2>3. \A i \in 1 .. Len(b) : b[i] \in BodyUnits
    BY <1>1, <2>1
  <2> HIDE DEF b
  <2>4. b \in Seq(BodyUnits)
    BY <2>2, <2>3
  <2>5. QED
    BY <2>1, <2>4
<1> HIDE DEF b
<1>5. q = [type |-> t, length |-> Len(s) - 2, body |-> b]
  BY <1>3 DEF b, PacketOf
<1>6. q \in SentPackets /\ q.length = Len(s) - 2 /\ q.type = t /\ q.body = b
  BY <1>3, <1>4, <1>5 DEF SentPackets
<1> HIDE DEF q
<1>7. Len(s) = SizeOf(q)
  BY <1>1, <1>6 DEF SizeOf
<1>8. ASSUME NEW i \in 1 .. Len(s) PROVE s[i] = UnitOf(q, i)
  <2>1. CASE i = 1
    BY <2>1, <1>2, <1>6 DEF UnitOf
  <2>2. CASE i = 2
    BY <2>2, <1>1, <1>6 DEF UnitOf
  <2>3. CASE i # 1 /\ i # 2
    <3>1. i - 2 \in 1 .. Len(s) - 2 /\ (i - 2) + 2 = i
      BY <2>3, <1>1
    <3>2. b[i - 2] = s[i]
      BY <1>4, <3>1
    <3>3. QED
      BY <2>3, <3>2, <1>6 DEF UnitOf
  <2>4. QED
    BY <2>1, <2>2, <2>3
<1>9. q.length \in Nat /\ Len(q.body) = q.length /\ SizeOf(q) \in Nat
  BY <1>1, <1>4, <1>6, <1>7
<1>10. QED
  BY <1>6, <1>7, <1>8, <1>9 DEF q

(* What WriteUnit leaves of a packet. *)
LEMMA RestOfFresh ==
  ASSUME NEW s \in Seq(AllUnits), Fresh(s)
  PROVE  Tail(s) \in Seq(AllUnits) /\ Rest(Tail(s), PacketOf(s))
<1> DEFINE q == PacketOf(s)
<1>1. /\ Len(s) = SizeOf(q) /\ SizeOf(q) \in Nat /\ Len(s) >= 2
      /\ \A i \in 1 .. Len(s) : s[i] = UnitOf(q, i)
  BY FreshPacket, ConstantsOK DEF Fresh
<1> HIDE DEF q
<1>2. Tail(s) \in Seq(AllUnits) /\ Len(Tail(s)) = Len(s) - 1 /\ s # <<>>
  BY <1>1
<1>3. ASSUME NEW i \in 1 .. Len(Tail(s))
      PROVE  Tail(s)[i] = UnitOf(q, SizeOf(q) - Len(Tail(s)) + i)
  <2>1. i + 1 \in 1 .. Len(s) /\ SizeOf(q) - Len(Tail(s)) + i = i + 1
    BY <1>1, <1>2
  <2>2. Tail(s)[i] = s[i + 1]
    BY <1>1, <1>2
  <2>3. QED
    BY <1>1, <2>1, <2>2
<1>4. Len(Tail(s)) \in 1 .. SizeOf(q) - 1
  BY <1>1, <1>2
<1>5. QED
  BY <1>2, <1>3, <1>4 DEF Rest, q

(* After a further unit a packet is finished or still begun.                *)
LEMMA RestOfRest ==
  ASSUME NEW s \in Seq(AllUnits), NEW q \in SentPackets, Rest(s, q)
  PROVE  /\ Tail(s) \in Seq(AllUnits)
         /\ Len(s) = 1 => Tail(s) = <<>>
         /\ Len(s) # 1 => Rest(Tail(s), q) /\ Len(Tail(s)) = Len(s) - 1
<1>1. q.length \in Nat
  BY ConstantsOK DEF SentPackets
<1>2. SizeOf(q) \in Nat
  BY <1>1 DEF SizeOf
<1>3. Len(s) \in 1 .. SizeOf(q) - 1 /\ \A i \in 1 .. Len(s) : s[i] = UnitOf(q, SizeOf(q) - Len(s) + i)
  BY DEF Rest
<1>4. Tail(s) \in Seq(AllUnits) /\ Len(Tail(s)) = Len(s) - 1 /\ s # <<>>
  BY <1>2, <1>3
<1>5. CASE Len(s) = 1
  <2>1. Len(Tail(s)) = 0
    BY <1>4, <1>5
  <2>2. Tail(s) = <<>>
    BY <1>4, <2>1, EmptySeq
  <2>3. QED
    BY <1>4, <1>5, <2>2
<1>6. CASE Len(s) # 1
  <2>1. ASSUME NEW i \in 1 .. Len(Tail(s))
        PROVE  Tail(s)[i] = UnitOf(q, SizeOf(q) - Len(Tail(s)) + i)
    <3>1. i + 1 \in 1 .. Len(s) /\ SizeOf(q) - Len(Tail(s)) + i = SizeOf(q) - Len(s) + (i + 1)
      BY <1>2, <1>3, <1>4
    <3>2. Tail(s)[i] = s[i + 1]
      BY <1>4
    <3>3. QED
      BY <1>3, <3>1, <3>2
  <2>2. Len(Tail(s)) \in 1 .. SizeOf(q) - 1
    BY <1>2, <1>3, <1>4, <1>6
  <2>3. QED
    BY <1>4, <1>6, <2>1, <2>2 DEF Rest
<1>7. QED
  BY <1>4, <1>5, <1>6

-----------------------------------------------------------------------------
(* The place after a place is a place.                                      *)
LEMMA AfterType ==
  ASSUME NEW s, NEW p \in Nat \X Nat
  PROVE  After(s, p) \in Nat \X Nat
BY DEF After

(* A step that moves neither the reader nor a writer keeps both on track.   *)
LEMMA SameTrack ==
  ASSUME UNCHANGED <<sent, out, stream, received, rpc, body, hdr>>
  PROVE  (OnTrack => OnTrack') /\ (OutOK => OutOK')
<1>1. \A p : WriterAt(p) => WriterAt(p)'
  BY DEF WriterAt, Begun
<1>2. ReaderPlace' = ReaderPlace
  BY DEF ReaderPlace
<1>3. ASSUME NEW pos, Chain(pos) PROVE Chain(pos)'
  BY <1>1, <1>2, <1>3 DEF Chain
<1>4. OnTrack => OnTrack'
  BY <1>3 DEF OnTrack, Inside
<1>5. OutOK => OutOK'
  BY DEF OutOK, Begun
<1>6. QED
  BY <1>4, <1>5

(* A call of proto_send_packet writes nothing yet.                          *)
LEMMA SendStep ==
  ASSUME WellTyped, OutOK, OnTrack, NEW w \in Writers, NEW p \in Packets, Send(w, p)
  PROVE  WellTyped' /\ OutOK' /\ OnTrack'
<1> DEFINE u == Units(left, p)
<1>1. /\ left \in Nat /\ left > 0 /\ left' = left - 1 /\ out[w] = <<>>
      /\ out' = [out EXCEPT ![w] = u]
      /\ UNCHANGED <<sent, torn, stream, closed, hdr, rpc, body, received>>
  BY DEF WellTyped, Send
<1>2. Fresh(u) /\ u \in Seq(AllUnits)
  BY <1>1, FreshUnits
<1> HIDE DEF u
<1>3. out \in [Writers -> Seq(AllUnits)]
  BY DEF WellTyped
<1>4. /\ out' \in [Writers -> Seq(AllUnits)] /\ out'[w] = u
      /\ \A v \in Writers \ {w} : out'[v] = out[v]
  BY <1>1, <1>2, <1>3
<1>5. WellTyped'
  <2>1. left' \in Nat
    BY <1>1
  <2>2. QED
    BY <1>1, <1>4, <2>1 DEF WellTyped
<1>6. ~ Begun(w) /\ ~ Begun(w)'
  <2>1. ~ Begun(w)
    BY <1>1 DEF Begun
  <2>2. ~ Begun(w)'
    BY <1>2, <1>4, <1>5, FreshNotBegun DEF Begun
  <2>3. QED
    BY <2>1, <2>2
<1>7. \A v \in Writers : Begun(v)' <=> Begun(v)
  BY <1>4, <1>6 DEF Begun
<1>8. OutOK'
  <2>1. ASSUME NEW v \in Writers
        PROVE  (\/ out[v] = <<>> \/ Fresh(out[v])
                \/ sent # <<>> /\ Rest(out[v], sent[Len(sent)]))'
    BY <1>1, <1>2, <1>4 DEF OutOK
  <2>2. \A v, x \in Writers : Begun(v)' /\ Begun(x)' => v = x
    BY <1>7 DEF OutOK
  <2>3. QED
    BY <2>1, <2>2 DEF OutOK
<1>9. OnTrack'
  <2>1. ASSUME NEW r, WriterAt(r) PROVE WriterAt(r)'
    <3>1. CASE \E v \in Writers : Begun(v)
      <4>1. PICK v \in Writers : Begun(v) /\ r = <<Len(sent), SizeOf(sent[Len(sent)]) - Len(out[v]) + 1>>
        BY <2>1, <3>1 DEF WriterAt
      <4>2. Begun(v)' /\ out'[v] = out[v]
        BY <4>1, <1>4, <1>6, <1>7
      <4>3. QED
        BY <1>1, <4>1, <4>2 DEF WriterAt
    <3>2. CASE ~ \E v \in Writers : Begun(v)
      BY <1>1, <1>7, <2>1, <3>2 DEF WriterAt
    <3>3. QED
      BY <3>1, <3>2
  <2>2. ReaderPlace' = ReaderPlace
    BY <1>1 DEF ReaderPlace
  <2>3. ASSUME NEW pos, Chain(pos) PROVE Chain(pos)'
    BY <1>1, <2>1, <2>2, <2>3 DEF Chain
  <2>4. QED
    BY <1>1, <2>3 DEF OnTrack, Inside
<1>10. QED
  BY <1>5, <1>8, <1>9

(* A unit written gets the place of the writer. *)
LEMMA Extend ==
  ASSUME WellTyped, OnTrack, NEW u,
         stream' = Append(stream, u), sent' \in Seq(SentPackets), Len(sent) <= Len(sent'),
         \A n \in 1 .. Len(sent) : sent'[n] = sent[n],
         UNCHANGED <<hdr, rpc, body, received>>,
         \A p, r \in Nat \X Nat :
           WriterAt(p) /\ r = After(sent', p) => IsUnit(u, sent', p) /\ WriterAt(r)'
  PROVE  OnTrack'
<1> DEFINE L == Len(stream)
<1>1. /\ L \in Nat /\ Len(stream') = L + 1 /\ stream'[L + 1] = u
      /\ \A j \in 1 .. L : stream'[j] = stream[j]
  BY DEF WellTyped
<1>2. PICK pos \in [1 .. L + 1 -> Nat \X Nat] : Chain(pos)
  BY DEF OnTrack
<1>3. pos[L + 1] \in Nat \X Nat /\ WriterAt(pos[L + 1])
  BY <1>1, <1>2 DEF Chain
<1>4. PICK last \in Nat \X Nat : last = pos[L + 1]
  BY <1>3
<1>5. PICK nxt \in Nat \X Nat : nxt = After(sent', last)
  BY AfterType
<1>6. IsUnit(u, sent', last) /\ WriterAt(nxt)'
  BY <1>3, <1>4, <1>5
<1>7. PICK q \in [1 .. L + 2 -> Nat \X Nat] :
        q[L + 2] = nxt /\ \A j \in 1 .. L + 1 : q[j] = pos[j]
  <2> DEFINE f == [j \in 1 .. L + 2 |-> IF j <= L + 1 THEN pos[j] ELSE nxt]
  <2>1. f \in [1 .. L + 2 -> Nat \X Nat] /\ f[L + 2] = nxt /\ \A j \in 1 .. L + 1 : f[j] = pos[j]
    BY <1>1, <1>2
  <2> HIDE DEF f
  <2>2. QED
    BY <2>1
<1>8. Chain(q)'
  <2>1. q[1] = ReaderPlace'
    <3>1. ReaderPlace' = ReaderPlace
      BY DEF ReaderPlace
    <3>2. q[1] = pos[1] /\ pos[1] = ReaderPlace
      BY <1>1, <1>2, <1>7 DEF Chain
    <3>3. QED
      BY <3>1, <3>2
  <2>2. WriterAt(q[Len(stream) + 1])'
    <3>1. q[Len(stream') + 1] = nxt
      BY <1>1, <1>7
    <3>2. SUFFICES ASSUME NEW r, r = q[Len(stream') + 1] PROVE WriterAt(r)'
      OBVIOUS
    <3>3. QED
      BY <1>6, <3>1, <3>2
  <2>3. ASSUME NEW j \in 1 .. L + 1
        PROVE  IsUnit(stream'[j], sent', q[j]) /\ q[j + 1] = After(sent', q[j])
    <3>1. CASE j = L + 1
      <4>1. q[j] = last /\ q[j + 1] = nxt /\ stream'[j] = u
        <5>1. j \in 1 .. L + 1 /\ j + 1 = L + 2
          BY <1>1, <3>1
        <5>2. QED
          BY <1>1, <1>4, <1>7, <3>1, <5>1
      <4>2. QED
        BY <1>6, <1>5, <4>1
    <3>2. CASE j # L + 1
      <4>1. j \in 1 .. L /\ j + 1 \in 1 .. L + 1
        BY <1>1, <3>2
      <4>2. q[j] = pos[j] /\ q[j + 1] = pos[j + 1] /\ stream'[j] = stream[j]
        BY <1>1, <1>7, <4>1
      <4>3. IsUnit(stream[j], sent, pos[j]) /\ pos[j + 1] = After(sent, pos[j])
        BY <1>2, <4>1 DEF Chain
      <4>4. pos[j][1] \in 1 .. Len(sent) /\ pos[j][1] \in 1 .. Len(sent') /\ sent'[pos[j][1]] = sent[pos[j][1]]
        <5>1. pos[j][1] \in 1 .. Len(sent)
          BY <4>3 DEF IsUnit
        <5>2. Len(sent) \in Nat /\ Len(sent') \in Nat
          BY DEF WellTyped
        <5>3. QED
          BY <5>1, <5>2
      <4>5. QED
        BY <4>2, <4>3, <4>4 DEF IsUnit, After
    <3>3. QED
      BY <3>1, <3>2
  <2>4. QED
    BY <1>1, <2>1, <2>2, <2>3 DEF Chain
<1>9. q \in [1 .. Len(stream') + 1 -> Nat \X Nat]
  BY <1>1, <1>7
<1>10. /\ Len(received') <= Len(sent')
      /\ \A n \in 1 .. Len(received') : received'[n] = sent'[n]
  <2>1. Len(received) \in Nat /\ Len(sent) \in Nat /\ Len(sent') \in Nat
    BY DEF WellTyped
  <2>2. Len(received) <= Len(sent) /\ \A n \in 1 .. Len(received) : received[n] = sent[n]
    BY DEF OnTrack
  <2>3. QED
    BY <2>1, <2>2
<1>11. rpc # "type" => Len(received') < Len(sent') /\ Inside(sent[Len(received) + 1])'
  <2>1. Len(received) \in Nat /\ Len(sent) \in Nat /\ Len(sent') \in Nat
    BY DEF WellTyped
  <2>2. ASSUME rpc # "type"
        PROVE  /\ Len(received') < Len(sent')
               /\ sent'[Len(received) + 1] = sent[Len(received) + 1]
               /\ Inside(sent[Len(received) + 1])
    BY <2>1, <2>2 DEF OnTrack
  <2>3. QED
    BY <2>2 DEF Inside
<1>12. QED
  BY <1>8, <1>9, <1>10, <1>11 DEF OnTrack

(* The first unit of a packet, when no other packet is begun. *)
LEMMA WriteFirst ==
  ASSUME WellTyped, OutOK, OnTrack, NEW w \in Writers, WriteUnit(w), ~torn', Fresh(out[w])
  PROVE  WellTyped' /\ OutOK' /\ OnTrack'
<1> DEFINE s == out[w]
           n == Len(sent)
<1>1. s \in Seq(AllUnits) /\ out \in [Writers -> Seq(AllUnits)]
  BY DEF WellTyped
<1>2. PICK q : q = PacketOf(s)
  OBVIOUS
<1>3. /\ q \in SentPackets /\ q.length \in Nat /\ Len(q.body) = q.length
      /\ Len(s) = SizeOf(q) /\ SizeOf(q) \in Nat /\ \A i \in 1 .. Len(s) : s[i] = UnitOf(q, i)
  BY <1>1, <1>2, FreshPacket
<1>4. s # <<>> /\ ~ Begun(w) /\ Head(s) \in AllUnits /\ Head(s) = s[1] /\ Len(s) >= 2
  <2>1. s # <<>> /\ Head(s).field = "type"
    BY <1>1, FreshNotBegun
  <2>2. Len(s) >= 2 /\ Len(s) \in Nat
    BY ConstantsOK DEF Fresh
  <2>3. Head(s) = s[1] /\ s[1] \in AllUnits
    BY <1>1, <2>1, <2>2
  <2>4. QED
    BY <2>1, <2>2, <2>3 DEF Begun
<1>5. /\ stream' = Append(stream, Head(s)) /\ out' = [out EXCEPT ![w] = Tail(s)]
      /\ sent' = Append(sent, q)
      /\ \A v \in Writers \ {w} : ~ Begun(v)
      /\ UNCHANGED <<left, closed, hdr, rpc, body, received>>
  BY <1>2, <1>4 DEF WriteUnit, PacketOf
<1>6. Tail(s) \in Seq(AllUnits) /\ Rest(Tail(s), q)
  BY <1>1, <1>2, RestOfFresh
<1>7. /\ out' \in [Writers -> Seq(AllUnits)] /\ out'[w] = Tail(s)
      /\ \A v \in Writers \ {w} : out'[v] = out[v]
  BY <1>1, <1>5, <1>6
<1> HIDE DEF s
<1>8. /\ n \in Nat /\ sent' \in Seq(SentPackets) /\ Len(sent') = n + 1 /\ sent'[n + 1] = q
      /\ \A i \in 1 .. n : sent'[i] = sent[i]
  BY <1>3, <1>5 DEF WellTyped
<1>9. stream' \in Seq(AllUnits)
  BY <1>4, <1>5 DEF WellTyped
<1>10. WellTyped'
  <2>1. \A i \in 1 .. Len(sent') : Len(sent'[i].body) = sent'[i].length
    <3>1. SUFFICES ASSUME NEW i \in 1 .. n + 1 PROVE Len(sent'[i].body) = sent'[i].length
      BY <1>8
    <3>2. CASE i = n + 1
      BY <3>2, <1>3, <1>8
    <3>3. CASE i # n + 1
      <4>1. i \in 1 .. n
        BY <1>8, <3>3
      <4>2. QED
        BY <4>1, <1>8 DEF WellTyped
    <3>4. QED
      BY <3>2, <3>3
  <2>2. QED
    BY <1>5, <1>7, <1>8, <1>9, <2>1 DEF WellTyped
<1>11. \A v \in Writers \ {w} : ~ Begun(v)'
  BY <1>5, <1>7 DEF Begun
<1>12. sent' # <<>> /\ Rest(out'[w], sent'[Len(sent')])
  <2>1. sent' # <<>>
    BY <1>8
  <2>2. QED
    BY <1>6, <1>7, <1>8, <2>1
<1>13. OutOK'
  <2>1. ASSUME NEW v \in Writers \ {w} PROVE out'[v] = <<>> \/ Fresh(out'[v])
    <3>1. ~ (sent # <<>> /\ Rest(out[v], sent[Len(sent)]))
      BY <1>5, BegunOrFresh
    <3>2. QED
      BY <1>7, <3>1 DEF OutOK
  <2>2. ASSUME NEW v \in Writers
        PROVE  (\/ out[v] = <<>> \/ Fresh(out[v])
                \/ sent # <<>> /\ Rest(out[v], sent[Len(sent)]))'
    BY <1>12, <2>1
  <2>3. \A v, x \in Writers : Begun(v)' /\ Begun(x)' => v = x
    BY <1>11
  <2>4. QED
    BY <2>2, <2>3 DEF OutOK
<1>14. Begun(w)'
  <2>1. out'[w] # <<>> /\ Head(out'[w]).field # "type"
    BY <1>3, <1>6, <1>7, RestBegun
  <2>2. QED
    BY <2>1 DEF Begun
<1>15. ASSUME NEW p \in Nat \X Nat, NEW r \in Nat \X Nat, WriterAt(p), r = After(sent', p)
       PROVE  IsUnit(Head(s), sent', p) /\ WriterAt(r)'
  <2>1. ~ \E v \in Writers : Begun(v)
    BY <1>4, <1>5
  <2>2. p[1] = n + 1 /\ p[2] = 1
    BY <2>1, <1>15 DEF WriterAt
  <2>3. IsUnit(Head(s), sent', p)
    <3>1. 1 \in 1 .. SizeOf(q) /\ n + 1 \in 1 .. Len(sent') /\ Head(s) = UnitOf(q, 1)
      BY <1>3, <1>4, <1>8
    <3>2. QED
      BY <1>8, <2>2, <3>1 DEF IsUnit
  <2>4. r = <<n + 1, 2>>
    BY <1>3, <1>4, <1>8, <1>15, <2>2 DEF After
  <2>5. SizeOf(q) - Len(Tail(s)) + 1 = 2
    BY <1>1, <1>3, <1>4 DEF s
  <2>6. WriterAt(r)'
    <3>1. (\E v \in Writers : Begun(v))'
      BY <1>14
    <3>2. (r = <<Len(sent), SizeOf(sent[Len(sent)]) - Len(out[w]) + 1>>)'
      BY <1>7, <1>8, <2>4, <2>5
    <3>3. QED
      BY <1>14, <3>1, <3>2 DEF WriterAt
  <2>7. QED
    BY <2>3, <2>6
<1>16. OnTrack'
  <2>1. Len(sent) <= Len(sent')
    BY <1>8
  <2>2. QED
    BY <1>5, <1>8, <1>15, <2>1, Extend
<1>17. QED
  BY <1>10, <1>13, <1>16

(* A further unit of the packet that is begun. *)
LEMMA WriteNext ==
  ASSUME WellTyped, OutOK, OnTrack, NEW w \in Writers, WriteUnit(w), ~torn',
         sent # <<>>, Rest(out[w], sent[Len(sent)])
  PROVE  WellTyped' /\ OutOK' /\ OnTrack'
<1> DEFINE s == out[w]
           n == Len(sent)
           q == sent[n]
<1>1. s \in Seq(AllUnits) /\ out \in [Writers -> Seq(AllUnits)]
  BY DEF WellTyped
<1>2. n \in 1 .. n /\ q \in SentPackets /\ Len(q.body) = q.length /\ q.length \in Nat
  BY LastSent
<1>3. Begun(w) /\ s # <<>> /\ Rest(s, q)
  BY BegunOrFresh DEF Begun
<1>4. /\ SizeOf(q) \in Nat /\ Len(s) \in 1 .. SizeOf(q) - 1
      /\ Head(s) \in AllUnits /\ Head(s) = UnitOf(q, SizeOf(q) - Len(s) + 1)
  <2>1. SizeOf(q) \in Nat
    BY <1>2 DEF SizeOf
  <2>2. Len(s) \in 1 .. SizeOf(q) - 1 /\ \A i \in 1 .. Len(s) : s[i] = UnitOf(q, SizeOf(q) - Len(s) + i)
    BY <1>3 DEF Rest
  <2>3. 1 \in 1 .. Len(s) /\ Head(s) = s[1] /\ s[1] \in AllUnits
    BY <1>1, <1>3, <2>1, <2>2
  <2>4. QED
    BY <2>1, <2>2, <2>3
<1>5. /\ stream' = Append(stream, Head(s)) /\ out' = [out EXCEPT ![w] = Tail(s)]
      /\ sent' = sent
      /\ \A v \in Writers \ {w} : ~ Begun(v)
      /\ UNCHANGED <<left, closed, hdr, rpc, body, received>>
  BY <1>3 DEF WriteUnit
<1>6. /\ Tail(s) \in Seq(AllUnits)
      /\ Len(s) = 1 => Tail(s) = <<>>
      /\ Len(s) # 1 => Rest(Tail(s), q) /\ Len(Tail(s)) = Len(s) - 1
  BY <1>1, <1>2, <1>3, RestOfRest
<1>7. /\ out' \in [Writers -> Seq(AllUnits)] /\ out'[w] = Tail(s)
      /\ \A v \in Writers \ {w} : out'[v] = out[v]
  BY <1>1, <1>5, <1>6
<1>8. \A p : WriterAt(p) => p = <<n, SizeOf(q) - Len(s) + 1>>
  <2>1. \A v \in Writers : Begun(v) => v = w
    BY <1>5
  <2>2. QED
    BY <1>3, <2>1 DEF WriterAt
<1> HIDE DEF s, q
<1>9. stream' \in Seq(AllUnits) /\ sent \in Seq(SentPackets) /\ n \in Nat
  BY <1>4, <1>5 DEF WellTyped
<1>10. WellTyped'
  BY <1>5, <1>7, <1>9 DEF WellTyped
<1>11. \A v \in Writers \ {w} : ~ Begun(v)'
  BY <1>5, <1>7 DEF Begun
<1>12. OutOK'
  <2>1. ASSUME NEW v \in Writers
        PROVE  (\/ out[v] = <<>> \/ Fresh(out[v])
                \/ sent # <<>> /\ Rest(out[v], sent[Len(sent)]))'
    <3>1. CASE v = w
      BY <3>1, <1>5, <1>6, <1>7 DEF q
    <3>2. CASE v # w
      BY <3>2, <1>5, <1>7 DEF OutOK
    <3>3. QED
      BY <3>1, <3>2
  <2>2. \A v, x \in Writers : Begun(v)' /\ Begun(x)' => v = x
    BY <1>11
  <2>3. QED
    BY <2>1, <2>2 DEF OutOK
<1>13. ASSUME NEW p \in Nat \X Nat, NEW r \in Nat \X Nat, WriterAt(p), r = After(sent', p)
       PROVE  IsUnit(Head(s), sent', p) /\ WriterAt(r)'
  <2>1. p[1] = n /\ p[2] = SizeOf(q) - Len(s) + 1
    BY <1>8, <1>13
  <2>2. IsUnit(Head(s), sent', p)
    <3>1. p[2] \in 1 .. SizeOf(q)
      BY <1>4, <2>1
    <3>2. QED
      BY <1>2, <1>4, <1>5, <2>1, <3>1 DEF IsUnit, q
  <2>3. CASE Len(s) = 1
    <3>1. ~ p[2] < SizeOf(q)
      BY <1>4, <2>1, <2>3
    <3>2. r = <<n + 1, 1>>
      BY <1>5, <1>13, <2>1, <3>1 DEF After, q
    <3>3. ~ Begun(w)'
      BY <1>6, <1>7, <2>3 DEF Begun
    <3>4. WriterAt(r)'
      BY <1>5, <1>11, <3>2, <3>3 DEF WriterAt
    <3>5. QED
      BY <2>2, <3>4
  <2>4. CASE Len(s) # 1
    <3>1. p[2] < SizeOf(q) /\ p[2] + 1 = SizeOf(q) - (Len(s) - 1) + 1
      <4>1. \A a \in Nat : \A l \in 1 .. a - 1 :
              l # 1 => a - l + 1 < a /\ a - l + 1 + 1 = a - (l - 1) + 1
        OBVIOUS
      <4>2. SizeOf(q) - Len(s) + 1 < SizeOf(q) /\ SizeOf(q) - Len(s) + 1 + 1 = SizeOf(q) - (Len(s) - 1) + 1
        BY <1>4, <2>4, <4>1
      <4>3. QED
        BY <2>1, <4>2
    <3>2. r = <<n, SizeOf(q) - (Len(s) - 1) + 1>>
      BY <1>5, <1>13, <2>1, <3>1 DEF After, q
    <3>3. Rest(out'[w], q) /\ Len(out'[w]) = Len(s) - 1
      BY <1>6, <1>7, <2>4
    <3>4. Begun(w)'
      <4>1. out'[w] # <<>> /\ Head(out'[w]).field # "type"
        BY <1>2, <1>6, <1>7, <3>3, RestBegun DEF q
      <4>2. QED
        BY <4>1 DEF Begun
    <3>5. (r = <<Len(sent), SizeOf(sent[Len(sent)]) - Len(out[w]) + 1>>)'
      BY <1>5, <3>2, <3>3 DEF q
    <3>6. WriterAt(r)'
      BY <3>4, <3>5 DEF WriterAt
    <3>7. QED
      BY <2>2, <3>6
  <2>5. QED
    BY <2>3, <2>4
<1>14. OnTrack'
  <2>1. Len(sent) <= Len(sent')
    BY <1>5, <1>9
  <2>2. QED
    BY <1>5, <1>9, <1>13, <2>1, Extend
<1>15. QED
  BY <1>10, <1>12, <1>14

(* WriteUnit, when it does not write inside another's packet.               *)
LEMMA WriteStep ==
  ASSUME WellTyped, OutOK, OnTrack, NEW w \in Writers, WriteUnit(w), ~torn'
  PROVE  WellTyped' /\ OutOK' /\ OnTrack'
<1>1. out[w] # <<>>
  BY DEF WriteUnit
<1>2. QED
  BY <1>1, WriteFirst, WriteNext DEF OutOK

-----------------------------------------------------------------------------
(* The unit at the head of the stream is the one the reader expects. *)
LEMMA HeadUnit ==
  ASSUME WellTyped, OnTrack, stream # <<>>
  PROVE  /\ Head(stream) = UnitOf(sent[Len(received) + 1], ReaderPlace[2])
         /\ Len(received) + 1 \in 1 .. Len(sent)
         /\ ReaderPlace[2] \in 1 .. SizeOf(sent[Len(received) + 1])
<1>1. PICK pos \in [1 .. Len(stream) + 1 -> Nat \X Nat] : Chain(pos)
  BY DEF OnTrack
<1>2. 1 \in 1 .. Len(stream) /\ Head(stream) = stream[1]
  BY DEF WellTyped
<1>3. IsUnit(stream[1], sent, ReaderPlace)
  BY <1>1, <1>2 DEF Chain
<1>4. ReaderPlace[1] = Len(received) + 1
  BY DEF ReaderPlace
<1>5. QED
  BY <1>2, <1>3, <1>4 DEF IsUnit

(* The sent packet the reader is in. *)
LEMMA InPacket ==
  ASSUME WellTyped, Len(received) + 1 \in 1 .. Len(sent)
  PROVE  LET p == sent[Len(received) + 1] IN
         /\ p \in SentPackets /\ Len(p.body) = p.length /\ p.length \in Nat
         /\ p.length \in 0 .. MaxLen /\ p.type \in Types /\ p.body \in Seq(BodyUnits)
         /\ p = [type |-> p.type, length |-> p.length, body |-> p.body]
<1>1. sent[Len(received) + 1] \in SentPackets
  BY DEF WellTyped
<1>2. QED
  BY <1>1, ConstantsOK DEF WellTyped, SentPackets

(* A unit read brings the reader to the place after it. *)
LEMMA Advance ==
  ASSUME WellTyped, OnTrack, stream # <<>>, stream' = Tail(stream), UNCHANGED <<sent, out>>,
         ReaderPlace' = After(sent, ReaderPlace)
  PROVE  /\ stream' \in Seq(AllUnits)
         /\ \E pos \in [1 .. Len(stream') + 1 -> Nat \X Nat] : Chain(pos)'
<1> DEFINE L == Len(stream)
<1>1. /\ L \in Nat /\ L >= 1 /\ Len(stream') = L - 1 /\ stream' \in Seq(AllUnits)
      /\ \A j \in 1 .. L - 1 : stream'[j] = stream[j + 1]
  BY DEF WellTyped
<1>2. PICK pos \in [1 .. L + 1 -> Nat \X Nat] : Chain(pos)
  BY DEF OnTrack
<1>3. PICK q \in [1 .. L -> Nat \X Nat] : \A j \in 1 .. L : q[j] = pos[j + 1]
  <2> DEFINE f == [j \in 1 .. L |-> pos[j + 1]]
  <2>1. f \in [1 .. L -> Nat \X Nat] /\ \A j \in 1 .. L : f[j] = pos[j + 1]
    BY <1>1, <1>2
  <2> HIDE DEF f
  <2>2. QED
    BY <2>1
<1>4. Chain(q)'
  <2>1. q[1] = ReaderPlace'
    BY <1>1, <1>2, <1>3 DEF Chain
  <2>2. WriterAt(q[Len(stream) + 1])'
    <3>1. SUFFICES ASSUME NEW r, r = q[Len(stream') + 1] PROVE WriterAt(r)'
      OBVIOUS
    <3>2. r = pos[L + 1] /\ WriterAt(r)
      BY <1>1, <1>2, <1>3, <3>1 DEF Chain
    <3>3. QED
      BY <3>2 DEF WriterAt, Begun
  <2>3. ASSUME NEW j \in 1 .. L - 1
        PROVE  IsUnit(stream'[j], sent, q[j]) /\ q[j + 1] = After(sent, q[j])
    <3>1. j + 1 \in 1 .. L /\ j \in 1 .. L
      BY <1>1
    <3>2. q[j] = pos[j + 1] /\ q[j + 1] = pos[(j + 1) + 1] /\ stream'[j] = stream[j + 1]
      BY <1>1, <1>3, <3>1
    <3>3. IsUnit(stream[j + 1], sent, pos[j + 1]) /\ pos[(j + 1) + 1] = After(sent, pos[j + 1])
      BY <1>2, <3>1 DEF Chain
    <3>4. QED
      BY <3>2, <3>3
  <2>4. QED
    BY <1>1, <2>1, <2>2, <2>3 DEF Chain
<1>5. q \in [1 .. Len(stream') + 1 -> Nat \X Nat]
  BY <1>1
<1>6. QED
  BY <1>1, <1>4, <1>5

(* The reader does not touch what the writers have.                         *)
LEMMA SameOut ==
  ASSUME OutOK, UNCHANGED <<out, sent>>
  PROVE  OutOK'
BY DEF OutOK, Begun

(* The reader takes the type of the packet it is in.                        *)
LEMMA ReadTypeStep ==
  ASSUME WellTyped, OutOK, OnTrack, ReadType
  PROVE  WellTyped' /\ OutOK' /\ OnTrack'
<1> DEFINE k == Len(received) + 1
           p == sent[k]
<1>1. /\ rpc = "type" /\ stream # <<>> /\ rpc' = "length" /\ stream' = Tail(stream)
      /\ hdr' = [hdr EXCEPT !.type = IF Head(stream).field = "type"
                                     THEN Head(stream).value ELSE "garbage"]
      /\ UNCHANGED <<left, out, sent, torn, closed, body, received>>
  BY DEF ReadType
<1>2. ReaderPlace = <<k, 1>> /\ ReaderPlace' = <<k, 2>>
  BY <1>1 DEF ReaderPlace
<1>3. Head(stream) = UnitOf(p, 1) /\ k \in 1 .. Len(sent)
  BY <1>1, <1>2, HeadUnit
<1>4. p.length \in Nat /\ p.type \in Types
  BY <1>3, InPacket
<1>5. hdr' = [hdr EXCEPT !.type = p.type]
  BY <1>1, <1>3, Fields DEF UnitOf
<1>6. After(sent, ReaderPlace) = ReaderPlace'
  <2>1. 1 < SizeOf(p)
    BY <1>4 DEF SizeOf
  <2>2. QED
    BY <1>2, <2>1 DEF After
<1>7. stream' \in Seq(AllUnits) /\ \E pos \in [1 .. Len(stream') + 1 -> Nat \X Nat] : Chain(pos)'
  BY <1>1, <1>6, Advance
<1>8. hdr'.type = p.type /\ hdr' \in Headers
  <2>1. hdr \in Headers
    BY DEF WellTyped
  <2>2. QED
    BY <1>4, <1>5, <2>1 DEF Headers
<1> HIDE DEF p
<1>9. WellTyped'
  BY <1>1, <1>7, <1>8 DEF WellTyped
<1>10. OnTrack'
  <2>1. Len(received) < Len(sent)
    BY <1>3 DEF WellTyped
  <2>2. Inside(sent[Len(received) + 1])'
    BY <1>1, <1>8 DEF Inside, p
  <2>3. (rpc # "body" => body = <<>>)'
    BY <1>1 DEF OnTrack
  <2>4. QED
    BY <1>1, <1>7, <2>1, <2>2, <2>3 DEF OnTrack
<1>11. QED
  BY <1>1, <1>9, <1>10, SameOut

(* A packet handled as it was sent. *)
LEMMA Returned ==
  ASSUME WellTyped, OnTrack, Len(received) + 1 \in 1 .. Len(sent),
         received' = Append(received, sent[Len(received) + 1]),
         sent' = sent, rpc' = "type", body' = <<>>,
         \E pos \in [1 .. Len(stream') + 1 -> Nat \X Nat] : Chain(pos)'
  PROVE  OnTrack' /\ received' \in Seq(Handled)
<1> DEFINE n == Len(received)
           p == sent[n + 1]
<1>1. n \in Nat /\ received \in Seq(Handled) /\ Len(sent) \in Nat
  BY DEF WellTyped
<1>2. p \in Handled
  <2>1. p.body \in Seq(AllUnits)
    BY InPacket DEF AllUnits
  <2>2. QED
    BY <2>1, InPacket DEF Handled
<1> HIDE DEF p
<1>3. /\ received' \in Seq(Handled) /\ Len(received') = n + 1 /\ received'[n + 1] = p
      /\ \A i \in 1 .. n : received'[i] = received[i]
  BY <1>1, <1>2 DEF p
<1>4. ASSUME NEW i \in 1 .. n + 1 PROVE received'[i] = sent[i]
  <2>1. CASE i = n + 1
    BY <2>1, <1>3 DEF p
  <2>2. CASE i # n + 1
    <3>1. i \in 1 .. n
      BY <1>1, <2>2
    <3>2. QED
      BY <1>3, <3>1 DEF OnTrack
  <2>3. QED
    BY <2>1, <2>2
<1>5. OnTrack'
  <2>1. Len(received') <= Len(sent') /\ \A i \in 1 .. Len(received') : received'[i] = sent'[i]
    BY <1>1, <1>3, <1>4
  <2>2. QED
    BY <2>1 DEF OnTrack
<1>6. QED
  BY <1>3, <1>5

(* The reader takes the length; a packet without payload is handled at      *)
(* once.                                                                    *)
LEMMA ReadLengthStep ==
  ASSUME WellTyped, OutOK, OnTrack, ReadLength
  PROVE  WellTyped' /\ OutOK' /\ OnTrack'
<1> DEFINE k == Len(received) + 1
           p == sent[k]
<1>1. /\ rpc = "length" /\ stream # <<>> /\ stream' = Tail(stream)
      /\ UNCHANGED <<left, out, sent, torn, closed>>
  BY DEF ReadLength
<1>2. ReaderPlace = <<k, 2>>
  BY <1>1 DEF ReaderPlace
<1>3. Head(stream) = UnitOf(p, 2) /\ k \in 1 .. Len(sent)
  BY <1>1, <1>2, HeadUnit
<1>4. /\ p \in SentPackets /\ p.length \in 0 .. MaxLen /\ p.length \in Nat /\ p.type \in Types
      /\ p.body \in Seq(BodyUnits) /\ Len(p.body) = p.length
      /\ p = [type |-> p.type, length |-> p.length, body |-> p.body]
  BY <1>3, InPacket
<1>5. Head(stream).field = "length" /\ Head(stream).value = p.length
  BY <1>3, Fields DEF UnitOf
<1>6. hdr' = [hdr EXCEPT !.length = p.length] /\ AfterHeader(hdr')
  BY <1>5 DEF ReadLength
<1>7. hdr.type = p.type /\ hdr \in Headers /\ body = <<>>
  BY <1>1 DEF OnTrack, Inside, WellTyped
<1>8. hdr' \in Headers /\ hdr'.type = p.type /\ hdr'.length = p.length
  BY <1>4, <1>6, <1>7 DEF Headers
<1> HIDE DEF p
<1>9. CASE p.length > 0
  <2>1. rpc' = "body" /\ body' = <<>> /\ received' = received
    BY <1>6, <1>8, <1>9 DEF AfterHeader
  <2>2. ReaderPlace' = <<k, 3>>
    BY <2>1 DEF ReaderPlace
  <2>3. After(sent, ReaderPlace) = ReaderPlace'
    <3>1. 2 < SizeOf(p)
      BY <1>4, <1>9 DEF SizeOf
    <3>2. QED
      BY <1>2, <2>2, <3>1 DEF After, p
  <2>4. stream' \in Seq(AllUnits) /\ \E pos \in [1 .. Len(stream') + 1 -> Nat \X Nat] : Chain(pos)'
    BY <1>1, <2>3, Advance
  <2>5. WellTyped'
    <3>1. body' \in Seq(AllUnits)
      BY <2>1
    <3>2. QED
      BY <1>1, <1>8, <2>1, <2>4, <3>1 DEF WellTyped
  <2>6. OnTrack'
    <3>1. Len(received) < Len(sent)
      BY <1>3 DEF WellTyped
    <3>2. Inside(sent[Len(received) + 1])'
      BY <1>1, <1>4, <1>8, <1>9, <2>1 DEF Inside, p
    <3>3. QED
      BY <1>1, <2>1, <2>4, <3>1, <3>2 DEF OnTrack
  <2>7. QED
    BY <1>1, <2>5, <2>6, SameOut
<1>10. CASE ~ p.length > 0
  <2>1. p.length = 0 /\ p.body = <<>>
    <3>1. p.length = 0
      BY <1>4, <1>10
    <3>2. QED
      BY <1>4, <3>1, EmptySeq
  <2>2. /\ received' = Append(received, [type |-> hdr'.type, length |-> hdr'.length, body |-> <<>>])
        /\ rpc' = "type" /\ body' = <<>>
    BY <1>6, <1>8, <1>10 DEF AfterHeader, Return
  <2>3. received' = Append(received, p)
    BY <1>4, <1>8, <2>1, <2>2
  <2>4. ReaderPlace' = <<k + 1, 1>>
    <3>1. Len(received') = k
      BY <2>3 DEF WellTyped
    <3>2. QED
      BY <2>2, <3>1 DEF ReaderPlace
  <2>5. After(sent, ReaderPlace) = ReaderPlace'
    <3>1. SizeOf(p) = 2
      BY <2>1 DEF SizeOf
    <3>2. QED
      BY <1>2, <2>4, <3>1 DEF After, p
  <2>6. stream' \in Seq(AllUnits) /\ \E pos \in [1 .. Len(stream') + 1 -> Nat \X Nat] : Chain(pos)'
    BY <1>1, <2>5, Advance
  <2>7. OnTrack' /\ received' \in Seq(Handled)
    BY <1>1, <1>3, <2>2, <2>3, <2>6, Returned DEF p
  <2>8. WellTyped'
    <3>1. body' \in Seq(AllUnits)
      BY <2>2
    <3>2. QED
      BY <1>1, <1>8, <2>2, <2>6, <2>7, <3>1 DEF WellTyped
  <2>9. QED
    BY <1>1, <2>7, <2>8, SameOut
<1>11. QED
  BY <1>9, <1>10

(* The reader takes a unit of payload; the last one completes the packet.   *)
LEMMA ReadBodyStep ==
  ASSUME WellTyped, OutOK, OnTrack, ReadBody
  PROVE  WellTyped' /\ OutOK' /\ OnTrack'
<1> DEFINE k == Len(received) + 1
           p == sent[k]
           m == Len(body)
           b == Append(body, Head(stream))
<1>1. /\ rpc = "body" /\ stream # <<>> /\ stream' = Tail(stream)
      /\ UNCHANGED <<left, out, sent, torn, closed, hdr>>
      /\ IF Len(b) = hdr.length THEN Return(hdr, b)
         ELSE body' = b /\ UNCHANGED <<rpc, received>>
  BY DEF ReadBody
<1>2. ReaderPlace = <<k, 3 + m>>
  BY <1>1 DEF ReaderPlace
<1>3. Head(stream) = UnitOf(p, 3 + m) /\ k \in 1 .. Len(sent)
  BY <1>1, <1>2, HeadUnit
<1>4. /\ p \in SentPackets /\ p.length \in Nat /\ p.body \in Seq(BodyUnits) /\ Len(p.body) = p.length
      /\ p = [type |-> p.type, length |-> p.length, body |-> p.body]
  BY <1>3, InPacket
<1>5. /\ hdr.type = p.type /\ hdr.length = p.length /\ m < p.length
      /\ \A i \in 1 .. m : body[i] = p.body[i]
  BY <1>1 DEF OnTrack, Inside
<1>6. m \in Nat /\ body \in Seq(AllUnits) /\ Head(stream) \in AllUnits
  BY <1>1 DEF WellTyped
<1>7. Head(stream) = p.body[m + 1]
  <2>1. 3 + m # 1 /\ 3 + m # 2 /\ (3 + m) - 2 = m + 1
    BY <1>6
  <2>2. QED
    BY <1>3, <2>1 DEF UnitOf
<1> HIDE DEF p
<1>8. /\ b \in Seq(AllUnits) /\ Len(b) = m + 1 /\ b[m + 1] = Head(stream)
      /\ \A i \in 1 .. m : b[i] = body[i]
  BY <1>6
<1> HIDE DEF b
<1>9. ASSUME NEW i \in 1 .. m + 1 PROVE b[i] = p.body[i]
  <2>1. CASE i = m + 1
    BY <2>1, <1>7, <1>8
  <2>2. CASE i # m + 1
    <3>1. i \in 1 .. m
      BY <1>6, <2>2
    <3>2. QED
      BY <1>5, <1>8, <3>1
  <2>3. QED
    BY <2>1, <2>2
<1>10. CASE m + 1 = p.length
  <2>1. b = p.body
    <3>1. Len(b) = Len(p.body) /\ \A i \in 1 .. Len(b) : b[i] = p.body[i]
      BY <1>4, <1>8, <1>9, <1>10
    <3>2. QED
      BY <1>4, <1>8, <3>1, SameElements
  <2>2. received' = Append(received, [type |-> hdr.type, length |-> hdr.length, body |-> b])
        /\ rpc' = "type" /\ body' = <<>>
    BY <1>1, <1>5, <1>8, <1>10 DEF Return
  <2>3. received' = Append(received, p)
    BY <1>4, <1>5, <2>1, <2>2
  <2>4. ReaderPlace' = <<k + 1, 1>>
    <3>1. Len(received') = k
      BY <2>3 DEF WellTyped
    <3>2. QED
      BY <2>2, <3>1 DEF ReaderPlace
  <2>5. After(sent, ReaderPlace) = ReaderPlace'
    <3>1. ~ 3 + m < SizeOf(p)
      BY <1>4, <1>6, <1>10 DEF SizeOf
    <3>2. QED
      BY <1>2, <2>4, <3>1 DEF After, p
  <2>6. stream' \in Seq(AllUnits) /\ \E pos \in [1 .. Len(stream') + 1 -> Nat \X Nat] : Chain(pos)'
    BY <1>1, <2>5, Advance
  <2>7. OnTrack' /\ received' \in Seq(Handled)
    BY <1>1, <1>3, <2>2, <2>3, <2>6, Returned DEF p
  <2>8. WellTyped'
    <3>1. body' \in Seq(AllUnits)
      BY <2>2
    <3>2. QED
      BY <1>1, <2>2, <2>6, <2>7, <3>1 DEF WellTyped
  <2>9. QED
    BY <1>1, <2>7, <2>8, SameOut
<1>11. CASE m + 1 # p.length
  <2>1. body' = b /\ rpc' = rpc /\ received' = received
    BY <1>1, <1>5, <1>8, <1>11
  <2>2. ReaderPlace' = <<k, 3 + (m + 1)>>
    BY <1>1, <1>8, <2>1 DEF ReaderPlace
  <2>3. After(sent, ReaderPlace) = ReaderPlace'
    <3>1. 3 + m < SizeOf(p) /\ 3 + m + 1 = 3 + (m + 1)
      BY <1>4, <1>5, <1>6, <1>11 DEF SizeOf
    <3>2. QED
      BY <1>2, <2>2, <3>1 DEF After, p
  <2>4. stream' \in Seq(AllUnits) /\ \E pos \in [1 .. Len(stream') + 1 -> Nat \X Nat] : Chain(pos)'
    BY <1>1, <2>3, Advance
  <2>5. WellTyped'
    BY <1>1, <1>8, <2>1, <2>4 DEF WellTyped
  <2>6. OnTrack'
    <3>1. Len(received) < Len(sent)
      BY <1>3 DEF WellTyped
    <3>2. Len(b) < p.length
      BY <1>4, <1>5, <1>6, <1>8, <1>11
    <3>3. \A i \in 1 .. Len(b) : b[i] = p.body[i]
      BY <1>8, <1>9
    <3>4. Inside(sent[Len(received) + 1])'
      BY <1>1, <1>5, <2>1, <3>2, <3>3 DEF Inside, p
    <3>5. /\ Len(received') <= Len(sent')
          /\ \A n \in 1 .. Len(received') : received'[n] = sent'[n]
      BY <1>1, <2>1 DEF OnTrack
    <3>6. QED
      BY <1>1, <2>1, <2>4, <3>1, <3>4, <3>5 DEF OnTrack
  <2>7. QED
    BY <1>1, <2>5, <2>6, SameOut
<1>12. QED
  BY <1>10, <1>11

-----------------------------------------------------------------------------
(* What was written to the end has been handled when the reader is at the   *)
(* end of the stream.                                                       *)
WrittenHandled ==
  /\ written \in Int /\ written <= Len(received)
  /\ \A n \in 1 .. written : received[n] = sent[n]

(* When the stream is empty the reader is where the writers are.            *)
LEMMA AtTheEnd ==
  ASSUME WellTyped, OnTrack, stream = <<>>
  PROVE  WrittenHandled
<1>1. Len(stream) = 0 /\ Len(sent) \in Nat /\ Len(received) \in Nat
  BY DEF WellTyped
<1>2. PICK pos \in [1 .. 1 -> Nat \X Nat] : Chain(pos)
  BY <1>1 DEF OnTrack
<1>3. PICK p : p = ReaderPlace /\ WriterAt(p)
  BY <1>1, <1>2 DEF Chain
<1>4. p[1] = Len(received) + 1
  BY <1>3 DEF ReaderPlace
<1>5. CASE \E w \in Writers : Begun(w)
  <2>1. p[1] = Len(sent) /\ written = Len(sent) - 1
    BY <1>3, <1>5 DEF WriterAt, written
  <2>2. written = Len(received)
    BY <1>1, <1>4, <2>1
  <2>3. QED
    BY <1>1, <2>2 DEF OnTrack, WrittenHandled
<1>6. CASE ~ \E w \in Writers : Begun(w)
  <2>1. p[1] = Len(sent) + 1 /\ written = Len(sent)
    BY <1>3, <1>6 DEF WriterAt, written
  <2>2. written = Len(received)
    BY <1>1, <1>4, <2>1
  <2>3. QED
    BY <1>1, <2>2 DEF OnTrack, WrittenHandled
<1>7. QED
  BY <1>5, <1>6

(* Past the end, whatever is handled comes after what was written to the    *)
(* end.                                                                     *)
LEMMA GoneOn ==
  ASSUME WellTyped, WrittenHandled, Eof, UNCHANGED <<out, sent, stream, closed>>,
         received' = received \/ \E r \in Handled : received' = Append(received, r)
  PROVE  Beyond' /\ received' \in Seq(Handled)
<1>1. received \in Seq(Handled) /\ Len(received) \in Nat
  BY DEF WellTyped
<1>2. /\ received' \in Seq(Handled) /\ Len(received) <= Len(received')
      /\ \A n \in 1 .. Len(received) : received'[n] = received[n]
  <2>1. CASE received' = received
    BY <1>1, <2>1
  <2>2. CASE \E r \in Handled : received' = Append(received, r)
    BY <1>1, <2>2
  <2>3. QED
    BY <2>1, <2>2
<1>3. written' = written
  BY DEF written, Begun
<1>4. written \in Int /\ written <= Len(received) /\ \A n \in 1 .. written : received[n] = sent[n]
  BY DEF WrittenHandled
<1> HIDE DEF written
<1>5. written <= Len(received') /\ \A n \in 1 .. written : received'[n] = sent[n]
  BY <1>1, <1>2, <1>4
<1>6. Beyond'
  BY <1>3, <1>5 DEF Beyond, Eof
<1>7. QED
  BY <1>2, <1>6

(* The two ways of proto_recv_packet to meet the end of the stream.         *)
LEMMA EofStep ==
  ASSUME WellTyped, OutOK, WrittenHandled, ReadHeaderEof \/ ReadBodyEof
  PROVE  WellTyped' /\ OutOK' /\ Beyond'
<1>1. Eof /\ UNCHANGED <<left, out, sent, torn, stream, closed, hdr>>
  BY DEF ReadHeaderEof, ReadBodyEof
<1>2. /\ hdr \in Headers /\ body \in Seq(AllUnits) /\ <<>> \in Seq(AllUnits)
      /\ rpc \in {"type", "length", "body", "left"}
  BY DEF WellTyped
<1>3. \A b \in Seq(AllUnits) : [type |-> hdr.type, length |-> hdr.length, body |-> b] \in Handled
  BY <1>2 DEF Headers, Handled
<1>4. /\ received' = received \/ \E r \in Handled : received' = Append(received, r)
      /\ rpc' \in {"type", "length", "body", "left"} /\ body' \in Seq(AllUnits)
  <2>1. CASE ReadHeaderEof
    BY <2>1, <1>2, <1>3 DEF ReadHeaderEof, AfterHeader, Return
  <2>2. CASE ReadBodyEof
    BY <2>2, <1>2, <1>3 DEF ReadBodyEof, Return
  <2>3. QED
    BY <2>1, <2>2
<1>5. Beyond' /\ received' \in Seq(Handled)
  BY <1>1, <1>4, GoneOn
<1>6. WellTyped'
  BY <1>1, <1>4, <1>5 DEF WellTyped
<1>7. QED
  BY <1>1, <1>5, <1>6, SameOut

(* Every step keeps the inductive invariant.                                *)
LEMMA StepInv == IInv /\ [Next]_vars => IInv'
<1> SUFFICES ASSUME IInv, [Next]_vars, ~torn' PROVE WellTyped' /\ OutOK' /\ (OnTrack' \/ Beyond')
  BY DEF IInv
<1>1. ~torn
  BY DEF Next, Reader, Send, WriteUnit, Close, ReadType, ReadLength, ReadHeaderEof, ReadBody,
         ReadBodyEof, vars
<1>2. WellTyped /\ OutOK /\ (OnTrack \/ Beyond)
  BY <1>1 DEF IInv
<1>3. CASE UNCHANGED vars
  <2>1. WellTyped' /\ OutOK'
    BY <1>2, <1>3, SameOut DEF vars, WellTyped
  <2>2. ASSUME OnTrack PROVE OnTrack'
    BY <1>3, <2>2, SameTrack DEF vars
  <2>3. ASSUME Beyond PROVE Beyond'
    BY <1>3, <2>3 DEF vars, Beyond, written, Begun
  <2>4. QED
    BY <1>2, <2>1, <2>2, <2>3
<1>4. CASE Next /\ OnTrack
  <2>1. ASSUME NEW w \in Writers, NEW p \in Packets, Send(w, p) PROVE WellTyped' /\ OutOK' /\ OnTrack'
    BY <1>2, <1>4, <2>1, SendStep
  <2>2. ASSUME NEW w \in Writers, WriteUnit(w) PROVE WellTyped' /\ OutOK' /\ OnTrack'
    BY <1>2, <1>4, <2>2, WriteStep
  <2>3. CASE Close
    <3>1. WellTyped'
      BY <1>2, <2>3 DEF Close, WellTyped
    <3>2. OutOK' /\ OnTrack'
      BY <1>2, <1>4, <2>3, SameTrack DEF Close
    <3>3. QED
      BY <3>1, <3>2
  <2>4. CASE ReadType
    BY <1>2, <1>4, <2>4, ReadTypeStep
  <2>5. CASE ReadLength
    BY <1>2, <1>4, <2>5, ReadLengthStep
  <2>6. CASE ReadBody
    BY <1>2, <1>4, <2>6, ReadBodyStep
  <2>7. CASE ReadHeaderEof \/ ReadBodyEof
    <3>1. stream = <<>>
      BY <2>7 DEF ReadHeaderEof, ReadBodyEof, Eof
    <3>2. WrittenHandled
      BY <1>2, <1>4, <3>1, AtTheEnd
    <3>3. QED
      BY <1>2, <2>7, <3>2, EofStep
  <2>8. QED
    BY <1>4, <2>1, <2>2, <2>3, <2>4, <2>5, <2>6, <2>7 DEF Next, Reader
<1>5. CASE Next /\ Beyond
  <2>1. closed /\ stream = <<>>
    BY <1>5 DEF Beyond
  <2>2. ReadHeaderEof \/ ReadBodyEof
    BY <1>5, <2>1 DEF Next, Reader, Send, WriteUnit, Close, ReadType, ReadLength, ReadBody
  <2>3. written \in Int
    BY <1>2 DEF written, WellTyped
  <2>4. WrittenHandled
    BY <1>5, <2>3 DEF Beyond, WrittenHandled
  <2>5. QED
    BY <1>2, <2>2, <2>4, EofStep
<1>6. QED
  BY <1>2, <1>3, <1>4, <1>5

(* While no writer has written inside another's packet, the units in the    *)
(* stream lead, one after the other, from the reader's place to the         *)
(* writers', or the stream has ended and all that was written to the end    *)
(* has been handled.                                                        *)
THEOREM Invariance == Spec => []IInv
<1>1. Init => IInv
  BY InitInv
<1>2. IInv /\ [Next]_vars => IInv'
  BY StepInv
<1>3. QED
  BY <1>1, <1>2, PTL DEF Spec

(* On an open connection the reader is on track, and what it has handled    *)
(* is a prefix of what was sent.                                            *)
LEMMA PrefixOfSent == IInv => PacketsAsSent
<1> SUFFICES ASSUME IInv, ~closed, ~torn PROVE IsPrefix(received, sent)
  BY DEF PacketsAsSent
<1>1. WellTyped /\ OnTrack
  BY DEF IInv, Beyond
<1>2. /\ Len(received) <= Len(sent) /\ Len(received) \in Nat /\ Len(sent) \in Nat
      /\ \A i \in 1 .. Len(received) : received[i] = sent[i]
  <2>1. Len(received) \in Nat /\ Len(sent) \in Nat
    BY <1>1 DEF WellTyped
  <2>2. QED
    BY <1>1, <2>1 DEF OnTrack
<1> DEFINE n == Len(received)
           a == SubSeq(received, 1, n)
           b == SubSeq(sent, 1, n)
<1>3. a = b
  <2>1. \A i \in 1 .. n : received[i] = sent[i] /\ sent[i] \in SentPackets /\ received[i] \in SentPackets
    <3>1. SUFFICES ASSUME NEW i \in 1 .. n
                   PROVE  received[i] = sent[i] /\ sent[i] \in SentPackets
      OBVIOUS
    <3>2. i \in 1 .. Len(sent)
      BY <1>2
    <3>3. QED
      BY <1>1, <1>2, <3>2 DEF WellTyped
  <2>2. /\ a \in Seq(SentPackets) /\ Len(a) = IF 1 <= n THEN n - 1 + 1 ELSE 0
        /\ \A i \in 1 .. n - 1 + 1 : a[i] = received[1 + i - 1]
    BY <1>2, <2>1, SubSeqProperties
  <2>3. /\ b \in Seq(SentPackets) /\ Len(b) = IF 1 <= n THEN n - 1 + 1 ELSE 0
        /\ \A i \in 1 .. n - 1 + 1 : b[i] = sent[1 + i - 1]
    BY <1>2, <2>1, SubSeqProperties
  <2> HIDE DEF a, b
  <2>4. Len(a) = n /\ Len(b) = n
    <3>1. \A m \in Nat : (IF 1 <= m THEN m - 1 + 1 ELSE 0) = m
      OBVIOUS
    <3>2. (IF 1 <= n THEN n - 1 + 1 ELSE 0) = n
      BY <1>2, <3>1
    <3>3. QED
      BY <2>2, <2>3, <3>2
  <2>5. \A i \in 1 .. n : a[i] = b[i]
    <3>1. SUFFICES ASSUME NEW i \in 1 .. n PROVE a[i] = b[i]
      OBVIOUS
    <3>2. i \in 1 .. n - 1 + 1 /\ 1 + i - 1 = i
      BY <1>2
    <3>3. QED
      BY <2>1, <2>2, <2>3, <3>2
  <2>6. QED
    BY <2>2, <2>3, <2>4, <2>5, SameElements
<1>4. QED
  BY <1>2, <1>3 DEF IsPrefix

(* proto_send_packet and proto_recv_packet: while the connection is open    *)
(* and no thread has written inside another's packet, every packet          *)
(* handled is a packet sent, whole, in order and once; for any threads,     *)
(* packet types, lengths and numbers of packets.                            *)
THEOREM PacketsAsSentSafe == Spec => []PacketsAsSent
BY Invariance, PrefixOfSent, PTL

(* Before and after the end of the stream, what was written to the end is   *)
(* handled as it was sent.                                                  *)
LEMMA InvWhole == IInv => WholeBeforeEof
<1> SUFFICES ASSUME IInv, ~torn
             PROVE  /\ \A n \in 1 .. written : n <= Len(received) => received[n] = sent[n]
                    /\ rpc = "left" => Len(received) >= written
  BY DEF WholeBeforeEof
<1>1. WellTyped /\ (OnTrack \/ Beyond)
  BY DEF IInv
<1>2. written \in Int /\ Len(received) \in Nat
  BY <1>1 DEF written, WellTyped
<1> HIDE DEF written
<1>3. CASE OnTrack
  BY <1>2, <1>3 DEF OnTrack
<1>4. CASE Beyond
  BY <1>2, <1>4 DEF Beyond
<1>5. QED
  BY <1>1, <1>3, <1>4

(* proto_recv_packet takes a short count for a whole header and a short     *)
(* payload for a whole one, but this never touches a packet that was        *)
(* written to the end: it is handled as it was sent, and before the         *)
(* reader leaves.                                                           *)
THEOREM WholeBeforeEofSafe == Spec => []WholeBeforeEof
BY Invariance, InvWhole, PTL
=============================================================================
