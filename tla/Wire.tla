-------------------------------- MODULE Wire --------------------------------
(***************************************************************************)
(* One direction of a Bavarde connection: proto_send_packet on one end,     *)
(* proto_recv_packet on the other (hw5/src/protocol.c), over a byte stream. *)
(*                                                                          *)
(* A packet is a type, a payload length and that many units of payload; the *)
(* header is sent and received field by field, since rio_writen and         *)
(* rio_readn move as many bytes at a time as the socket takes or has.       *)
(* Several threads may write: the client service thread answers on the      *)
(* descriptor on which the mailbox service thread delivers, and neither     *)
(* takes a lock, so that one may write inside the other's packet.           *)
(***************************************************************************)
EXTENDS Naturals, Sequences, SequencesExt

CONSTANTS
  Writers,     \* threads that send on this direction
  Types,       \* packet types
  MaxLen,      \* bound: units of payload in a packet
  MaxPackets,  \* bound: packets in all
  MaxReceived, \* bound: packets handled by the reader
  Closes       \* the writing end may close the connection

ASSUME ConstantsOK ==
  /\ MaxLen \in Nat /\ MaxPackets \in Nat /\ MaxReceived \in Nat
  /\ Closes \in BOOLEAN

VARIABLES
  left,      \* packets that may still be sent
  out,       \* units of its packet a writer has still to write
  sent,      \* packets of which something has been written, in that order
  torn,      \* history: a writer has written inside another's packet
  stream,    \* units written and not yet read
  closed,    \* the writing end has closed the connection
  hdr,       \* the reader's header storage, reused from packet to packet
  rpc,       \* what the reader reads next: "type", "length", "body" or "left"
  body,      \* payload units read
  received   \* packets proto_recv_packet has returned with success

vars == <<left, out, sent, torn, stream, closed, hdr, rpc, body, received>>

Packets == [type : Types, length : 0 .. MaxLen]
Unit(field, value) == [field |-> field, value |-> value]

(* The units of packet p, the k-th from the last; a payload unit is named   *)
(* for its packet and its place.                                            *)
Payload(k, p) == [i \in 1 .. p.length |-> Unit("body", <<k, i>>)]
Units(k, p) ==
  <<Unit("type", p.type), Unit("length", p.length)>> \o Payload(k, p)

Garbage == [type |-> "garbage", length |-> 0]

(* malloc leaves the first header uninitialised; what matters of it is      *)
(* whether its length is zero.                                              *)
Init ==
  /\ left = MaxPackets
  /\ out = [w \in Writers |-> <<>>]
  /\ sent = <<>>
  /\ torn = FALSE
  /\ stream = <<>>
  /\ closed = FALSE
  /\ \E n \in 0 .. MaxLen : hdr = [Garbage EXCEPT !.length = n]
  /\ rpc = "type"
  /\ body = <<>>
  /\ received = <<>>

-----------------------------------------------------------------------------
(* A thread calls proto_send_packet. *)
Send(w, p) ==
  /\ ~closed /\ out[w] = <<>> /\ left > 0
  /\ left' = left - 1
  /\ out' = [out EXCEPT ![w] = Units(left, p)]
  /\ UNCHANGED <<sent, torn, stream, closed, hdr, rpc, body, received>>

(* Between the first and the last unit of its packet. *)
Begun(w) == out[w] # <<>> /\ Head(out[w]).field # "type"

(* The rio_writen of the header, then that of the payload.  The first unit  *)
(* gives the packet its place in the stream.                                *)
WriteUnit(w) ==
  /\ ~closed /\ out[w] # <<>>
  /\ stream' = Append(stream, Head(out[w]))
  /\ out' = [out EXCEPT ![w] = Tail(@)]
  /\ sent' = IF Begun(w) THEN sent
             ELSE Append(sent, [type |-> out[w][1].value, length |-> out[w][2].value,
                                body |-> SubSeq(out[w], 3, Len(out[w]))])
  /\ torn' = (torn \/ \E v \in Writers \ {w} : Begun(v))
  /\ UNCHANGED <<left, closed, hdr, rpc, body, received>>

(* The writing end closes, possibly in the middle of a packet. *)
Close ==
  /\ Closes /\ ~closed
  /\ closed' = TRUE
  /\ UNCHANGED <<left, out, sent, torn, stream, hdr, rpc, body, received>>

-----------------------------------------------------------------------------
Eof == closed /\ stream = <<>>

(* proto_recv_packet returns 0: the packet is handled and the next begins.  *)
Return(h, b) ==
  /\ received' = Append(received, [type |-> h.type, length |-> h.length, body |-> b])
  /\ rpc' = "type"
  /\ body' = <<>>

(* Mutant of AfterHeader: a payload is awaited even when there is none.     *)
AfterHeaderAlways(h) ==
  rpc' = "body" /\ body' = <<>> /\ UNCHANGED received

(* What follows the header: the payload, if the header says there is one.   *)
AfterHeader(h) ==
  IF h.length > 0
  THEN rpc' = "body" /\ body' = <<>> /\ UNCHANGED received
  ELSE Return(h, <<>>)

(* A unit arrives where a field is expected; one that is not such a field   *)
(* is read as some value of it.                                             *)
ReadType ==
  /\ rpc = "type" /\ Len(received) < MaxReceived
  /\ stream # <<>>
  /\ hdr' = [hdr EXCEPT !.type = IF Head(stream).field = "type"
                                 THEN Head(stream).value ELSE "garbage"]
  /\ stream' = Tail(stream)
  /\ rpc' = "length"
  /\ UNCHANGED <<left, out, sent, torn, closed, body, received>>

(* Mutant of ReadLength: the payload is left in the stream. *)
ReadLengthOnly ==
  /\ rpc = "length" /\ stream # <<>>
  /\ hdr' = [hdr EXCEPT !.length = Head(stream).value]
  /\ Return(hdr', <<>>)
  /\ stream' = Tail(stream)
  /\ UNCHANGED <<left, out, sent, torn, closed>>

ReadLength ==
  /\ rpc = "length" /\ stream # <<>>
  /\ \E n \in IF Head(stream).field = "length" THEN {Head(stream).value} ELSE 0 .. MaxLen :
       /\ hdr' = [hdr EXCEPT !.length = n]
       /\ AfterHeader(hdr')
  /\ stream' = Tail(stream)
  /\ UNCHANGED <<left, out, sent, torn, closed>>

(* rio_readn stops at the end of file with what it has; proto_recv_packet   *)
(* takes any count that is not negative for a whole header.                 *)
ReadHeaderEof ==
  /\ rpc \in {"type", "length"} /\ Len(received) < MaxReceived
  /\ Eof
  /\ AfterHeader(hdr)
  /\ UNCHANGED <<left, out, sent, torn, stream, closed, hdr>>

ReadBody ==
  /\ rpc = "body" /\ stream # <<>>
  /\ LET b == Append(body, Head(stream)) IN
     IF Len(b) = hdr.length
     THEN Return(hdr, b)
     ELSE body' = b /\ UNCHANGED <<rpc, received>>
  /\ stream' = Tail(stream)
  /\ UNCHANGED <<left, out, sent, torn, closed, hdr>>

(* Of the payload, only a count of zero makes it fail. *)
ReadBodyEof ==
  /\ rpc = "body" /\ Eof
  /\ IF body = <<>>
     THEN rpc' = "left" /\ UNCHANGED <<body, received>>
     ELSE Return(hdr, body)
  /\ UNCHANGED <<left, out, sent, torn, stream, closed, hdr>>

Reader == ReadType \/ ReadLength \/ ReadHeaderEof \/ ReadBody \/ ReadBodyEof

Next == \/ \E w \in Writers : (\E p \in Packets : Send(w, p)) \/ WriteUnit(w)
        \/ Close \/ Reader

Spec == Init /\ [][Next]_vars

(* The reader's thread and a writer inside proto_send_packet are scheduled. *)
FairSpec == Spec /\ WF_vars(Reader) /\ \A w \in Writers : WF_vars(WriteUnit(w))

-----------------------------------------------------------------------------
(* protocol.h: "Each packet consists of a fixed-length header, [...]        *)
(* followed by a payload".  While the connection is open and no thread has  *)
(* written inside another's packet, every packet handled is a packet sent,  *)
(* whole, in the order of the first bytes and once.                         *)
PacketsAsSent == ~closed /\ ~torn => IsPrefix(received, sent)

(* A packet of which something has been written is handled, under the same  *)
(* conditions.                                                              *)
PacketsArrive ==
  \A n \in 1 .. MaxReceived :
    Len(sent) >= n ~> (Len(received) >= n \/ closed \/ torn)

(* Packets written to the end.                                              *)
written == IF \E w \in Writers : Begun(w) THEN Len(sent) - 1 ELSE Len(sent)

(* The end of the stream does no harm to what came before it: every packet  *)
(* written to the end is handled as it was sent, and the reader does not    *)
(* leave before that.                                                       *)
WholeBeforeEof ==
  ~torn => /\ \A n \in 1 .. written : n <= Len(received) => received[n] = sent[n]
           /\ rpc = "left" => Len(received) >= written
=============================================================================
