---------------------------- MODULE NoCrashProofs ----------------------------
(***************************************************************************)
(* The proof of NoCrash of Server, for any finite set of connections: until  *)
(* a mailbox is unregistered, a client goes or a shutdown begins, a LOGOUT   *)
(* on a connection that is not logged in is the worst there is.  The mutex   *)
(* it leaves locked stops the threads that need it, and keeps threads that   *)
(* then share a descriptor number from each other's sockets and nodes.       *)
(***************************************************************************)
EXTENDS ServerProofs

(* What NoCrash is about. *)
Quiet ==
  /\ main = "accepting"
  /\ DirBoxes = DOMAIN box
  /\ \A c \in Conns : peer[c] # "gone"

Closing == {"shut", "close"}
Live == {c \in Conns : thr[c].pc # "unborn"}

(* An open socket has a client, and a message is from a mailbox.            *)
SocketsKnown == \A f \in Fds : sock[f].st # "free" => sock[f].conn \in Conns

FromKnown(e) == e.kind = "message" => e.from \in DOMAIN box
SendersKnown ==
  /\ \A b \in DOMAIN box : \A i \in DOMAIN box[b].queue : FromKnown(box[b].queue[i])
  /\ \A b \in Boxes : svc[b].pc = "rrcpt" => svc[b].entry[1].from \in DOMAIN box

(* The list of descriptors, or a thread that has just taken a node out of   *)
(* it, says that mailbox b is served on descriptor f.                       *)
Listed(f, b) == \E i \in DOMAIN fds : fds[i].fd = f /\ fds[i].box = b
TakenOut(f, b) == \E c \in Conns : /\ thr[c].pc = "unregister"
                                   /\ thr[c].fd = f /\ thr[c].rcv = b

(* No two threads have a descriptor as long as the mutex of the list is not *)
(* leaked.  The thread that leaks it is the last one to close its           *)
(* descriptor, which is its own until then and has no node in the list.     *)
Unshared ==
  ~fdLocked => /\ \A c, d \in Live : thr[c].fd = thr[d].fd => c = d
               /\ \A c \in Live : sock[thr[c].fd].st = "open"

LastCloser ==
  /\ \A c \in Conns : thr[c].pc \in Closing =>
       /\ fdLocked
       /\ sock[thr[c].fd].st # "free"
       /\ \A d \in Conns : thr[d].pc \in Closing => d = c
       /\ \A d \in Live : thr[d].fd = thr[c].fd => d = c
       /\ \A i \in DOMAIN fds : fds[i].fd # thr[c].fd
  /\ \A f \in Fds : sock[f].st = "shut" =>
       \E c \in Conns : thr[c].pc = "close" /\ thr[c].fd = f

Served ==
  /\ \A b \in Boxes : svc[b].pc # "unborn"
       => Listed(svc[b].fd, b) \/ TakenOut(svc[b].fd, b)
  /\ \A c \in Conns : thr[c].pc \in {"loginack", "spawn"}
       => Listed(thr[c].fd, thr[c].rcv) \/ TakenOut(thr[c].fd, thr[c].rcv)
  /\ \A c \in Conns : thr[c].pc = "readself" => Listed(thr[c].fd, thr[c].snd)

Unharmed == crash = "none" /\ \A c \in Conns : thr[c].pc # "hung"

Calm == Unshared /\ LastCloser /\ Served /\ Unharmed

CInv == SocketsKnown /\ SendersKnown /\ (Quiet => Calm)

-----------------------------------------------------------------------------
(* Frames. *)

LEMMA QuietStays ==
  ASSUME UNCHANGED <<main, peer, dir>>, DOMAIN box' = DOMAIN box
  PROVE  Quiet' => Quiet
BY DEF Quiet, DirBoxes

(* What a client service thread may do without touching its socket or the   *)
(* list of descriptors.                                                     *)
ClientMove(c) ==
  /\ Only(c) /\ thr'[c].fd = thr[c].fd
  /\ thr[c].pc \notin {"unborn", "unregister"} \cup Closing
  /\ thr'[c].pc \notin {"unborn", "hung"} \cup Closing
  /\ thr'[c].pc \in {"loginack", "spawn"}
       => thr[c].pc \in {"loginack", "spawn"} /\ thr'[c].rcv = thr[c].rcv
  /\ thr'[c].pc = "readself" => Listed(thr[c].fd, thr'[c].snd)
  /\ crash' = "none"

LEMMA ClientMoved ==
  ASSUME Calm, NEW c \in Conns, ClientMove(c), UNCHANGED <<sock, svc, fds, fdLocked>>
  PROVE  Calm'
<1>1. \A d \in Conns :
        /\ thr'[d].fd = thr[d].fd
        /\ thr'[d].pc # "unborn" <=> thr[d].pc # "unborn"
        /\ thr'[d].pc \in Closing <=> thr[d].pc \in Closing
        /\ thr'[d].pc = "close" <=> thr[d].pc = "close"
        /\ thr[d].pc = "unregister" => thr'[d] = thr[d]
  BY DEF ClientMove, Only, Closing
<1>2. Live' = Live
  BY <1>1 DEF Live
<1>3. Unshared'
  BY <1>1, <1>2 DEF Calm, Unshared, Live
<1>4. LastCloser'
  BY <1>1, <1>2 DEF Calm, LastCloser, Live
<1>5. \A f, b : TakenOut(f, b)
        => \E d \in Conns : thr'[d].pc = "unregister" /\ thr'[d].fd = f /\ thr'[d].rcv = b
  BY <1>1 DEF TakenOut
<1>6. Served'
  <2>1. ASSUME NEW b \in Boxes, svc'[b].pc # "unborn"
        PROVE  (Listed(svc[b].fd, b) \/ TakenOut(svc[b].fd, b))'
    BY <1>5, <2>1 DEF Calm, Served, Listed, TakenOut
  <2>2. ASSUME NEW d \in Conns, thr'[d].pc \in {"loginack", "spawn"}
        PROVE  (Listed(thr[d].fd, thr[d].rcv) \/ TakenOut(thr[d].fd, thr[d].rcv))'
    <3>1. thr[d].pc \in {"loginack", "spawn"} /\ thr'[d].rcv = thr[d].rcv
      BY <2>2 DEF ClientMove, Only
    <3>2. Listed(thr[d].fd, thr[d].rcv) \/ TakenOut(thr[d].fd, thr[d].rcv)
      BY <3>1 DEF Calm, Served
    <3>3. QED
      BY <1>1, <1>5, <3>1, <3>2 DEF Listed, TakenOut
  <2>3. ASSUME NEW d \in Conns, thr'[d].pc = "readself"
        PROVE  Listed(thr[d].fd, thr[d].snd)'
    <3>1. Listed(thr[d].fd, thr'[d].snd)
      BY <2>3 DEF ClientMove, Only, Calm, Served
    <3>2. QED
      BY <1>1, <3>1 DEF Listed
  <2>4. QED
    BY <2>1, <2>2, <2>3 DEF Served
<1>7. Unharmed'
  BY DEF Calm, Unharmed, ClientMove, Only
<1>8. QED
  BY <1>3, <1>4, <1>6, <1>7 DEF Calm

(* What a mailbox service thread may do. *)
LEMMA ServiceMoved ==
  ASSUME Calm, UNCHANGED <<thr, sock, fds, fdLocked>>, crash' = "none",
         \A b \in Boxes : svc'[b].pc # "unborn"
           => svc[b].pc # "unborn" /\ svc'[b].fd = svc[b].fd
  PROVE  Calm'
<1>1. Unshared' /\ LastCloser' /\ Unharmed'
  BY DEF Calm, Unshared, LastCloser, Unharmed, Live
<1>3. Served'
  <2>1. ASSUME NEW b \in Boxes, svc'[b].pc # "unborn"
        PROVE  (Listed(svc[b].fd, b) \/ TakenOut(svc[b].fd, b))'
    BY <2>1 DEF Calm, Served, Listed, TakenOut
  <2>2. QED
    BY <2>1 DEF Calm, Served, Listed, TakenOut
<1>4. QED
  BY <1>1, <1>3 DEF Calm

LEMMA SocketsStay ==
  ASSUME SocketsKnown, \A f \in Fds : sock'[f].st # "free"
           => sock[f].st # "free" /\ sock'[f].conn = sock[f].conn
  PROVE  SocketsKnown'
BY DEF SocketsKnown

(* Entries come from where they were, or are new and known.                 *)
LEMMA SendersStay ==
  ASSUME SendersKnown, DOMAIN box' = DOMAIN box,
         \A b \in DOMAIN box : box'[b].queue = box[b].queue,
         \A b \in Boxes : svc'[b].pc = "rrcpt"
           => svc[b].pc = "rrcpt" /\ svc'[b].entry = svc[b].entry
  PROVE  SendersKnown'
<1>1. \A e : FromKnown(e)' <=> FromKnown(e)
  BY DEF FromKnown
<1>2. QED
  BY <1>1 DEF SendersKnown

LEMMA SendersOfOne ==
  ASSUME Typed, SendersKnown, NEW b, NEW m, box' = [box EXCEPT ![b] = m],
         b \in DOMAIN box => m.queue = box[b].queue,
         \A a \in Boxes : svc'[a].pc = "rrcpt"
           => svc[a].pc = "rrcpt" /\ svc'[a].entry = svc[a].entry
  PROVE  SendersKnown'
<1>1. DOMAIN box' = DOMAIN box
  OBVIOUS
<1>2. \A a \in DOMAIN box : box'[a].queue = box[a].queue
  BY BoxTyped
<1>3. QED
  BY <1>1, <1>2, SendersStay

LEMMA ClientKeeps ==
  ASSUME CInv, NEW c \in Conns, UNCHANGED <<sock, svc, fds, fdLocked>>,
         Quiet' => Quiet, Quiet => ClientMove(c), SendersKnown'
  PROVE  CInv'
<1>1. SocketsKnown'
  BY SocketsStay DEF CInv
<1>2. Quiet' => Calm'
  BY ClientMoved DEF CInv
<1>3. QED
  BY <1>1, <1>2 DEF CInv

Movable == ClientPcs \ ({"unborn", "unregister"} \cup Closing)
Targets == ClientPcs \ ({"unborn", "hung", "readself", "loginack", "spawn"} \cup Closing)

LEMMA GotoMoves ==
  ASSUME Typed, NEW c \in Conns, NEW pc \in ClientPcs, Goto(c, pc),
         pc \in Targets \/ (pc = "spawn" /\ thr[c].pc = "loginack"),
         thr[c].pc \in Movable, crash' = "none"
  PROVE  ClientMove(c)
<1>1. /\ Only(c) /\ thr'[c].pc = pc /\ thr'[c].fd = thr[c].fd
      /\ thr'[c].rcv = thr[c].rcv
  BY Goes
<1>2. QED
  BY <1>1 DEF ClientMove, Targets, Movable, Closing

LEMMA BecomesMoves ==
  ASSUME Typed, NEW c \in Conns, NEW t, thr' = [thr EXCEPT ![c] = t],
         t.fd = thr[c].fd, t.pc \in Targets, thr[c].pc \in Movable, crash' = "none"
  PROVE  ClientMove(c)
<1>1. Only(c) /\ thr'[c] = t
  BY DEF Typed, Only
<1>2. QED
  BY <1>1 DEF ClientMove, Targets, Movable, Closing

LEMMA FinishMoves ==
  ASSUME IInv, NEW c \in Conns, NEW h \in {"noop", "payload"},
         Finish(c) \/ thr' = [Done(c) EXCEPT ![c].hdr = h],
         thr[c].pc \in Movable, crash' = "none"
  PROVE  ClientMove(c)
<1>1. Only(c) /\ thr'[c].pc = "recv" /\ thr'[c].fd = thr[c].fd
  BY Finishes DEF Finish
<1>2. QED
  BY <1>1 DEF ClientMove, Movable, Closing

LEMMA TargetsAre ==
  /\ {"recv", "nack", "ack", "addnode", "findself", "readnode", "notice", "message",
      "unrefsnd", "unrefrcv", "register", "users", "lookup", "remove", "decr", "unlock",
      "done"} \subseteq Targets
  /\ {"created", "recv", "nack", "ack", "register", "addnode", "loginack", "spawn",
      "remove", "users", "lookup", "readnode", "findself", "readself", "notice",
      "message", "unrefsnd", "unrefrcv", "decr", "unlock"} \subseteq Movable
  /\ Targets \subseteq ClientPcs
BY DEF Targets, Movable, ClientPcs, Closing

(* Nothing but where the thread is: starting, leaving, the end of a stream. *)
LEMMA StartAndEnd ==
  ASSUME IInv, CInv, crash = "none", NEW c \in Conns,
         ClientStart(c) \/ ReceiveEof(c) \/ ReceiveError(c) \/ ClientDecr(c) \/ ClientEnd(c)
  PROVE  CInv'
<1>1. Typed
  BY DEF IInv
<1>2. UNCHANGED <<peer, sock, svc, dir, fds, fdLocked, box, main, crash>>
  BY DEF ClientStart, ReceiveEof, ReceiveError, ClientDecr, ClientEnd, clients, registry
<1>3. thr[c].pc \in Movable
  BY TargetsAre DEF ClientStart, ReceiveEof, ReceiveError, ClientDecr, ClientEnd
<1>4. CASE ClientStart(c) \/ ClientDecr(c) \/ ClientEnd(c)
  <2>1. \E pc \in Targets : Goto(c, pc)
    BY <1>4, TargetsAre DEF ClientStart, ClientDecr, ClientEnd
  <2>2. ClientMove(c)
    BY <1>1, <1>2, <1>3, <2>1, TargetsAre, GotoMoves
  <2>3. SendersKnown'
    BY <1>2, SendersStay DEF CInv
  <2>4. QED
    BY <1>2, <2>2, <2>3, QuietStays, ClientKeeps
<1>5. CASE ReceiveEof(c) \/ ReceiveError(c)
  <2>1. PICK t \in Threads :
          /\ thr' = [thr EXCEPT ![c] = t]
          /\ t.pc \in {"recv", "decr", "users", "remove"}
          /\ t.fd = thr[c].fd
    BY <1>1, <1>5, EofGoes
  <2>2. ClientMove(c)
    BY <1>1, <1>2, <1>3, <2>1, TargetsAre, BecomesMoves
  <2>3. SendersKnown'
    BY <1>2, SendersStay DEF CInv
  <2>4. QED
    BY <1>2, <2>2, <2>3, QuietStays, ClientKeeps
<1>6. QED
  BY <1>4, <1>5

LEMMA ReceiveKeeps ==
  ASSUME IInv, CInv, crash = "none", NEW c \in Conns, Receive(c)
  PROVE  CInv'
<1>1. Typed /\ thr[c] \in Threads
  BY DEF IInv, Typed
<1>2. UNCHANGED <<peer, sock, svc, dir, fds, fdLocked, box, main, crash>>
  BY DEF Receive, registry
<1> DEFINE d == sock[thr[c].fd].conn
<1>3. PICK r \in Requests :
        thr' = [thr EXCEPT ![c].pc = Handler(r.type),
                  ![c].req = [type |-> r.type, handle |-> r.handle, conn |-> d],
                  ![c].hdr = CASE r.type = "USERS" -> "USERS"
                               [] r.type = "LOGOUT" -> "LOGOUT"
                               [] OTHER -> "payload"]
  BY DEF Receive
<1> DEFINE h == CASE r.type = "USERS" -> "USERS"
                  [] r.type = "LOGOUT" -> "LOGOUT"
                  [] OTHER -> "payload"
           p == Handler(r.type)
           q == [type |-> r.type, handle |-> r.handle, conn |-> d]
           t == [thr[c] EXCEPT !.pc = p, !.req = q, !.hdr = h]
<1>4. thr' = [thr EXCEPT ![c] = t]
  BY <1>3
<1>5. p \in Targets
  BY TargetsAre DEF Requests, Handler
<1> HIDE DEF h, p, q
<1>6. t.fd = thr[c].fd /\ t.pc = p
  BY <1>1 DEF Threads
<1>7. thr[c].pc \in Movable
  BY TargetsAre DEF Receive
<1> HIDE DEF t
<1>8. ClientMove(c)
  BY <1>1, <1>2, <1>4, <1>5, <1>6, <1>7, BecomesMoves
<1>9. SendersKnown'
  BY <1>2, SendersStay DEF CInv
<1>10. QED
  BY <1>2, <1>8, <1>9, QuietStays, ClientKeeps

LEMMA UsersKeeps ==
  ASSUME IInv, CInv, crash = "none", NEW c \in Conns, Users(c)
  PROVE  CInv'
<1>1. Typed /\ thr[c] \in Threads
  BY DEF IInv, Typed
<1>2. UNCHANGED <<peer, sock, svc, dir, fds, fdLocked, box, main>>
  BY DEF Users, clients, registry
<1> DEFINE r == [thr[c].req EXCEPT !.type = "USERS",
                   !.handle = IF dir = <<>> THEN "none" ELSE "listed"]
           t == [thr[c] EXCEPT !.pc = "findself", !.req = r]
<1>3. thr' = [thr EXCEPT ![c] = t]
  BY DEF Users
<1>4. thr[c].pc \in Movable /\ "findself" \in Targets
  BY TargetsAre DEF Users
<1> HIDE DEF r
<1>5. t.fd = thr[c].fd /\ t.pc = "findself"
  BY <1>1 DEF Threads
<1>6. Quiet => crash' = "none"
  BY DEF Quiet, Users, IInv, Registered
<1> HIDE DEF t
<1>7. Quiet => ClientMove(c)
  BY <1>1, <1>3, <1>4, <1>5, <1>6, BecomesMoves
<1>8. SendersKnown'
  BY <1>2, SendersStay DEF CInv
<1>9. QED
  BY <1>2, <1>7, <1>8, QuietStays, ClientKeeps

(* The two reads of a node after its list has been unlocked.                *)
LEMMA ReadKeeps ==
  ASSUME IInv, CInv, crash = "none", NEW c \in Conns, ReadNode(c) \/ ReadSelf(c)
  PROVE  CInv'
<1>1. Typed /\ ThreadOK(c)
  BY DEF IInv, Locals
<1>2. UNCHANGED <<peer, sock, svc, dir, fds, fdLocked, box, main>>
  BY DEF ReadNode, ReadSelf, clients, registry
<1>3. thr[c].pc \in Movable
  BY TargetsAre DEF ReadNode, ReadSelf
<1>4. \E pc \in Targets : Goto(c, pc)
  BY TargetsAre, AnswerOK DEF ReadNode, ReadSelf
<1>5. ASSUME Quiet PROVE crash' = "none"
  <2>1. CASE ReadNode(c)
    <3>1. thr[c].rcv \in DirBoxes
      BY <1>1, <1>5, <2>1 DEF ReadNode, ThreadOK, Quiet
    <3>2. QED
      BY <2>1, <3>1 DEF ReadNode
  <2>2. CASE ReadSelf(c)
    <3>1. Listed(thr[c].fd, thr[c].snd)
      BY <1>5, <2>2 DEF CInv, Calm, Served, ReadSelf
    <3>2. thr[c].snd \in FdBoxes
      BY <3>1 DEF Listed, FdBoxes
    <3>3. QED
      BY <2>2, <3>2 DEF ReadSelf
  <2>3. QED
    BY <2>1, <2>2
<1>6. Quiet => ClientMove(c)
  BY <1>1, <1>3, <1>4, <1>5, TargetsAre, GotoMoves
<1>7. SendersKnown'
  BY <1>2, SendersStay DEF CInv
<1>8. QED
  BY <1>2, <1>6, <1>7, QuietStays, ClientKeeps

LEMMA FromStays ==
  ASSUME DOMAIN box' = DOMAIN box, NEW e
  PROVE  FromKnown(e)' <=> FromKnown(e)
BY DEF FromKnown

LEMMA SendersAdded ==
  ASSUME Typed, SendersKnown, NEW f \in DOMAIN box, NEW e \in Entries, FromKnown(e),
         box' = Added(f, e),
         \A b \in Boxes : svc'[b].pc = "rrcpt"
           => svc[b].pc = "rrcpt" /\ svc'[b].entry = svc[b].entry
  PROVE  SendersKnown'
<1> DEFINE q == box[f].queue
<1>1. DOMAIN box' = DOMAIN box
  BY DEF Added
<1>2. ASSUME NEW b \in DOMAIN box, NEW i \in DOMAIN box'[b].queue
      PROVE  FromKnown(box'[b].queue[i])
  <2>1. CASE b = f
    <3>1. box[f] \in Mailboxes
      BY BoxTyped
    <3>2. q \in Seq(Entries)
      BY <3>1 DEF Mailboxes
    <3>3. box'[f].queue = Append(q, e)
      BY <3>1 DEF Added, Mailboxes
    <3> HIDE DEF q
    <3>4. /\ Len(q) \in Nat /\ DOMAIN q = 1 .. Len(q)
          /\ DOMAIN Append(q, e) = 1 .. (Len(q) + 1)
          /\ \A j \in 1 .. Len(q) : Append(q, e)[j] = q[j]
          /\ Append(q, e)[Len(q) + 1] = e
      BY <3>2, AppendProperties, LenProperties
    <3>5. \A j \in DOMAIN q : FromKnown(q[j])
      BY DEF SendersKnown, q
    <3>6. i \in DOMAIN q \/ i = Len(q) + 1
      BY <1>2, <2>1, <3>3, <3>4
    <3>7. QED
      BY <2>1, <3>3, <3>4, <3>5, <3>6
  <2>2. CASE b # f
    <3>1. box'[b] = box[b]
      BY <2>2 DEF Added
    <3>2. QED
      BY <1>2, <3>1 DEF SendersKnown
  <2>3. QED
    BY <2>1, <2>2
<1>3. \A b \in Boxes : svc'[b].pc = "rrcpt" => svc'[b].entry[1].from \in DOMAIN box'
  BY <1>1 DEF SendersKnown
<1>4. QED
  BY <1>1, <1>2, <1>3 DEF SendersKnown, FromKnown

LEMMA AddKeeps ==
  ASSUME IInv, CInv, crash = "none", NEW c \in Conns,
         LoginAck(c) \/ AddNotice(c) \/ AddMessage(c)
  PROVE  CInv'
<1>1. Typed /\ ThreadOK(c) /\ NULL \in Pointers /\ thr[c] \in Threads
  BY DEF IInv, Locals, Typed, Pointers
<1>2. UNCHANGED <<peer, sock, svc, dir, fds, fdLocked, main, crash>>
  BY DEF LoginAck, AddNotice, AddMessage, clients, registry
<1>3. PICK f \in DOMAIN box, e \in Entries : box' = Added(f, e) /\ FromKnown(e)
  <2> DEFINE to == thr[c].req.conn
  <2>1. \A k \in {"ack", "nack"} : Notice(k, to) \in Entries /\ FromKnown(Notice(k, to))
    BY <1>1 DEF Notice, Entries, FromKnown, Threads
  <2>2. CASE LoginAck(c) \/ AddNotice(c)
    <3>1. /\ LoginAck(c) => thr[c].rcv \in DOMAIN box
          /\ AddNotice(c) => thr[c].snd \in DOMAIN box
      BY <1>1 DEF LoginAck, AddNotice, ThreadOK, LoggingIn
    <3>2. QED
      BY <2>1, <2>2, <3>1 DEF LoginAck, AddNotice
  <2>3. CASE AddMessage(c)
    <3>1. thr[c].rcv \in DOMAIN box /\ thr[c].snd \in DOMAIN box /\ thr[c].snd \in Pointers
      BY <1>1, <2>3 DEF AddMessage, ThreadOK, Threads
    <3>2. Message(thr[c].snd) \in Entries /\ FromKnown(Message(thr[c].snd))
      BY <3>1 DEF Message, Entries, FromKnown
    <3>3. QED
      BY <2>3, <3>1, <3>2 DEF AddMessage
  <2>4. QED
    BY <2>2, <2>3
<1>4. SendersKnown'
  BY <1>1, <1>2, <1>3, SendersAdded DEF CInv
<1>5. DOMAIN box' = DOMAIN box
  BY <1>3 DEF Added
<1>6. ClientMove(c)
  <2>1. \/ LoginAck(c) /\ Goto(c, "spawn")
        \/ thr[c].pc \in Movable /\ \E pc \in Targets : Goto(c, pc)
    BY TargetsAre DEF LoginAck, AddNotice, AddMessage
  <2>2. LoginAck(c) => thr[c].pc = "loginack" /\ "spawn" \in ClientPcs
    BY DEF LoginAck, ClientPcs
  <2>3. QED
    BY <1>1, <1>2, <2>1, <2>2, TargetsAre, GotoMoves
<1>7. QED
  BY <1>2, <1>4, <1>5, <1>6, QuietStays, ClientKeeps

(* A write on a descriptor that nobody has shut down, to clients that are   *)
(* all there.                                                               *)
LEMMA WriteIsSafe ==
  ASSUME Typed, CInv, Quiet, crash = "none", NEW f \in Fds, sock[f].st # "shut",
         NEW a, Write(f, a)
  PROVE  crash' = "none"
<1>1. sock[f].st = "open" => peer[sock[f].conn] # "gone"
  BY DEF CInv, SocketsKnown, Quiet
<1>2. QED
  BY <1>1 DEF Write

LEMMA AnswerKeeps ==
  ASSUME IInv, CInv, crash = "none", NEW c \in Conns, Ack(c) \/ Nack(c)
  PROVE  CInv'
<1>1. Typed /\ ThreadOK(c) /\ thr[c] \in Threads
  BY DEF IInv, Locals, Typed
<1>2. UNCHANGED <<peer, sock, svc, dir, fds, fdLocked, box, main>>
  BY DEF Ack, Nack, registry
<1>3. thr[c].pc \in Movable /\ thr[c].pc \in {"ack", "nack"}
  BY TargetsAre DEF Ack, Nack
<1>4. ASSUME Quiet PROVE crash' = "none"
  <2>1. thr[c].fd \in Fds /\ c \in Live
    BY <1>1, <1>3 DEF ThreadOK, Live
  <2>2. sock[thr[c].fd].st # "shut"
    <3>1. SUFFICES ASSUME sock[thr[c].fd].st = "shut" PROVE FALSE
      OBVIOUS
    <3>2. PICK d \in Conns : thr[d].pc = "close" /\ thr[d].fd = thr[c].fd
      BY <1>4, <2>1, <3>1 DEF CInv, Calm, LastCloser
    <3>3. c = d
      BY <1>4, <2>1, <3>2 DEF CInv, Calm, LastCloser, Closing
    <3>4. QED
      BY <1>3, <3>2, <3>3
  <2>3. Write(thr[c].fd, thr[c].req.conn)
    BY DEF Ack, Nack
  <2>4. QED
    BY <1>1, <1>4, <2>1, <2>2, <2>3, WriteIsSafe
<1>5. ASSUME crash' = "none" PROVE ClientMove(c)
  <2>1. PICK h \in {"noop", "payload"} :
          \/ thr' = [Done(c) EXCEPT ![c].hdr = h]
          \/ thr' = [thr EXCEPT ![c].pc = "unrefsnd", ![c].hdr = h]
          \/ thr' = [thr EXCEPT ![c].pc = "unrefrcv", ![c].hdr = h]
    BY DEF Ack, Nack
  <2>2. CASE thr' = [Done(c) EXCEPT ![c].hdr = h]
    BY <1>3, <1>5, <2>2, FinishMoves
  <2>3. CASE thr' # [Done(c) EXCEPT ![c].hdr = h]
    <3>1. PICK p \in {"unrefsnd", "unrefrcv"} :
            thr' = [thr EXCEPT ![c].pc = p, ![c].hdr = h]
      BY <2>1, <2>3
    <3> DEFINE t == [thr[c] EXCEPT !.pc = p, !.hdr = h]
    <3>2. thr' = [thr EXCEPT ![c] = t]
      BY <3>1
    <3>3. t.pc = p /\ t.fd = thr[c].fd
      BY <1>1 DEF Threads
    <3>4. p \in Targets
      BY TargetsAre
    <3> HIDE DEF t
    <3>5. QED
      BY <1>1, <1>3, <1>5, <3>2, <3>3, <3>4, BecomesMoves
  <2>4. QED
    BY <2>2, <2>3
<1>6. SendersKnown'
  BY <1>2, SendersStay DEF CInv
<1>7. QED
  BY <1>2, <1>4, <1>5, <1>6, QuietStays, ClientKeeps

LEMMA RefSenders ==
  ASSUME Typed, SendersKnown, NEW b \in DOMAIN box, box' = Ref(b), UNCHANGED svc
  PROVE  SendersKnown' /\ DOMAIN box' = DOMAIN box
<1> DEFINE m == [box[b] EXCEPT !.ref = @ + 1]
<1>1. box[b] \in Mailboxes
  BY BoxTyped
<1>2. box' = [box EXCEPT ![b] = m] /\ m.queue = box[b].queue
  BY <1>1 DEF Ref, Mailboxes
<1> HIDE DEF m
<1>3. SendersKnown'
  BY <1>2, SendersOfOne
<1>4. QED
  BY <1>2, <1>3

(* dir_lookup. *)
LEMMA LookupKeeps ==
  ASSUME IInv, CInv, crash = "none", NEW c \in Conns, Lookup(c)
  PROVE  CInv'
<1>1. Typed /\ thr[c] \in Threads
  BY DEF IInv, Typed
<1>2. UNCHANGED <<peer, sock, svc, dir, fds, fdLocked, main>>
  BY DEF Lookup, clients, registry
<1>3. Quiet => crash' = "none"
  BY DEF Quiet, Lookup, IInv, Registered
<1>4. thr[c].pc \in Movable
  BY TargetsAre DEF Lookup
<1> DEFINE nodes == {i \in DOMAIN dir : dir[i].name = thr[c].req.handle}
<1>5. CASE nodes = {}
  <2>1. Goto(c, "findself") /\ UNCHANGED box
    BY <1>5 DEF Lookup
  <2>2. Quiet => ClientMove(c)
    BY <1>1, <1>3, <1>4, <2>1, TargetsAre, GotoMoves
  <2>3. SendersKnown'
    BY <1>2, <2>1, SendersStay DEF CInv
  <2>4. QED
    BY <1>2, <2>1, <2>2, <2>3, QuietStays, ClientKeeps
<1>6. CASE nodes # {}
  <2> DEFINE i == CHOOSE i \in nodes : \A j \in nodes : i <= j
             t == [thr[c] EXCEPT !.pc = "readnode", !.rcv = dir[i].box]
  <2>1. box' = Ref(dir[i].box) /\ thr' = [thr EXCEPT ![c] = t]
    BY <1>6 DEF Lookup
  <2>2. nodes \subseteq Nat
    BY <1>1, ListsTyped
  <2>3. i \in DOMAIN dir
    BY <1>6, <2>2, FirstOf
  <2> HIDE DEF i
  <2>4. dir[i].box \in DOMAIN box
    BY <2>3 DEF IInv, Registered
  <2>5. t.pc = "readnode" /\ t.fd = thr[c].fd
    BY <1>1 DEF Threads
  <2> HIDE DEF t
  <2>6. Quiet => ClientMove(c)
    BY <1>1, <1>3, <1>4, <2>1, <2>5, TargetsAre, BecomesMoves
  <2>7. SendersKnown' /\ DOMAIN box' = DOMAIN box
    BY <1>1, <1>2, <2>1, <2>4, RefSenders DEF CInv
  <2>8. QED
    BY <1>2, <2>6, <2>7, QuietStays, ClientKeeps
<1>7. QED
  BY <1>5, <1>6

(* While all mailboxes are registered none is finalized.                    *)
LEMMA RegisteredHere ==
  ASSUME IInv, Quiet, NEW b \in DOMAIN box
  PROVE  ~box[b].freed /\ ~box[b].busy
BY DEF Quiet, DirBoxes, IInv, Registered

(* FDLookup of the client's own descriptor. *)
LEMMA FindSelfKeeps ==
  ASSUME IInv, CInv, crash = "none", NEW c \in Conns, FindSelf(c)
  PROVE  CInv'
<1>1. Typed /\ thr[c] \in Threads
  BY DEF IInv, Typed
<1>2. UNCHANGED <<peer, sock, svc, dir, fds, main>>
  BY DEF FindSelf, clients
<1>3. thr[c].pc \in Movable
  BY TargetsAre DEF FindSelf
<1> DEFINE mine == {i \in DOMAIN fds : fds[i].fd = thr[c].fd}
<1>4. CASE mine = {}
  <2>1. Goto(c, Answer(c, NULL)) /\ UNCHANGED <<box, fdLocked, crash>>
    BY <1>4 DEF FindSelf
  <2>2. Answer(c, NULL) \in Targets
    BY TargetsAre, AnswerOK
  <2>3. ClientMove(c)
    BY <1>1, <1>3, <2>1, <2>2, TargetsAre, GotoMoves
  <2>4. SendersKnown'
    BY <1>2, <2>1, SendersStay DEF CInv
  <2>5. QED
    BY <1>2, <2>1, <2>3, <2>4, QuietStays, ClientKeeps
<1>5. CASE mine # {}
  <2> DEFINE i == CHOOSE i \in mine : \A j \in mine : i <= j
             t == [thr[c] EXCEPT !.pc = "readself", !.snd = fds[i].box]
  <2>1. \/ /\ box' = Ref(fds[i].box) /\ thr' = [thr EXCEPT ![c] = t]
           /\ UNCHANGED <<fdLocked, crash>>
        \/ (box[fds[i].box].freed \/ box[fds[i].box].busy) /\ UNCHANGED box
    BY <1>5 DEF FindSelf
  <2>2. mine \subseteq Nat
    BY <1>1, ListsTyped
  <2>3. i \in mine
    BY <1>5, <2>2, FirstOf
  <2>4. i \in DOMAIN fds /\ fds[i].fd = thr[c].fd
    BY <2>3
  <2> HIDE DEF i
  <2>5. fds[i].box \in DOMAIN box
    BY <2>4 DEF IInv, OneOwner
  <2>6. t.pc = "readself" /\ t.fd = thr[c].fd /\ t.snd = fds[i].box
    BY <1>1 DEF Threads
  <2> HIDE DEF t
  <2>7. CASE box' = Ref(fds[i].box) /\ thr' = [thr EXCEPT ![c] = t] /\ UNCHANGED <<fdLocked, crash>>
    <3>1. thr'[c] = t /\ Only(c)
      BY <1>1, <2>7 DEF Typed, Only
    <3>2. Listed(thr[c].fd, t.snd)
      BY <2>4, <2>6 DEF Listed
    <3>3. ClientMove(c)
      BY <1>3, <2>6, <2>7, <3>1, <3>2 DEF ClientMove, Closing, Movable
    <3>4. SendersKnown' /\ DOMAIN box' = DOMAIN box
      BY <1>1, <1>2, <2>5, <2>7, RefSenders DEF CInv
    <3>5. QED
      BY <1>2, <2>7, <3>3, <3>4, QuietStays, ClientKeeps
  <2>8. CASE (box[fds[i].box].freed \/ box[fds[i].box].busy) /\ UNCHANGED box
    <3>1. ~Quiet
      BY <2>5, <2>8, RegisteredHere
    <3>2. ~Quiet'
      BY <1>2, <2>8, <3>1, QuietStays
    <3>3. SendersKnown' /\ SocketsKnown'
      BY <1>2, <2>8, SendersStay, SocketsStay DEF CInv
    <3>4. QED
      BY <3>2, <3>3 DEF CInv
  <2>9. QED
    BY <2>1, <2>7, <2>8
<1>6. QED
  BY <1>4, <1>5

LEMMA UnrefSenders ==
  ASSUME IInv, SendersKnown, NEW b \in DOMAIN box, NEW ACTION done, NEW ACTION hung,
         Unref(b, done, hung),
         Alive(b) = 1 \/ \E c \in Conns : InHand(c, b) >= 1,
         \A a \in Boxes : svc'[a].pc = "rrcpt"
           => svc[a].pc = "rrcpt" /\ svc'[a].entry = svc[a].entry
  PROVE  SendersKnown' /\ DOMAIN box' = DOMAIN box
<1>1. DOMAIN box' = DOMAIN box /\ \A a \in DOMAIN box : box'[a].queue = box[a].queue
  BY Unreffed DEF BoxesMoved
<1>2. QED
  BY <1>1, SendersStay

(* A mailbox in the directory is never finalized by who lets it go.         *)
LEMMA UnrefIsSafe ==
  ASSUME IInv, Quiet, NEW b \in DOMAIN box, NEW ACTION done, NEW ACTION hung,
         Unref(b, done, hung), crash = "none",
         Alive(b) = 1 \/ \E c \in Conns : InHand(c, b) >= 1
  PROVE  done /\ crash' = "none"
<1>1. box[b].ref # 1
  BY NotTheLast DEF Quiet
<1>2. QED
  BY <1>1 DEF Unref

LEMMA UnrefKeeps ==
  ASSUME IInv, CInv, crash = "none", NEW c \in Conns, UnrefSender(c) \/ UnrefReceiver(c)
  PROVE  CInv'
<1>1. Typed /\ ThreadOK(c) /\ thr[c] \in Threads /\ NULL \notin DOMAIN box
  BY BoxTyped DEF IInv, Locals, Typed
<1>2. UNCHANGED <<peer, sock, svc, dir, fds, fdLocked, main>>
  BY DEF UnrefSender, UnrefReceiver, clients, registry
<1>3. thr[c].pc \in Movable
  BY TargetsAre DEF UnrefSender, UnrefReceiver
<1>4. CASE UnrefSender(c)
  <2> DEFINE b == thr[c].snd
             done == IF thr[c].rcv = NULL THEN Finish(c)
                     ELSE thr' = [thr EXCEPT ![c].pc = "unrefrcv", ![c].snd = NULL]
             hung == thr' = [thr EXCEPT ![c].pc = "hung", ![c].snd = NULL]
  <2>1. b \in DOMAIN box /\ InHand(c, b) >= 1
    BY <1>1, <1>4 DEF UnrefSender, ThreadOK, InHand
  <2>2. Unref(b, done, hung)
    BY <1>4 DEF UnrefSender
  <2>3. /\ SendersKnown' /\ DOMAIN box' = DOMAIN box
        /\ Quiet => done /\ crash' = "none"
    <3> HIDE DEF b, done, hung
    <3>1. QED
      BY <1>1, <1>2, <2>1, <2>2, UnrefSenders, UnrefIsSafe DEF CInv
  <2>4. ASSUME Quiet PROVE ClientMove(c)
    <3>1. CASE Finish(c)
      BY <1>3, <2>3, <2>4, <3>1, FinishMoves
    <3>2. CASE thr' = [thr EXCEPT ![c].pc = "unrefrcv", ![c].snd = NULL]
      <4> DEFINE t == [thr[c] EXCEPT !.pc = "unrefrcv", !.snd = NULL]
      <4>1. thr' = [thr EXCEPT ![c] = t]
        BY <3>2
      <4>2. t.pc = "unrefrcv" /\ t.fd = thr[c].fd
        BY <1>1 DEF Threads
      <4> HIDE DEF t
      <4>3. QED
        BY <1>1, <1>3, <2>3, <2>4, <4>1, <4>2, TargetsAre, BecomesMoves
    <3>3. QED
      BY <2>3, <2>4, <3>1, <3>2
  <2>5. QED
    BY <1>2, <2>3, <2>4, QuietStays, ClientKeeps
<1>5. CASE UnrefReceiver(c)
  <2> DEFINE b == thr[c].rcv
             hung == thr' = [thr EXCEPT ![c].pc = "hung", ![c].rcv = NULL]
  <2>1. b \in DOMAIN box /\ InHand(c, b) >= 1
    BY <1>1, <1>5 DEF UnrefReceiver, ThreadOK, InHand, LoggingIn
  <2>2. Unref(b, Finish(c), hung)
    BY <1>5 DEF UnrefReceiver
  <2>3. /\ SendersKnown' /\ DOMAIN box' = DOMAIN box
        /\ Quiet => Finish(c) /\ crash' = "none"
    <3> HIDE DEF b, hung
    <3>1. QED
      BY <1>1, <1>2, <2>1, <2>2, UnrefSenders, UnrefIsSafe DEF CInv
  <2>4. Quiet => ClientMove(c)
    BY <1>3, <2>3, FinishMoves
  <2>5. QED
    BY <1>2, <2>3, <2>4, QuietStays, ClientKeeps
<1>6. QED
  BY <1>4, <1>5

-----------------------------------------------------------------------------
(* LOGIN. *)

LEMMA SendersNew ==
  ASSUME Typed, SendersKnown, NEW b, NEW m \in Mailboxes, b = Len(box) + 1,
         m.queue = <<>>, box' = Append(box, m), UNCHANGED svc
  PROVE  SendersKnown' /\ DOMAIN box' = DOMAIN box \cup {b}
<1>1. /\ Len(box) \in Nat /\ DOMAIN box = 1 .. Len(box)
      /\ DOMAIN box' = 1 .. (Len(box) + 1)
      /\ \A a \in 1 .. Len(box) : box'[a] = box[a]
      /\ box'[b] = m
  BY BoxTyped, AppendProperties, LenProperties DEF Typed
<1>2. DOMAIN box' = DOMAIN box \cup {b}
  BY <1>1
<1>3. ASSUME NEW a \in DOMAIN box', NEW i \in DOMAIN box'[a].queue
      PROVE  FromKnown(box'[a].queue[i])
  <2>1. a # b
    BY <1>1, <1>3
  <2>2. a \in DOMAIN box /\ box'[a] = box[a]
    BY <1>1, <1>2, <2>1
  <2>3. QED
    BY <1>3, <2>2 DEF SendersKnown
<1>4. QED
  BY <1>2, <1>3 DEF SendersKnown, FromKnown

LEMMA RegisterKeeps ==
  ASSUME IInv, CInv, crash = "none", NEW c \in Conns, Register(c)
  PROVE  CInv'
<1>1. Typed /\ thr[c] \in Threads /\ ThreadOK(c)
  BY DEF IInv, Locals, Typed
<1>2. UNCHANGED <<peer, sock, svc, fds, fdLocked, main>>
  BY DEF Register, clients
<1>3. Quiet => crash' = "none"
  BY DEF Register
<1>4. thr[c].pc \in Movable
  BY TargetsAre DEF Register
<1>5. CASE Refused(thr[c].req.handle)
  <2>1. Goto(c, "nack") /\ UNCHANGED <<dir, box>>
    BY <1>5 DEF Register
  <2>2. Quiet => ClientMove(c)
    BY <1>1, <1>3, <1>4, <2>1, TargetsAre, GotoMoves
  <2>3. SendersKnown'
    BY <1>2, <2>1, SendersStay DEF CInv
  <2>4. QED
    BY <1>2, <2>1, <2>2, <2>3, QuietStays, ClientKeeps
<1>6. CASE ~Refused(thr[c].req.handle)
  <2> DEFINE b == Len(box) + 1
             node == [name |-> thr[c].req.handle, fd |-> thr[c].fd, box |-> b]
             t == [thr[c] EXCEPT !.pc = "addnode", !.rcv = b]
  <2>1. /\ box' = Append(box, NewBox(c)) /\ dir' = Append(dir, node)
        /\ thr' = [thr EXCEPT ![c] = t] /\ b \in Boxes
    BY <1>6 DEF Register
  <2>2. NewBox(c) \in Mailboxes /\ NewBox(c).queue = <<>>
    <3>1. /\ thr[c].req.handle \in Handles /\ thr[c].fd \in Fds
      BY <1>1 DEF ThreadOK, Register
    <3>2. sock[thr[c].fd] \in [st : {"free", "open", "shut"}, conn : Conns \cup {"none"}]
      BY <1>1, <3>1 DEF Typed
    <3>3. <<>> \in Seq(Entries)
      BY EmptySeq
    <3>4. QED
      BY <3>1, <3>2, <3>3 DEF NewBox, Mailboxes
  <2>3. t.pc = "addnode" /\ t.fd = thr[c].fd
    BY <1>1 DEF Threads
  <2>4. SendersKnown' /\ DOMAIN box' = DOMAIN box \cup {b}
    BY <1>1, <1>2, <2>1, <2>2, SendersNew DEF CInv
  <2>5. Quiet' => Quiet
    <3>1. DirBoxes' = DirBoxes \cup {b}
      <4>1. node \in DirNodes /\ node.box = b
        <5>1. thr[c].req.handle \in Handles /\ thr[c].fd \in Fds
          BY <1>1 DEF ThreadOK, Register
        <5>2. QED
          BY <2>1, <5>1 DEF DirNodes
      <4> HIDE DEF node, b
      <4>2. /\ Len(dir) \in Nat /\ DOMAIN dir = 1 .. Len(dir)
            /\ DOMAIN dir' = 1 .. (Len(dir) + 1)
            /\ \A i \in 1 .. Len(dir) : dir'[i] = dir[i]
            /\ dir'[Len(dir) + 1] = node
        BY <1>1, <2>1, <4>1, ListsTyped, AppendProperties, LenProperties DEF Typed
      <4>3. DOMAIN dir' = DOMAIN dir \cup {Len(dir) + 1}
        BY <4>2
      <4>4. DirBoxes' = {dir'[i].box : i \in DOMAIN dir} \cup {dir'[Len(dir) + 1].box}
        BY <4>3 DEF DirBoxes
      <4>5. {dir'[i].box : i \in DOMAIN dir} = DirBoxes
        BY <4>2 DEF DirBoxes
      <4>6. QED
        BY <4>1, <4>2, <4>4, <4>5
    <3>2. DirBoxes \subseteq DOMAIN box
      BY DEF DirBoxes, IInv, Registered
    <3>3. b \notin DOMAIN box
      BY <1>1, BoxTyped
    <3> HIDE DEF b
    <3>4. QED
      BY <1>2, <2>4, <3>1, <3>2, <3>3 DEF Quiet
  <2> HIDE DEF t
  <2>6. Quiet => ClientMove(c)
    BY <1>1, <1>3, <1>4, <2>1, <2>3, TargetsAre, BecomesMoves
  <2>7. QED
    BY <1>2, <2>4, <2>5, <2>6, ClientKeeps
<1>7. QED
  BY <1>5, <1>6

LEMMA AddNodeKeeps ==
  ASSUME IInv, CInv, crash = "none", NEW c \in Conns, AddNode(c)
  PROVE  CInv'
<1>1. Typed /\ ThreadOK(c) /\ thr[c] \in Threads
  BY DEF IInv, Locals, Typed
<1>2. UNCHANGED <<peer, sock, svc, dir, fdLocked, box, main, crash>> /\ ~fdLocked
  BY DEF AddNode, clients
<1>3. /\ Only(c) /\ thr'[c].pc = "loginack" /\ thr'[c].fd = thr[c].fd
      /\ thr'[c].rcv = thr[c].rcv /\ thr[c].pc = "addnode"
  BY <1>1, Goes DEF AddNode, ClientPcs
<1> DEFINE node == [fd |-> thr[c].fd, box |-> thr[c].rcv]
<1>4. /\ DOMAIN fds \subseteq DOMAIN fds'
      /\ \A i \in DOMAIN fds : fds'[i] = fds[i]
      /\ \E i \in DOMAIN fds' : fds'[i] = node
  <2>1. node \in FdNodes
    <3>1. thr[c].fd \in Fds /\ thr[c].rcv \in Boxes
      BY <1>1, <1>3 DEF ThreadOK, Threads, LoggingIn, Pointers
    <3>2. QED
      BY <3>1 DEF FdNodes
  <2>2. fds' = Append(fds, node)
    BY DEF AddNode
  <2> HIDE DEF node
  <2>3. /\ Len(fds) \in Nat /\ DOMAIN fds = 1 .. Len(fds)
        /\ DOMAIN fds' = 1 .. (Len(fds) + 1)
        /\ \A i \in 1 .. Len(fds) : fds'[i] = fds[i]
        /\ fds'[Len(fds) + 1] = node
    BY <1>1, <2>1, <2>2, ListsTyped, AppendProperties, LenProperties DEF Typed
  <2>4. QED
    BY <2>3
<1>5. \A d \in Conns :
        /\ thr'[d].fd = thr[d].fd
        /\ thr'[d].pc # "unborn" <=> thr[d].pc # "unborn"
        /\ thr'[d].pc \in Closing <=> thr[d].pc \in Closing
        /\ thr'[d].pc = "close" <=> thr[d].pc = "close"
        /\ thr[d].pc = "unregister" => thr'[d] = thr[d]
  BY <1>3 DEF Only, Closing
<1>6. ASSUME Quiet PROVE Calm'
  <2>1. Unshared /\ LastCloser /\ Served /\ Unharmed
    BY <1>6 DEF CInv, Calm
  <2>2. Unshared'
    BY <1>2, <1>5, <2>1 DEF Unshared, Live
  <2>3. LastCloser'
    BY <1>2, <1>5, <2>1 DEF LastCloser, Live
  <2>4. Served'
    <3>1. ASSUME NEW f, NEW b, Listed(f, b) \/ TakenOut(f, b)
          PROVE  \/ \E i \in DOMAIN fds' : fds'[i].fd = f /\ fds'[i].box = b
                 \/ \E d \in Conns : /\ thr'[d].pc = "unregister"
                                     /\ thr'[d].fd = f /\ thr'[d].rcv = b
      BY <1>4, <1>5, <3>1 DEF Listed, TakenOut
    <3>2. ASSUME NEW b \in Boxes, svc'[b].pc # "unborn"
          PROVE  (Listed(svc[b].fd, b) \/ TakenOut(svc[b].fd, b))'
      BY <1>2, <2>1, <3>1, <3>2 DEF Served, Listed, TakenOut
    <3>3. ASSUME NEW d \in Conns, thr'[d].pc \in {"loginack", "spawn"}
          PROVE  (Listed(thr[d].fd, thr[d].rcv) \/ TakenOut(thr[d].fd, thr[d].rcv))'
      <4>1. CASE d = c
        BY <1>3, <1>4, <4>1 DEF Listed
      <4>2. CASE d # c
        <5>1. thr'[d] = thr[d]
          BY <1>3, <4>2 DEF Only
        <5>2. Listed(thr[d].fd, thr[d].rcv) \/ TakenOut(thr[d].fd, thr[d].rcv)
          BY <2>1, <3>3, <5>1 DEF Served
        <5>3. QED
          BY <3>1, <5>1, <5>2 DEF Listed, TakenOut
      <4>3. QED
        BY <4>1, <4>2
    <3>4. ASSUME NEW d \in Conns, thr'[d].pc = "readself"
          PROVE  Listed(thr[d].fd, thr[d].snd)'
      <4>1. thr'[d] = thr[d]
        BY <1>3, <3>4 DEF Only
      <4>2. Listed(thr[d].fd, thr[d].snd)
        BY <2>1, <3>4, <4>1 DEF Served
      <4>3. QED
        BY <1>4, <4>1, <4>2 DEF Listed
    <3>5. QED
      BY <3>2, <3>3, <3>4 DEF Served
  <2>5. Unharmed'
    BY <1>2, <1>3, <2>1 DEF Unharmed, Only
  <2>6. QED
    BY <2>2, <2>3, <2>4, <2>5 DEF Calm
<1>7. SendersKnown' /\ SocketsKnown'
  BY <1>2, SendersStay, SocketsStay DEF CInv
<1>8. QED
  BY <1>2, <1>6, <1>7, QuietStays DEF CInv

LEMMA SpawnKeeps ==
  ASSUME IInv, CInv, crash = "none", NEW c \in Conns, Spawn(c)
  PROVE  CInv'
<1>1. Typed /\ thr[c] \in Threads
  BY DEF IInv, Typed
<1>2. /\ UNCHANGED <<peer, sock, dir, fds, fdLocked, box, main, crash>>
      /\ thr[c].pc = "spawn"
  BY DEF Spawn, clients, registry
<1>3. Only(c) /\ thr'[c].pc = "recv" /\ thr'[c].fd = thr[c].fd
  BY Finishes DEF Spawn, Finish
<1>4. PICK b \in Boxes : b = thr[c].rcv
  BY SpawnStep
<1>5. /\ svc'[b].pc = "created" /\ svc'[b].fd = thr[c].fd
      /\ \A a \in Boxes \ {b} : svc'[a] = svc[a]
  <2> DEFINE s == [svc[b] EXCEPT !.pc = "created", !.fd = thr[c].fd]
  <2>1. svc[b] \in Services
    BY <1>1 DEF Typed
  <2>2. svc' = [svc EXCEPT ![b] = s]
    BY <1>4 DEF Spawn
  <2>3. s.pc = "created" /\ s.fd = thr[c].fd
    BY <2>1 DEF Services
  <2> HIDE DEF s
  <2>4. QED
    BY <1>1, <2>2, <2>3 DEF Typed
<1>6. \A d \in Conns :
        /\ thr'[d].fd = thr[d].fd
        /\ thr'[d].pc # "unborn" <=> thr[d].pc # "unborn"
        /\ thr'[d].pc \in Closing <=> thr[d].pc \in Closing
        /\ thr'[d].pc = "close" <=> thr[d].pc = "close"
        /\ thr[d].pc = "unregister" => thr'[d] = thr[d]
  BY <1>2, <1>3 DEF Only, Closing
<1>7. ASSUME Quiet PROVE Calm'
  <2>1. Unshared /\ LastCloser /\ Served /\ Unharmed
    BY <1>7 DEF CInv, Calm
  <2>2. Unshared' /\ LastCloser'
    BY <1>2, <1>6, <2>1 DEF Unshared, LastCloser, Live
  <2>3. Served'
    <3>1. ASSUME NEW f, NEW a, Listed(f, a) \/ TakenOut(f, a)
          PROVE  \/ \E i \in DOMAIN fds' : fds'[i].fd = f /\ fds'[i].box = a
                 \/ \E d \in Conns : /\ thr'[d].pc = "unregister"
                                     /\ thr'[d].fd = f /\ thr'[d].rcv = a
      BY <1>2, <1>6, <3>1 DEF Listed, TakenOut
    <3>2. ASSUME NEW a \in Boxes, svc'[a].pc # "unborn"
          PROVE  (Listed(svc[a].fd, a) \/ TakenOut(svc[a].fd, a))'
      <4>1. Listed(svc'[a].fd, a) \/ TakenOut(svc'[a].fd, a)
        BY <1>2, <1>4, <1>5, <2>1, <3>2 DEF Served
      <4>2. QED
        BY <3>1, <4>1 DEF Listed, TakenOut
    <3>3. ASSUME NEW d \in Conns, thr'[d].pc \in {"loginack", "spawn", "readself"}
          PROVE  thr'[d] = thr[d]
      BY <1>3, <3>3 DEF Only
    <3>4. ASSUME NEW d \in Conns, thr'[d].pc \in {"loginack", "spawn"}
          PROVE  (Listed(thr[d].fd, thr[d].rcv) \/ TakenOut(thr[d].fd, thr[d].rcv))'
      <4>1. Listed(thr[d].fd, thr[d].rcv) \/ TakenOut(thr[d].fd, thr[d].rcv)
        BY <2>1, <3>3, <3>4 DEF Served
      <4>2. QED
        BY <3>1, <3>3, <3>4, <4>1 DEF Listed, TakenOut
    <3>5. ASSUME NEW d \in Conns, thr'[d].pc = "readself"
          PROVE  Listed(thr[d].fd, thr[d].snd)'
      <4>1. Listed(thr[d].fd, thr[d].snd)
        BY <2>1, <3>3, <3>5 DEF Served
      <4>2. QED
        BY <1>2, <3>3, <3>5, <4>1 DEF Listed
    <3>6. QED
      BY <3>2, <3>4, <3>5 DEF Served
  <2>4. Unharmed'
    BY <1>2, <1>3, <2>1 DEF Unharmed, Only
  <2>5. QED
    BY <2>2, <2>3, <2>4 DEF Calm
<1>8. SendersKnown' /\ SocketsKnown'
  <2>1. \A a \in Boxes : svc'[a].pc = "rrcpt"
          => svc[a].pc = "rrcpt" /\ svc'[a].entry = svc[a].entry
    BY <1>5
  <2>2. QED
    BY <1>2, <2>1, SendersStay, SocketsStay DEF CInv
<1>9. QED
  BY <1>2, <1>7, <1>8, QuietStays DEF CInv

-----------------------------------------------------------------------------
(* LOGOUT. *)

(* removeNode leaves a node out, or leaks the mutex of the list.            *)
LEMMA RemoveNodeKeeps ==
  ASSUME IInv, CInv, crash = "none", NEW c \in Conns, RemoveNode(c)
  PROVE  CInv'
<1>1. Typed /\ ThreadOK(c) /\ thr[c] \in Threads
  BY DEF IInv, Locals, Typed
<1>2. /\ UNCHANGED <<peer, sock, svc, dir, box, main, crash>>
      /\ thr[c].pc = "remove" /\ ~fdLocked /\ c \in Live
  BY DEF RemoveNode, clients, Live
<1> DEFINE mine == {i \in DOMAIN fds : fds[i].fd = thr[c].fd}
<1>3. ASSUME mine = {}, Quiet PROVE Calm'
  <2>1. Unshared /\ LastCloser /\ Served /\ Unharmed
    BY <1>3 DEF CInv, Calm
  <2>2. fdLocked' = TRUE /\ Goto(c, "shut") /\ UNCHANGED fds
    BY <1>3 DEF RemoveNode
  <2>3. /\ Only(c) /\ thr'[c].pc = "shut" /\ thr'[c].fd = thr[c].fd
    BY <1>1, <2>2, Goes DEF ClientPcs
  <2>4. \A d \in Conns :
          /\ thr'[d].fd = thr[d].fd
          /\ thr'[d].pc # "unborn" <=> thr[d].pc # "unborn"
          /\ thr'[d].pc \in Closing => d = c
          /\ thr[d].pc \in {"unregister", "close"} => thr'[d] = thr[d]
    BY <1>2, <2>1, <2>3 DEF Only, LastCloser
  <2>5. Unshared'
    BY <2>2 DEF Unshared
  <2>6. LastCloser'
    <3>1. sock[thr[c].fd].st # "free" /\ \A i \in DOMAIN fds : fds[i].fd # thr[c].fd
      BY <1>2, <1>3, <2>1 DEF Unshared
    <3>2. \A d \in Live : thr[d].fd = thr[c].fd => d = c
      BY <1>2, <2>1 DEF Unshared
    <3>3. \A d \in Conns : thr'[d].pc \in Closing => d = c
      BY <2>4
    <3>4. \A d \in Live' : thr'[d].fd = thr'[c].fd => d = c
      BY <2>4, <3>2 DEF Live
    <3>5. \A f \in Fds : sock'[f].st = "shut" =>
            \E d \in Conns : thr'[d].pc = "close" /\ thr'[d].fd = f
      BY <1>2, <2>1, <2>4 DEF LastCloser
    <3>6. QED
      BY <1>2, <2>2, <2>3, <3>1, <3>3, <3>4, <3>5 DEF LastCloser
  <2>7. Served'
    BY <1>2, <2>1, <2>2, <2>3, <2>4 DEF Served, Listed, TakenOut, Only
  <2>8. Unharmed'
    BY <1>2, <2>1, <2>3 DEF Unharmed, Only
  <2>9. QED
    BY <2>5, <2>6, <2>7, <2>8 DEF Calm
<1>4. ASSUME mine # {}, Quiet PROVE Calm'
  <2>1. Unshared /\ LastCloser /\ Served /\ Unharmed
    BY <1>4 DEF CInv, Calm
  <2> DEFINE i == CHOOSE i \in mine : \A j \in mine : i <= j
             t == [thr[c] EXCEPT !.pc = "unregister", !.rcv = fds[i].box]
  <2>2. fds' = RemoveAt(fds, i) /\ thr' = [thr EXCEPT ![c] = t] /\ UNCHANGED fdLocked
    BY <1>4 DEF RemoveNode
  <2>3. mine \subseteq Nat
    BY <1>1, ListsTyped
  <2>4. i \in mine
    BY <1>4, <2>3, FirstOf
  <2>5. i \in DOMAIN fds /\ fds[i].fd = thr[c].fd
    BY <2>4
  <2> HIDE DEF i
  <2>6. t.pc = "unregister" /\ t.fd = thr[c].fd /\ t.rcv = fds[i].box
    BY <1>1 DEF Threads
  <2> HIDE DEF t
  <2>7. thr'[c] = t /\ Only(c)
    BY <1>1, <2>2 DEF Typed, Only
  <2>8. /\ \A j \in DOMAIN fds' : \E k \in DOMAIN fds \ {i} : fds'[j] = fds[k]
        /\ \A k \in DOMAIN fds \ {i} : \E j \in DOMAIN fds' : fds'[j] = fds[k]
    <3>1. fds \in Seq(FdNodes)
      BY <1>1 DEF Typed
    <3> HIDE DEF mine
    <3>2. /\ \A j \in DOMAIN RemoveAt(fds, i) :
               \E k \in DOMAIN fds \ {i} : RemoveAt(fds, i)[j] = fds[k]
          /\ \A k \in DOMAIN fds \ {i} :
               \E j \in DOMAIN RemoveAt(fds, i) : RemoveAt(fds, i)[j] = fds[k]
      BY <2>5, <3>1, Removed
    <3>3. QED
      BY <2>2, <3>2
  <2>9. \A d \in Conns :
          /\ thr'[d].fd = thr[d].fd
          /\ thr'[d].pc # "unborn" <=> thr[d].pc # "unborn"
          /\ thr'[d].pc \notin Closing
          /\ thr[d].pc \in {"unregister", "close"} => thr'[d] = thr[d]
    BY <1>2, <2>1, <2>6, <2>7 DEF Only, LastCloser, Closing
  <2>10. Unshared'
    BY <1>2, <2>1, <2>2, <2>9 DEF Unshared, Live
  <2>11. LastCloser'
    <3>1. \A f \in Fds : sock'[f].st # "shut"
      BY <1>2, <2>1 DEF LastCloser, Closing
    <3>2. QED
      BY <2>9, <3>1 DEF LastCloser
  <2>12. Served'
    <3>1. ASSUME NEW f, NEW b, Listed(f, b) \/ TakenOut(f, b)
          PROVE  \/ \E j \in DOMAIN fds' : fds'[j].fd = f /\ fds'[j].box = b
                 \/ \E d \in Conns : /\ thr'[d].pc = "unregister"
                                     /\ thr'[d].fd = f /\ thr'[d].rcv = b
      <4>1. CASE TakenOut(f, b)
        BY <2>9, <4>1 DEF TakenOut
      <4>2. CASE Listed(f, b)
        <5>1. PICK k \in DOMAIN fds : fds[k].fd = f /\ fds[k].box = b
          BY <4>2 DEF Listed
        <5>2. CASE k = i
          BY <2>5, <2>6, <2>7, <5>1, <5>2
        <5>3. CASE k # i
          BY <2>8, <5>1, <5>3
        <5>4. QED
          BY <5>2, <5>3
      <4>3. QED
        BY <3>1, <4>1, <4>2
    <3>2. ASSUME NEW b \in Boxes, svc'[b].pc # "unborn"
          PROVE  (Listed(svc[b].fd, b) \/ TakenOut(svc[b].fd, b))'
      BY <1>2, <2>1, <3>1, <3>2 DEF Served, Listed, TakenOut
    <3>3. ASSUME NEW d \in Conns, thr'[d].pc \in {"loginack", "spawn", "readself"}
          PROVE  thr'[d] = thr[d] /\ d # c
      BY <2>6, <2>7, <3>3 DEF Only
    <3>4. ASSUME NEW d \in Conns, thr'[d].pc \in {"loginack", "spawn"}
          PROVE  (Listed(thr[d].fd, thr[d].rcv) \/ TakenOut(thr[d].fd, thr[d].rcv))'
      <4>1. Listed(thr[d].fd, thr[d].rcv) \/ TakenOut(thr[d].fd, thr[d].rcv)
        BY <2>1, <3>3, <3>4 DEF Served
      <4>2. QED
        BY <3>1, <3>3, <3>4, <4>1 DEF Listed, TakenOut
    <3>5. ASSUME NEW d \in Conns, thr'[d].pc = "readself"
          PROVE  Listed(thr[d].fd, thr[d].snd)'
      <4>1. thr'[d] = thr[d] /\ d # c /\ d \in Live
        BY <3>3, <3>5 DEF Live
      <4>2. PICK k \in DOMAIN fds : fds[k].fd = thr[d].fd /\ fds[k].box = thr[d].snd
        BY <2>1, <3>5, <4>1 DEF Served, Listed
      <4>3. k # i
        BY <1>2, <2>1, <2>5, <4>1, <4>2 DEF Unshared
      <4>4. QED
        BY <2>8, <4>1, <4>2, <4>3 DEF Listed
    <3>6. QED
      BY <3>2, <3>4, <3>5 DEF Served
  <2>13. Unharmed'
    BY <1>2, <2>1, <2>6, <2>7 DEF Unharmed, Only
  <2>14. QED
    BY <2>10, <2>11, <2>12, <2>13 DEF Calm
<1>5. SendersKnown' /\ SocketsKnown'
  BY <1>2, SendersStay, SocketsStay DEF CInv
<1>6. QED
  BY <1>2, <1>3, <1>4, <1>5, QuietStays DEF CInv

(* dir_unregister takes a mailbox out of the directory that stays defunct.  *)
LEMMA UnregisterKeeps ==
  ASSUME IInv, CInv, crash = "none", NEW c \in Conns, Unregister(c)
  PROVE  CInv'
<1> DEFINE nodes == {i \in DOMAIN dir : dir[i].name = box[thr[c].rcv].name}
<1>1. /\ Typed /\ Registered /\ thr[c].pc = "unregister" /\ UNCHANGED <<sock, svc>>
      /\ thr[c].rcv \in DOMAIN box
  <2>1. thr[c].pc = "unregister" /\ UNCHANGED <<sock, svc>>
    BY DEF Unregister
  <2>2. ThreadOK(c)
    BY DEF IInv, Locals
  <2>3. QED
    BY <2>1, <2>2 DEF IInv, ThreadOK
<1>2. CASE nodes = {}
  <2>1. UNCHANGED <<dir, box>>
    BY <1>2 DEF Unregister
  <2>2. thr[c].rcv \notin DirBoxes
    BY <1>1, <1>2 DEF DirBoxes, Registered
  <2>3. ~Quiet'
    BY <1>1, <2>1, <2>2 DEF Quiet, DirBoxes
  <2>4. SendersKnown' /\ SocketsKnown'
    BY <1>1, <2>1, SendersStay, SocketsStay DEF CInv
  <2>5. QED
    BY <2>3, <2>4 DEF CInv
<1>3. CASE nodes # {}
  <2> DEFINE i == CHOOSE i \in nodes : \A j \in nodes : i <= j
             b == dir[i].box
             m == [box[b] EXCEPT !.ref = @ - 1, !.defunct = TRUE]
  <2>1. box' = UnrefAndShutdown(b)
    BY <1>3 DEF Unregister
  <2>2. nodes \subseteq Nat
    BY <1>1, ListsTyped
  <2>3. i \in DOMAIN dir
    BY <1>3, <2>2, FirstOf
  <2> HIDE DEF i
  <2>4. b \in DOMAIN box
    BY <1>1, <2>3 DEF Registered
  <2> HIDE DEF b
  <2>5. box[b] \in Mailboxes
    BY <1>1, <2>4, BoxTyped
  <2>6. box' = [box EXCEPT ![b] = m] /\ m.queue = box[b].queue /\ m.defunct
    BY <2>1, <2>4, <2>5 DEF UnrefAndShutdown, Mailboxes
  <2> HIDE DEF m
  <2>7. box'[b].defunct /\ b \in DOMAIN box'
    BY <2>4, <2>6
  <2>8. Registered'
    BY UnregisterStep DEF IInv
  <2>9. ~Quiet'
    BY <2>7, <2>8 DEF Registered, Quiet, DirBoxes
  <2>10. SendersKnown' /\ SocketsKnown'
    BY <1>1, <2>6, SendersOfOne, SocketsStay DEF CInv
  <2>11. QED
    BY <2>9, <2>10 DEF CInv
<1>4. QED
  BY <1>2, <1>3

(* The last closer shuts its socket down and closes it. *)
LEMMA ShutSocketKeeps ==
  ASSUME IInv, CInv, crash = "none", NEW c \in Conns, ShutSocket(c)
  PROVE  CInv'
<1> DEFINE f == thr[c].fd
<1>1. Typed /\ thr[c].pc = "shut" /\ "close" \in ClientPcs /\ f \in Fds
  <2>1. Typed /\ ThreadOK(c)
    BY DEF IInv, Locals
  <2>2. QED
    BY <2>1 DEF ShutSocket, ThreadOK, ClientPcs
<1>2. UNCHANGED <<peer, svc, dir, fds, fdLocked, box, main, crash>>
  BY DEF ShutSocket, clients, registry
<1>3. Only(c) /\ thr'[c].pc = "close" /\ thr'[c].fd = f
  BY <1>1, Goes DEF ShutSocket
<1>4. /\ \A g \in Fds \ {f} : sock'[g] = sock[g]
      /\ sock'[f].conn = sock[f].conn /\ (sock'[f].st = "free" <=> sock[f].st = "free")
  <2> DEFINE s == [sock[f] EXCEPT !.st = IF @ = "open" THEN "shut" ELSE @]
  <2>1. sock' = [sock EXCEPT ![f] = s]
    BY DEF ShutSocket
  <2>2. sock[f] \in [st : {"free", "open", "shut"}, conn : Conns \cup {"none"}]
    BY <1>1 DEF Typed
  <2>3. s.conn = sock[f].conn /\ (s.st = "free" <=> sock[f].st = "free")
    BY <2>2
  <2> HIDE DEF s
  <2>4. sock'[f] = s /\ \A g \in Fds \ {f} : sock'[g] = sock[g]
    BY <1>1, <2>1 DEF Typed
  <2>5. QED
    BY <2>3, <2>4
<1> HIDE DEF f
<1>5. ASSUME Quiet PROVE Calm'
  <2>1. Unshared /\ LastCloser /\ Served /\ Unharmed
    BY <1>5 DEF CInv, Calm
  <2>2. /\ fdLocked /\ sock[f].st # "free"
        /\ \A d \in Conns : thr[d].pc \in Closing => d = c
        /\ \A d \in Live : thr[d].fd = f => d = c
        /\ \A i \in DOMAIN fds : fds[i].fd # f
    BY <1>1, <2>1 DEF LastCloser, Closing, f
  <2>3. \A d \in Conns :
          /\ thr'[d].fd = thr[d].fd
          /\ thr'[d].pc # "unborn" <=> thr[d].pc # "unborn"
          /\ thr'[d].pc \in Closing => d = c
          /\ thr[d].pc = "unregister" => thr'[d] = thr[d]
          /\ thr'[d].pc \in {"loginack", "spawn", "readself", "hung"} => thr'[d] = thr[d]
    BY <1>1, <1>3, <2>2 DEF Only, f
  <2>4. Unshared'
    BY <1>2, <2>2 DEF Unshared
  <2>5. LastCloser'
    <3>1. \A d \in Live' : thr'[d].fd = f => d = c
      BY <2>2, <2>3 DEF Live
    <3>2. \A g \in Fds \ {f} : sock[g].st # "shut"
      BY <1>1, <2>1, <2>2 DEF LastCloser, Closing, f
    <3>3. QED
      BY <1>2, <1>3, <1>4, <2>2, <2>3, <3>1, <3>2 DEF LastCloser
  <2>6. Served'
    BY <1>2, <2>1, <2>3 DEF Served, Listed, TakenOut
  <2>7. Unharmed'
    BY <1>2, <2>1, <2>3 DEF Unharmed
  <2>8. QED
    BY <2>4, <2>5, <2>6, <2>7 DEF Calm
<1>6. SendersKnown' /\ SocketsKnown'
  BY <1>2, <1>4, SendersStay, SocketsStay DEF CInv
<1>7. QED
  BY <1>2, <1>5, <1>6, QuietStays DEF CInv

LEMMA CloseSocketKeeps ==
  ASSUME IInv, CInv, crash = "none", NEW c \in Conns, CloseSocket(c)
  PROVE  CInv'
<1> DEFINE f == thr[c].fd
<1>1. Typed /\ thr[c].pc = "close" /\ f \in Fds
  <2>1. Typed /\ ThreadOK(c)
    BY DEF IInv, Locals
  <2>2. QED
    BY <2>1 DEF CloseSocket, ThreadOK
<1>2. UNCHANGED <<peer, svc, dir, fds, fdLocked, box, main, crash>>
  BY DEF CloseSocket, clients, registry
<1>3. Only(c) /\ thr'[c].pc = "recv" /\ thr'[c].fd = f
  BY Finishes DEF CloseSocket, Finish
<1>4. sock'[f].st = "free" /\ \A g \in Fds \ {f} : sock'[g] = sock[g]
  BY <1>1 DEF CloseSocket, Free, Typed
<1> HIDE DEF f
<1>5. ASSUME Quiet PROVE Calm'
  <2>1. Unshared /\ LastCloser /\ Served /\ Unharmed
    BY <1>5 DEF CInv, Calm
  <2>2. fdLocked /\ \A d \in Conns : thr[d].pc \in Closing => d = c
    BY <1>1, <2>1 DEF LastCloser, Closing
  <2>3. \A d \in Conns :
          /\ thr'[d].fd = thr[d].fd
          /\ thr'[d].pc \notin Closing
          /\ thr[d].pc = "unregister" => thr'[d] = thr[d]
          /\ thr'[d].pc \in {"loginack", "spawn", "readself", "hung"} => thr'[d] = thr[d]
    BY <1>1, <1>3, <2>2 DEF Only, f, Closing
  <2>4. Unshared'
    BY <1>2, <2>2 DEF Unshared
  <2>5. LastCloser'
    <3>1. \A g \in Fds \ {f} : sock[g].st # "shut"
      BY <2>1, <2>2 DEF LastCloser, Closing, f
    <3>2. QED
      BY <1>4, <2>3, <3>1 DEF LastCloser
  <2>6. Served'
    BY <1>2, <2>1, <2>3 DEF Served, Listed, TakenOut
  <2>7. Unharmed'
    BY <1>2, <2>1, <2>3 DEF Unharmed
  <2>8. QED
    BY <2>4, <2>5, <2>6, <2>7 DEF Calm
<1>6. SendersKnown' /\ SocketsKnown'
  BY <1>2, <1>4, SendersStay, SocketsStay DEF CInv
<1>7. QED
  BY <1>2, <1>5, <1>6, QuietStays DEF CInv

(* A new connection gets a descriptor that no open socket has. *)
LEMMA AcceptKeeps ==
  ASSUME IInv, CInv, crash = "none", NEW c \in Conns, Accept(c)
  PROVE  CInv'
<1>1. Typed /\ thr[c] \in Threads /\ thr[c].pc = "unborn"
  BY DEF IInv, Locals, Typed, Accept
<1>2. /\ UNCHANGED <<svc, dir, fds, fdLocked, box, main, crash>>
      /\ peer' = [peer EXCEPT ![c] = "open"] /\ peer[c] = "new"
  BY DEF Accept, registry
<1>3. PICK f \in Fds :
        /\ sock[f].st = "free"
        /\ sock' = [sock EXCEPT ![f] = [st |-> "open", conn |-> c]]
        /\ thr' = [thr EXCEPT ![c].pc = "created", ![c].fd = f]
  BY DEF Accept
<1>4. Only(c) /\ thr'[c].pc = "created" /\ thr'[c].fd = f
  <2> DEFINE t == [thr[c] EXCEPT !.pc = "created", !.fd = f]
  <2>1. thr' = [thr EXCEPT ![c] = t]
    BY <1>3
  <2>2. t.pc = "created" /\ t.fd = f
    BY <1>1 DEF Threads
  <2> HIDE DEF t
  <2>3. QED
    BY <1>1, <2>1, <2>2 DEF Only, Typed
<1>5. /\ sock'[f].st = "open" /\ sock'[f].conn = c
      /\ \A h \in Fds \ {f} : sock'[h] = sock[h]
  BY <1>1, <1>3 DEF Typed
<1>6. ASSUME Quiet PROVE Calm'
  <2>1. Unshared /\ LastCloser /\ Served /\ Unharmed
    BY <1>6 DEF CInv, Calm
  <2>2. \A d \in Conns :
          /\ d \in Live => thr'[d] = thr[d]
          /\ thr'[d].pc # "unborn" <=> d \in Live \/ d = c
          /\ thr'[d].pc \notin {"unborn", "created"} => d \in Live
    BY <1>1, <1>4 DEF Only, Live
  <2>3. \A d \in Live : thr[d].fd \in Fds
    BY DEF IInv, Locals, ThreadOK, Live
  <2>4. Unshared'
    <3>1. ASSUME ~fdLocked, NEW d \in Live PROVE thr[d].fd # f /\ sock[thr[d].fd].st = "open"
      BY <1>3, <2>1, <3>1 DEF Unshared
    <3>2. QED
      BY <1>2, <1>4, <1>5, <2>1, <2>2, <2>3, <3>1 DEF Unshared, Live
  <2>5. LastCloser'
    <3>1. \A d \in Conns : thr[d].pc \in Closing => d \in Live /\ thr[d].fd # f
      BY <1>3, <2>1 DEF LastCloser, Live, Closing
    <3>2. \A d \in Conns : thr'[d].pc \in Closing =>
            d \in Live /\ thr'[d] = thr[d] /\ thr[d].pc \in Closing
      BY <2>2 DEF Closing
    <3>3. ASSUME NEW d \in Conns, thr'[d].pc \in Closing
          PROVE  /\ fdLocked'
                 /\ sock'[thr'[d].fd].st # "free"
                 /\ \A e \in Conns : thr'[e].pc \in Closing => e = d
                 /\ \A e \in Live' : thr'[e].fd = thr'[d].fd => e = d
                 /\ \A i \in DOMAIN fds' : fds'[i].fd # thr'[d].fd
      <4>1. d \in Live /\ thr'[d] = thr[d] /\ thr[d].pc \in Closing /\ thr[d].fd # f
        BY <3>1, <3>2, <3>3
      <4>2. sock'[thr[d].fd] = sock[thr[d].fd]
        BY <1>5, <2>3, <4>1
      <4>3. \A e \in Live' : thr'[e].fd = thr'[d].fd => e \in Live /\ thr'[e] = thr[e]
        BY <1>4, <2>2, <4>1 DEF Live
      <4>4. QED
        BY <1>2, <2>1, <3>2, <4>1, <4>2, <4>3 DEF LastCloser
    <3>4. ASSUME NEW h \in Fds, sock'[h].st = "shut"
          PROVE  \E d \in Conns : thr'[d].pc = "close" /\ thr'[d].fd = h
      <4>1. sock[h].st = "shut"
        BY <1>5, <3>4
      <4>2. PICK d \in Conns : thr[d].pc = "close" /\ thr[d].fd = h
        BY <2>1, <4>1 DEF LastCloser
      <4>3. QED
        BY <2>2, <4>2 DEF Live
    <3>5. QED
      BY <3>3, <3>4 DEF LastCloser
  <2>6. Served'
    <3>1. \A d \in Conns : thr[d].pc = "unregister" => thr'[d] = thr[d]
      BY <2>2 DEF Live
    <3>2. \A d \in Conns : thr'[d].pc \in {"loginack", "spawn", "readself"} => thr'[d] = thr[d]
      BY <2>2
    <3>3. QED
      BY <1>2, <2>1, <3>1, <3>2 DEF Served, Listed, TakenOut
  <2>7. Unharmed'
    BY <1>2, <1>4, <2>1 DEF Unharmed, Only
  <2>8. QED
    BY <2>4, <2>5, <2>6, <2>7 DEF Calm
<1>7. SocketsKnown'
  BY <1>5 DEF CInv, SocketsKnown
<1>8. SendersKnown'
  BY <1>2, SendersStay DEF CInv
<1>9. Quiet' => Quiet
  BY <1>1, <1>2 DEF Quiet, DirBoxes, Typed
<1>10. QED
  BY <1>6, <1>7, <1>8, <1>9 DEF CInv

-----------------------------------------------------------------------------
(* The mailbox service threads. *)

(* A step of one of them that makes it neither another mailbox's nor        *)
(* another descriptor's.                                                    *)
LEMMA ServiceKeeps ==
  ASSUME CInv, UNCHANGED <<peer, sock, thr, dir, fds, fdLocked, main>>,
         DOMAIN box' = DOMAIN box, Quiet => crash' = "none", SendersKnown',
         \A a \in Boxes : svc'[a].pc # "unborn"
           => svc[a].pc # "unborn" /\ svc'[a].fd = svc[a].fd
  PROVE  CInv'
<1>1. SocketsKnown'
  BY SocketsStay DEF CInv
<1>2. Quiet' => Calm'
  BY QuietStays, ServiceMoved DEF CInv
<1>3. QED
  BY <1>1, <1>2 DEF CInv

LEMMA ServiceIs ==
  ASSUME Typed, NEW b \in Boxes, NEW s, svc' = [svc EXCEPT ![b] = s],
         svc[b].pc # "unborn", s.fd = svc[b].fd
  PROVE  /\ svc'[b] = s /\ \A a \in Boxes \ {b} : svc'[a] = svc[a]
         /\ \A a \in Boxes : svc'[a].pc # "unborn"
              => svc[a].pc # "unborn" /\ svc'[a].fd = svc[a].fd
         /\ s.pc # "rrcpt" =>
              \A a \in Boxes : svc'[a].pc = "rrcpt"
                => svc[a].pc = "rrcpt" /\ svc'[a].entry = svc[a].entry
BY DEF Typed

LEMMA ServiceIsAt ==
  ASSUME Typed, NEW b \in Boxes, NEW pc, SvcGoto(b, pc), pc # "rrcpt",
         svc[b].pc # "unborn"
  PROVE  /\ \A a \in Boxes : svc'[a].pc # "unborn"
              => svc[a].pc # "unborn" /\ svc'[a].fd = svc[a].fd
         /\ \A a \in Boxes : svc'[a].pc = "rrcpt"
              => svc[a].pc = "rrcpt" /\ svc'[a].entry = svc[a].entry
<1> DEFINE s == [svc[b] EXCEPT !.pc = pc]
<1>1. svc' = [svc EXCEPT ![b] = s]
  BY DEF SvcGoto
<1>2. s.fd = svc[b].fd /\ s.pc = pc
  BY DEF Typed, Services
<1> HIDE DEF s
<1>3. QED
  BY <1>1, <1>2, ServiceIs

LEMMA SvcGotoKeeps ==
  ASSUME IInv, CInv, crash = "none", NEW b \in Boxes,
         SvcStart(b) \/ SvcStop(b) \/ SvcDecr(b) \/ SvcEnd(b)
  PROVE  CInv'
<1>1. Typed
  BY DEF IInv
<1>2. UNCHANGED <<peer, sock, thr, dir, fds, fdLocked, box, main, crash>>
  BY DEF SvcStart, SvcStop, SvcDecr, SvcEnd, clients, registry
<1>3. PICK pc \in {"wait", "unref", "unlock", "done"} :
        SvcGoto(b, pc) /\ svc[b].pc # "unborn"
  BY DEF SvcStart, SvcStop, SvcDecr, SvcEnd
<1>4. /\ \A a \in Boxes : svc'[a].pc # "unborn"
           => svc[a].pc # "unborn" /\ svc'[a].fd = svc[a].fd
      /\ \A a \in Boxes : svc'[a].pc = "rrcpt"
           => svc[a].pc = "rrcpt" /\ svc'[a].entry = svc[a].entry
  BY <1>1, <1>3, ServiceIsAt
<1>5. SendersKnown'
  BY <1>2, <1>4, SendersStay DEF CInv
<1>6. QED
  BY <1>2, <1>4, <1>5, ServiceKeeps

(* The entry that mb_next_entry returns is one that was queued. *)
LEMMA SvcGetKeeps ==
  ASSUME IInv, CInv, crash = "none", NEW b \in Boxes, SvcGet(b)
  PROVE  CInv'
<1> DEFINE q == box[b].queue
           e == Head(q)
           s == [svc[b] EXCEPT !.entry = <<e>>,
                   !.pc = IF e.kind = "message" THEN "rrcpt" ELSE "send"]
<1>1. Typed /\ svc[b] \in Services /\ SendersKnown
  BY DEF IInv, Typed, CInv
<1>2. UNCHANGED <<peer, sock, thr, dir, fds, fdLocked, main, crash>>
  BY DEF SvcGet, clients, registry
<1>3. svc[b].pc = "wait" /\ b \in DOMAIN box
  BY ServedExists DEF SvcGet
<1>4. svc' = [svc EXCEPT ![b] = s] /\ box' = [box EXCEPT ![b].queue = Tail(q)] /\ q # <<>>
  BY DEF SvcGet
<1>5. q \in Seq(Entries)
  BY <1>1, <1>3, BoxTyped DEF Mailboxes
<1>6. box[b] \in Mailboxes
  BY <1>1, <1>3, BoxTyped
<1>7. DOMAIN box' = DOMAIN box /\ box'[b].queue = Tail(q)
      /\ \A a \in DOMAIN box \ {b} : box'[a] = box[a]
  BY <1>3, <1>4, <1>6 DEF Mailboxes
<1>8. /\ Len(q) \in Nat /\ DOMAIN q = 1 .. Len(q) /\ 1 \in DOMAIN q /\ q[1] = e
      /\ \A i \in DOMAIN Tail(q) : i + 1 \in DOMAIN q /\ Tail(q)[i] = q[i + 1]
  <2> HIDE DEF q
  <2>1. /\ Len(q) \in Nat /\ DOMAIN q = 1 .. Len(q) /\ Len(q) # 0
        /\ Tail(q) \in Seq(Entries) /\ Len(Tail(q)) = Len(q) - 1
        /\ \A i \in 1 .. Len(Tail(q)) : Tail(q)[i] = q[i + 1]
    BY <1>4, <1>5, HeadTailProperties, LenProperties, EmptySeq
  <2>2. DOMAIN Tail(q) = 1 .. Len(q) - 1
    BY <2>1, LenProperties
  <2>3. Head(q) = q[1]
    BY <1>5, <2>1
  <2>4. QED
    BY <2>1, <2>2, <2>3
<1>9. \A i \in DOMAIN q : FromKnown(q[i])
  BY <1>1, <1>3 DEF SendersKnown
<1>10. /\ s.fd = svc[b].fd /\ s.entry = <<e>>
       /\ s.pc = IF e.kind = "message" THEN "rrcpt" ELSE "send"
  <2> HIDE DEF e
  <2>1. QED
    BY <1>1 DEF Services
<1>11. FromKnown(e)
  BY <1>8, <1>9
<1> HIDE DEF q, e, s
<1>12. /\ svc'[b] = s /\ \A a \in Boxes \ {b} : svc'[a] = svc[a]
       /\ \A a \in Boxes : svc'[a].pc # "unborn"
            => svc[a].pc # "unborn" /\ svc'[a].fd = svc[a].fd
  BY <1>1, <1>3, <1>4, <1>10, ServiceIs
<1>13. SendersKnown'
  <2>1. ASSUME NEW a \in DOMAIN box', NEW i \in DOMAIN box'[a].queue
        PROVE  FromKnown(box'[a].queue[i])
    <3>1. CASE a = b
      BY <1>7, <1>8, <1>9, <2>1, <3>1
    <3>2. CASE a # b
      BY <1>1, <1>7, <2>1, <3>2 DEF SendersKnown
    <3>3. QED
      BY <3>1, <3>2
  <2>2. ASSUME NEW a \in Boxes, svc'[a].pc = "rrcpt"
        PROVE  svc'[a].entry[1].from \in DOMAIN box
    <3>1. CASE a = b
      <4>1. e.kind = "message" /\ svc'[b].entry = <<e>>
        BY <1>10, <1>12, <2>2, <3>1
      <4>2. svc'[b].entry[1] = e
        BY <4>1
      <4>3. QED
        BY <1>11, <3>1, <4>1, <4>2 DEF FromKnown
    <3>2. CASE a # b
      BY <1>1, <1>12, <2>2, <3>2 DEF SendersKnown
    <3>3. QED
      BY <3>1, <3>2
  <2>3. QED
    BY <1>7, <2>1, <2>2 DEF SendersKnown, FromKnown
<1>14. QED
  BY <1>2, <1>7, <1>12, <1>13, ServiceKeeps DEF Quiet

(* A receipt goes to a mailbox that is registered, and so is there. *)
LEMMA SvcReceiptKeeps ==
  ASSUME IInv, CInv, crash = "none", NEW b \in Boxes, SvcReceipt(b)
  PROVE  CInv'
<1> DEFINE f == svc[b].entry[1].from
<1>1. Typed /\ Registered /\ SendersKnown /\ svc[b].pc = "rrcpt"
  BY DEF IInv, CInv, SvcReceipt
<1>2. UNCHANGED <<peer, sock, thr, dir, fds, fdLocked, main>>
  BY DEF SvcReceipt, clients, registry
<1>3. f \in DOMAIN box
  BY <1>1 DEF SendersKnown
<1>4. /\ \A a \in Boxes : svc'[a].pc # "unborn"
           => svc[a].pc # "unborn" /\ svc'[a].fd = svc[a].fd
      /\ \A a \in Boxes : svc'[a].pc = "rrcpt"
           => svc[a].pc = "rrcpt" /\ svc'[a].entry = svc[a].entry
  BY <1>1, ServiceIsAt DEF SvcReceipt
<1>5. \/ box[f].freed /\ UNCHANGED box
      \/ box' = Added(f, Notice("rrcpt", "none")) /\ UNCHANGED crash
  BY DEF SvcReceipt
<1> HIDE DEF f
<1>6. Quiet => ~box[f].freed
  BY <1>3, RegisteredHere
<1>7. SendersKnown' /\ DOMAIN box' = DOMAIN box
  <2>1. CASE UNCHANGED box
    BY <1>1, <1>4, <2>1, SendersStay
  <2>2. CASE box' = Added(f, Notice("rrcpt", "none"))
    <3>1. Notice("rrcpt", "none") \in Entries /\ FromKnown(Notice("rrcpt", "none"))
      BY DEF Notice, Entries, FromKnown, Pointers
    <3>2. DOMAIN box' = DOMAIN box
      BY <2>2 DEF Added
    <3>3. QED
      BY <1>1, <1>3, <1>4, <2>2, <3>1, <3>2, SendersAdded
  <2>3. QED
    BY <1>5, <2>1, <2>2
<1>8. Quiet => crash' = "none"
  <2>1. ASSUME Quiet PROVE UNCHANGED crash
    BY <1>6, <2>1 DEF SvcReceipt, f
  <2>2. QED
    BY <2>1
<1>9. QED
  BY <1>2, <1>4, <1>7, <1>8, ServiceKeeps

(* Nobody shuts down the socket of a mailbox that is registered. *)
LEMMA SvcSendKeeps ==
  ASSUME IInv, CInv, crash = "none", NEW b \in Boxes, SvcSend(b)
  PROVE  CInv'
<1> DEFINE f == svc[b].fd
           s == [svc[b] EXCEPT !.pc = "wait", !.entry = <<>>]
<1>1. Typed /\ svc[b] \in Services /\ svc[b].pc = "send"
  BY DEF IInv, Typed, SvcSend
<1>2. UNCHANGED <<peer, sock, thr, dir, fds, fdLocked, box, main>>
  BY DEF SvcSend, registry
<1>3. svc' = [svc EXCEPT ![b] = s]
  BY DEF SvcSend
<1>4. s.pc = "wait" /\ s.fd = svc[b].fd
  BY <1>1 DEF Services
<1>5. /\ \A a \in Boxes : svc'[a].pc # "unborn"
           => svc[a].pc # "unborn" /\ svc'[a].fd = svc[a].fd
      /\ \A a \in Boxes : svc'[a].pc = "rrcpt"
           => svc[a].pc = "rrcpt" /\ svc'[a].entry = svc[a].entry
  <2> HIDE DEF s
  <2>1. QED
    BY <1>1, <1>3, <1>4, ServiceIs
<1>6. PICK a : Write(f, a)
  BY DEF SvcSend
<1> HIDE DEF f, s
<1>7. ASSUME Quiet PROVE crash' = "none"
  <2>1. LastCloser /\ (Listed(f, b) \/ TakenOut(f, b))
    BY <1>1, <1>7 DEF CInv, Calm, Served, f
  <2>2. f \in Fds
    <3>1. CASE Listed(f, b)
      BY <1>1, <3>1, ListsTyped DEF Listed, FdNodes
    <3>2. CASE TakenOut(f, b)
      BY <3>2 DEF TakenOut, IInv, Locals, ThreadOK
    <3>3. QED
      BY <2>1, <3>1, <3>2
  <2>3. sock[f].st # "shut"
    <3>1. SUFFICES ASSUME sock[f].st = "shut" PROVE FALSE
      OBVIOUS
    <3>2. PICK c \in Conns : thr[c].pc = "close" /\ thr[c].fd = f
      BY <2>1, <2>2, <3>1 DEF LastCloser
    <3>3. /\ \A i \in DOMAIN fds : fds[i].fd # f
          /\ \A d \in Live : thr[d].fd = f => d = c
      BY <2>1, <3>2 DEF LastCloser, Closing
    <3>4. CASE Listed(f, b)
      BY <3>3, <3>4 DEF Listed
    <3>5. CASE TakenOut(f, b)
      BY <3>2, <3>3, <3>5 DEF TakenOut, Live
    <3>6. QED
      BY <2>1, <3>4, <3>5
  <2>4. QED
    BY <1>1, <1>6, <1>7, <2>2, <2>3, WriteIsSafe
<1>8. SendersKnown'
  BY <1>2, <1>5, SendersStay DEF CInv
<1>9. QED
  BY <1>2, <1>5, <1>7, <1>8, ServiceKeeps

LEMMA SvcUnrefKeeps ==
  ASSUME IInv, CInv, crash = "none", NEW b \in Boxes, SvcUnref(b)
  PROVE  CInv'
<1>1. Typed /\ svc[b].pc = "unref" /\ b \in DOMAIN box /\ Alive(b) = 1
  BY ServedExists DEF IInv, SvcUnref, Alive
<1>2. UNCHANGED <<peer, sock, thr, dir, fds, fdLocked, main>>
  BY DEF SvcUnref, clients, registry
<1>3. Unref(b, SvcGoto(b, "decr"), SvcGoto(b, "hung"))
  BY DEF SvcUnref
<1>4. SvcGoto(b, "decr") \/ SvcGoto(b, "hung")
  BY <1>3, UnrefOn
<1>5. /\ \A a \in Boxes : svc'[a].pc # "unborn"
           => svc[a].pc # "unborn" /\ svc'[a].fd = svc[a].fd
      /\ \A a \in Boxes : svc'[a].pc = "rrcpt"
           => svc[a].pc = "rrcpt" /\ svc'[a].entry = svc[a].entry
  BY <1>1, <1>4, ServiceIsAt
<1>6. SendersKnown' /\ DOMAIN box' = DOMAIN box
  BY <1>1, <1>3, <1>5, UnrefSenders DEF CInv
<1>7. Quiet => crash' = "none"
  BY <1>1, <1>3, UnrefIsSafe
<1>8. QED
  BY <1>2, <1>5, <1>6, <1>7, ServiceKeeps

-----------------------------------------------------------------------------
(* Nothing is asked of the server once a client has gone or a shutdown has  *)
(* begun.                                                                   *)

LEMMA CloseKeeps ==
  ASSUME IInv, CInv, NEW c \in Conns, Close(c)
  PROVE  CInv'
<1>1. Typed /\ UNCHANGED <<sock, svc, box>> /\ peer' = [peer EXCEPT ![c] = "gone"]
  BY DEF IInv, Close
<1>2. ~Quiet'
  BY <1>1 DEF Typed, Quiet
<1>3. SendersKnown' /\ SocketsKnown'
  BY <1>1, SendersStay, SocketsStay DEF CInv
<1>4. QED
  BY <1>2, <1>3 DEF CInv

LEMMA EndKeeps ==
  ASSUME IInv, CInv, Sighup \/ MainStep \/ TouchFreed
  PROVE  CInv'
<1>1. Typed
  BY DEF IInv
<1>2. ~Quiet'
  BY DEF Quiet, Sighup, MainStep, WaitCheck, WaitP, Fini, DirFini, Exit, TouchFreed, Freed
<1>3. UNCHANGED svc
  BY DEF Sighup, MainStep, WaitCheck, WaitP, Fini, DirFini, Exit, TouchFreed
<1>4. \A f \in Fds : sock'[f].st # "free" => sock[f].st # "free" /\ sock'[f].conn = sock[f].conn
  <2>1. CASE Sighup
    <3>1. sock' = [f \in Fds |->
                     IF sock[f].st = "open" /\ \E i \in DOMAIN dir : dir[i].fd = f
                     THEN [sock[f] EXCEPT !.st = "shut"] ELSE sock[f]]
      BY <2>1 DEF Sighup
    <3>2. ASSUME NEW f \in Fds, sock'[f].st # "free"
          PROVE  sock[f].st # "free" /\ sock'[f].conn = sock[f].conn
      <4>1. sock[f] \in [st : {"free", "open", "shut"}, conn : Conns \cup {"none"}]
        BY <1>1 DEF Typed
      <4>2. \/ sock'[f] = sock[f]
            \/ sock[f].st = "open" /\ sock'[f] = [sock[f] EXCEPT !.st = "shut"]
        BY <3>1
      <4>3. QED
        BY <3>2, <4>1, <4>2
    <3>3. QED
      BY <3>2
  <2>2. CASE MainStep \/ TouchFreed
    BY <2>2 DEF MainStep, WaitCheck, WaitP, Fini, DirFini, Exit, TouchFreed
  <2>3. QED
    BY <2>1, <2>2
<1>5. DOMAIN box' = DOMAIN box /\ \A b \in DOMAIN box : box'[b].queue = box[b].queue
  <2>1. CASE DirFini
    <3>1. box' = [b \in DOMAIN box |->
                    IF b \in DirBoxes
                    THEN [box[b] EXCEPT !.ref = @ - 1, !.defunct = TRUE] ELSE box[b]]
      BY <2>1 DEF DirFini
    <3>2. ASSUME NEW b \in DOMAIN box PROVE box'[b].queue = box[b].queue
      <4>1. box[b] \in Mailboxes
        BY <1>1, BoxTyped
      <4>2. \/ box'[b] = box[b]
            \/ box'[b] = [box[b] EXCEPT !.ref = @ - 1, !.defunct = TRUE]
        BY <3>1
      <4>3. QED
        BY <4>1, <4>2 DEF Mailboxes
    <3>3. QED
      BY <3>1, <3>2
  <2>2. CASE ~DirFini
    BY <2>2 DEF Sighup, MainStep, WaitCheck, WaitP, Fini, Exit, TouchFreed
  <2>3. QED
    BY <2>1, <2>2
<1>6. SendersKnown' /\ SocketsKnown'
  BY <1>3, <1>4, <1>5, SendersStay, SocketsStay DEF CInv
<1>7. QED
  BY <1>2, <1>6 DEF CInv

-----------------------------------------------------------------------------
LEMMA InitCInv == Init => CInv
<1> SUFFICES ASSUME Init PROVE CInv
  OBVIOUS
<1>1. SocketsKnown
  BY DEF Init, Free, SocketsKnown
<1>2. SendersKnown
  BY DEF Init, NoService, SendersKnown
<1>3. Unshared /\ LastCloser
  BY DEF Init, Free, NoThread, Unshared, LastCloser, Live, Closing
<1>4. Served /\ Unharmed
  BY DEF Init, NoThread, NoService, Served, Unharmed
<1>5. QED
  BY <1>1, <1>2, <1>3, <1>4 DEF CInv, Calm

LEMMA HandleKeeps ==
  ASSUME IInv, CInv, crash = "none", NEW c \in Conns, Handle(c)
  PROVE  CInv'
<1>1. CASE Register(c) \/ AddNode(c) \/ LoginAck(c) \/ Spawn(c)
  BY <1>1, RegisterKeeps, AddNodeKeeps, AddKeeps, SpawnKeeps
<1>2. CASE RemoveNode(c) \/ Unregister(c) \/ ShutSocket(c) \/ CloseSocket(c)
  BY <1>2, RemoveNodeKeeps, UnregisterKeeps, ShutSocketKeeps, CloseSocketKeeps
<1>3. CASE Users(c) \/ Lookup(c) \/ ReadNode(c) \/ FindSelf(c) \/ ReadSelf(c)
  BY <1>3, UsersKeeps, LookupKeeps, ReadKeeps, FindSelfKeeps
<1>4. CASE AddNotice(c) \/ AddMessage(c) \/ Ack(c) \/ Nack(c)
  BY <1>4, AddKeeps, AnswerKeeps
<1>5. CASE UnrefSender(c) \/ UnrefReceiver(c)
  BY <1>5, UnrefKeeps
<1>6. QED
  BY <1>1, <1>2, <1>3, <1>4, <1>5 DEF Handle

LEMMA NextCInv == IInv /\ CInv /\ [Next]_vars => CInv'
<1> SUFFICES ASSUME IInv, CInv, [Next]_vars PROVE CInv'
  OBVIOUS
<1>1. CASE Next
  <2>1. crash = "none"
    BY <1>1 DEF Next, Running
  <2>2. CASE ClientInput
    BY <2>1, <2>2, AcceptKeeps, CloseKeeps, ReceiveKeeps DEF ClientInput
  <2>3. CASE Sighup \/ MainStep \/ TouchFreed
    BY <2>3, EndKeeps
  <2>4. ASSUME NEW c \in Conns, ClientStep(c) PROVE CInv'
    BY <2>1, <2>4, StartAndEnd, HandleKeeps DEF ClientStep
  <2>5. ASSUME NEW b \in Boxes, SvcStep(b) PROVE CInv'
    BY <2>1, <2>5, SvcGotoKeeps, SvcGetKeeps, SvcReceiptKeeps, SvcSendKeeps, SvcUnrefKeeps
       DEF SvcStep
  <2>6. QED
    BY <1>1, <2>2, <2>3, <2>4, <2>5 DEF Next
<1>2. CASE UNCHANGED vars
  <2>1. UNCHANGED <<peer, sock, thr, svc, dir, fds, fdLocked, box, main, crash>>
    BY <1>2 DEF vars
  <2>2. SocketsKnown' /\ SendersKnown'
    BY <2>1, SocketsStay, SendersStay DEF CInv
  <2>3. Quiet' => Quiet
    BY <2>1, QuietStays
  <2>4. Unshared' <=> Unshared
    BY <2>1 DEF Unshared, Live
  <2>5. LastCloser' <=> LastCloser
    BY <2>1 DEF LastCloser, Live
  <2>6. (Served' <=> Served) /\ (Unharmed' <=> Unharmed)
    BY <2>1 DEF Served, Listed, TakenOut, Unharmed
  <2>7. QED
    BY <2>2, <2>3, <2>4, <2>5, <2>6 DEF CInv, Calm
<1>3. QED
  BY <1>1, <1>2

(* Until a mailbox is unregistered, a client goes or a shutdown begins, the *)
(* process lives, no mailbox is finalized and no thread is caught in a      *)
(* finalization, whatever the clients ask.  Threads may all the same wait   *)
(* for ever, for the list's mutex that a LOGOUT without a login has left    *)
(* locked.                                                                  *)
THEOREM NothingCrashes == Spec => []NoCrash
<1>1. IInv /\ CInv => NoCrash
  <2>1. ASSUME IInv, CInv, Quiet
        PROVE  /\ crash = "none"
               /\ \A b \in DOMAIN box : ~box[b].freed /\ ~box[b].busy
               /\ \A c \in Conns : thr[c].pc # "hung"
    BY <2>1, RegisteredHere DEF CInv, Calm, Unharmed
  <2>2. QED
    BY <2>1 DEF NoCrash, Quiet
<1>2. IInv /\ CInv /\ [Next]_vars => (CInv)'
  BY NextCInv
<1>3. QED
  BY <1>1, <1>2, InitCInv, Invariance, PTL DEF Spec
=============================================================================
