------------------------------- MODULE Server -------------------------------
(***************************************************************************)
(* The Bavarde server (hw5/src): the main thread of main.c, one client      *)
(* service thread per connection and one mailbox service thread per login   *)
(* (server.c), the directory (directory.c), the list of descriptors with    *)
(* their mailboxes (server.c), the mailboxes, the thread counter, and the   *)
(* clients on the other end of the sockets.                                 *)
(*                                                                          *)
(* A critical section is one step; what a handler does between two of them  *)
(* is interleaved with every other thread.  Two results proved about the    *)
(* parts are used to make a step of several: a mailbox is a queue           *)
(* (MailboxIsQueue), so that the P, the test and the removal of             *)
(* mb_next_entry are one step, and dir_unregister's mb_unref is never the   *)
(* last (NobodyUsesFreed), so that its mb_unref and mb_shutdown are one.    *)
(*                                                                          *)
(* A packet is sent in one step here; module Wire splits it.                *)
(***************************************************************************)
EXTENDS Integers, Sequences, FiniteSets, SequencesExt

CONSTANTS
  Conns,      \* connections clients may make, each with its service thread
  Handles,    \* user names
  Fds,        \* descriptors accept() may return, the lowest free one first
  Inputs,     \* what clients and the operator do in this instance
  MaxReqs,    \* bound: requests of all clients together
  MaxBoxes,   \* bound: mailboxes ever created
  MaxQueue    \* bound: entries in a mailbox

NULL == 0
Boxes == 1 .. MaxBoxes
AllInputs == {"LOGIN", "BADLOGIN", "LOGOUT", "USERS", "SEND", "CLOSE", "SIGHUP"}

ASSUME ConstantsOK ==
  /\ Inputs \subseteq AllInputs
  /\ Fds \subseteq Nat \ {0}
  /\ MaxReqs \in Nat /\ MaxBoxes \in Nat /\ MaxQueue \in Nat
  /\ IsFiniteSet(Conns) /\ Conns \cap Boxes = {}

VARIABLES
  peer,       \* the client of each connection: "new", "open", "gone"
  budget,     \* requests clients may still send
  owed,       \* requests it waits for an answer to
  sock,       \* descriptor table: state and connection of each descriptor
  thr,        \* client service threads: pc, fd, hdr and the locals of a request
  svc,        \* mailbox service threads: pc, fd and the entry in hand
  dir,        \* dir->head: the list of [name, fd, box]
  dirDefunct, \* dir->defunct, or "freed" once dir_fini has freed the list
  fds,        \* head of server.c: the list of [fd, box]
  fdLocked,   \* the mutex of that list stays locked for ever
  box,        \* mailboxes created so far: ref, defunct, queue, freed,
              \* and busy: a finalization hangs with the mutex locked
  counter, tcsem, main,   \* the thread counter and the main thread
  crash       \* "none", or how the process died

clients == <<peer, budget, owed>>
registry == <<dir, dirDefunct, fds, fdLocked>>
tcount == <<counter, tcsem>>
vars == <<peer, budget, owed, sock, thr, svc, dir, dirDefunct, fds, fdLocked, box,
          counter, tcsem, main, crash>>

NoReq == [type |-> "none", handle |-> "none", conn |-> "none"]
NoThread == [pc |-> "unborn", fd |-> NULL, hdr |-> "garbage", req |-> NoReq,
             rcv |-> NULL, snd |-> NULL]
NoService == [pc |-> "unborn", fd |-> NULL, entry |-> <<>>]

(* A notice that answers a request names, for the properties, the           *)
(* connection the request came from.                                        *)
Notice(kind, to) == [kind |-> kind, from |-> NULL, to |-> to]
Message(from) == [kind |-> "message", from |-> from, to |-> "none"]

Free == [st |-> "free", conn |-> "none"]

Requests ==
  [type : {"LOGIN", "SEND"} \cap Inputs, handle : Handles]
    \cup [type : {"BADLOGIN", "LOGOUT", "USERS"} \cap Inputs, handle : {"none"}]

Init ==
  /\ peer = [c \in Conns |-> "new"]
  /\ budget = MaxReqs
  /\ owed = [c \in Conns |-> 0]
  /\ sock = [f \in Fds |-> Free]
  /\ thr = [c \in Conns |-> NoThread]
  /\ svc = [b \in Boxes |-> NoService]
  /\ dir = <<>> /\ dirDefunct = "no"
  /\ fds = <<>> /\ fdLocked = FALSE
  /\ box = <<>>
  /\ counter = 0 /\ tcsem = 0 /\ main = "accepting"
  /\ crash = "none"

-----------------------------------------------------------------------------
(* Helpers. *)
Goto(c, pc) == thr' = [thr EXCEPT ![c].pc = pc]

DirBoxes == {dir[i].box : i \in DOMAIN dir}
FdBoxes == {fds[i].box : i \in DOMAIN fds}

(* mb_ref, in dir_lookup and FDLookup; and a mutant that forgets it.        *)
RefForgotten(b) == box
Ref(b) == [box EXCEPT ![b].ref = @ + 1]

(* What dir_unregister does to the mailbox: mb_unref and mb_shutdown.  The  *)
(* mutant leaves the mb_shutdown out.                                       *)
UnrefOnly(b) == [box EXCEPT ![b].ref = @ - 1]
UnrefAndShutdown(b) == [box EXCEPT ![b].ref = @ - 1, ![b].defunct = TRUE]

(* mb_add_message, mb_add_notice: neither looks at defunct. *)
Added(b, e) == [box EXCEPT ![b].queue = Append(@, e)]

(* mb_unref of the last count.  Finalization begins with the first entry    *)
(* and, if that is a message, with mb_unref(from), which finalizes the      *)
(* sender's mailbox in turn when it takes its last count: Chain(b) has the  *)
(* mailboxes that this thread has locked when it can go no further.         *)
Nested(f) == /\ f \in DOMAIN box /\ box[f].ref = 1 /\ box[f].queue # <<>>
             /\ ~box[f].freed /\ ~box[f].busy

Discards(b) == box[b].queue # <<>> /\ Head(box[b].queue).kind = "message"
Sender(b) == Head(box[b].queue).from

Chain(b) ==
  {x \in DOMAIN box :
     \A S \in SUBSET (DOMAIN box) :
       /\ b \in S
       /\ \A y \in S : Discards(y) /\ Nested(Sender(y)) => Sender(y) \in S
       => x \in S}

(* An empty mailbox is freed.  The thread hangs on a mutex it has locked    *)
(* itself, or one that another finalization has left locked.  A sender's    *)
(* mailbox is used after it has been freed, by mb_unref or, freed by that   *)
(* very mb_unref, by the discard hook.  Otherwise the first free() of the   *)
(* inside of an entry aborts the process.                                   *)
Finalization(b) ==
  LET Ends(P(_)) == \E x \in Chain(b) : Discards(x) /\ P(Sender(x))
      Locked(f) == f \in Chain(b) \/ box[f].busy
      Gone(f) == box[f].freed \/ (box[f].ref = 1 /\ box[f].queue = <<>>)
  IN  IF box[b].queue = <<>> THEN "freed"
      ELSE IF Ends(Locked) THEN "hang"
      ELSE IF Ends(Gone) THEN "fault" ELSE "abort"

(* mb_unref(b) by a thread that goes on with `done` or hangs with `hung`.   *)
(* A finalization that hangs keeps every mailbox it has come to.            *)
Unref(b, done, hung) ==
  /\ ~box[b].busy
  /\ IF box[b].ref # 1
     THEN box' = [box EXCEPT ![b].ref = @ - 1] /\ done /\ UNCHANGED crash
     ELSE LET out == Finalization(b) IN
          /\ box' = [x \in DOMAIN box |->
                       IF x = b \/ (out = "hang" /\ x \in Chain(b))
                       THEN [box[x] EXCEPT !.ref = 0, !.freed = (out = "freed"),
                                           !.busy = (out = "hang")]
                       ELSE box[x]]
          /\ crash' = IF out \in {"abort", "fault"} THEN out ELSE "none"
          /\ IF out = "hang" THEN hung ELSE done

(* proto_send_packet on descriptor f; to: the connection whose request the  *)
(* packet answers, "none" if it is no answer.  What arrives at another      *)
(* connection answers nothing.  Nothing handles SIGPIPE; a failed write is  *)
(* ignored.                                                                 *)
Write(f, to) ==
  LET c == sock[f].conn IN
  \/ sock[f].st = "free" /\ UNCHANGED <<owed, crash>>
  \/ sock[f].st = "shut" /\ crash' = "sigpipe" /\ UNCHANGED owed
  \/ /\ sock[f].st = "open" /\ peer[c] = "open"
     /\ owed' = IF to = c THEN [owed EXCEPT ![c] = @ - 1] ELSE owed
     /\ UNCHANGED crash
  \/ /\ sock[f].st = "open" /\ peer[c] = "gone"
     /\ crash' \in {"none", "sigpipe"} /\ UNCHANGED owed

-----------------------------------------------------------------------------
(* The accept loop and the clients. *)
Accept(c) ==
  /\ main = "accepting" /\ peer[c] = "new"
  /\ \E f \in Fds :
       /\ sock[f].st = "free"
       /\ \A g \in Fds : g < f => sock[g].st # "free"
       /\ sock' = [sock EXCEPT ![f] = [st |-> "open", conn |-> c]]
       /\ thr' = [thr EXCEPT ![c].pc = "created", ![c].fd = f]
  /\ peer' = [peer EXCEPT ![c] = "open"]
  /\ UNCHANGED <<budget, owed, svc, registry, box, tcount, main, crash>>

Close(c) ==
  /\ "CLOSE" \in Inputs
  /\ peer[c] = "open"
  /\ peer' = [peer EXCEPT ![c] = "gone"]
  /\ owed' = [owed EXCEPT ![c] = 0]
  /\ UNCHANGED <<budget, sock, thr, svc, registry, box, tcount, main, crash>>

(* tcnt_incr and tcnt_decr, as in ThreadCounter.                            *)
MutexFree == /\ \A c \in Conns : thr[c].pc # "unlock"
             /\ \A b \in Boxes : svc[b].pc # "unlock"

Freed == main \in {"finalized", "dirfini", "exited"}

CountedInNever ==         \* mutant: the thread does not count itself
  /\ MutexFree /\ ~Freed
  /\ UNCHANGED tcount

CountedIn ==
  /\ MutexFree /\ ~Freed
  /\ counter' = counter + 1
  /\ UNCHANGED tcsem

CountedOutEarly ==        \* mutant: tests for zero before it decrements
  /\ MutexFree /\ ~Freed
  /\ counter' = counter - 1
  /\ tcsem' = IF counter = 0 THEN tcsem + 1 ELSE tcsem

CountedOut ==
  /\ MutexFree /\ ~Freed
  /\ counter' = counter - 1
  /\ tcsem' = IF counter' = 0 THEN tcsem + 1 ELSE tcsem

ClientStart(c) ==
  /\ thr[c].pc = "created" /\ CountedIn
  /\ Goto(c, "recv")
  /\ UNCHANGED <<clients, sock, svc, registry, box, main, crash>>

(* Where handle_packet begins for each type of packet. *)
Handler(type) ==
  CASE type = "LOGIN"    -> "register"
    [] type = "BADLOGIN" -> "nack"
    [] type = "LOGOUT"   -> "remove"
    [] type = "USERS"    -> "users"
    [] type = "SEND"     -> "lookup"

(* proto_recv_packet of a whole packet, which may have come before the     *)
(* socket was shut down.                                                    *)
Receive(c) ==
  LET f == thr[c].fd
      d == sock[f].conn
  IN
  /\ thr[c].pc = "recv"
  /\ sock[f].st # "free" /\ peer[d] = "open" /\ budget > 0
  /\ \E r \in Requests :
       /\ r.type = "LOGIN" =>
            Len(box) + Cardinality({e \in Conns : thr[e].pc = "register"}) < MaxBoxes
       /\ thr' = [thr EXCEPT ![c].pc = Handler(r.type),
                    ![c].req = [type |-> r.type, handle |-> r.handle, conn |-> d],
                    ![c].hdr = CASE r.type = "USERS" -> "USERS"
                                 [] r.type = "LOGOUT" -> "LOGOUT"
                                 [] OTHER -> "payload"]
  /\ budget' = budget - 1
  /\ owed' = [owed EXCEPT ![d] = @ + 1]
  /\ UNCHANGED <<peer, sock, svc, registry, box, tcount, main, crash>>

(* End of file.  The header read returns 0, which proto_recv_packet takes   *)
(* for success: it goes on with the header of the packet before, or with    *)
(* what malloc gave.  If that has a payload, the payload read finds the end *)
(* of file and the thread leaves; if not, the old packet is handled again,  *)
(* without end when its type is none of the requests (hdr = "noop": the     *)
(* thread spins here).                                                      *)
AtEof(f) == sock[f].st = "shut" \/ (sock[f].st = "open" /\ peer[sock[f].conn] = "gone")

(* The receive loop ends, and the header is freed. *)
Leave(c) == thr' = [thr EXCEPT ![c].pc = "decr", ![c].hdr = "garbage"]

ReceiveEof(c) ==
  /\ thr[c].pc = "recv" /\ AtEof(thr[c].fd)
  /\ \/ thr[c].hdr \in {"payload", "garbage"} /\ Leave(c)
     \/ thr[c].hdr = "garbage" /\ thr' = [thr EXCEPT ![c].hdr = "noop"]
     \/ thr[c].hdr \in {"USERS", "LOGOUT"} /\ Goto(c, Handler(thr[c].hdr))
  /\ UNCHANGED <<clients, sock, svc, registry, box, tcount, main, crash>>

(* The descriptor has been closed, or the client has reset the connection:  *)
(* the read fails and the thread leaves.                                    *)
ReceiveError(c) ==
  LET s == sock[thr[c].fd] IN
  /\ thr[c].pc = "recv" /\ (s.st # "free" => peer[s.conn] = "gone")
  /\ Leave(c)
  /\ UNCHANGED <<clients, sock, svc, registry, box, tcount, main, crash>>

-----------------------------------------------------------------------------
(* handle_packet.  Every handler ends back in the receive loop. *)
Done(c) == [thr EXCEPT ![c].pc = "recv", ![c].req = NoReq, ![c].rcv = NULL, ![c].snd = NULL]
Finish(c) == thr' = Done(c)

(* sendNoticePacket by the client service thread itself.  It answers with   *)
(* the header of the request, and leaves it there.                          *)
Nack(c) ==
  /\ thr[c].pc = "nack"
  /\ Write(thr[c].fd, thr[c].req.conn)
  /\ IF thr[c].rcv = NULL
     THEN thr' = [Done(c) EXCEPT ![c].hdr = "noop"]
     ELSE thr' = [thr EXCEPT ![c].pc = "unrefrcv", ![c].hdr = "noop"]
  /\ UNCHANGED <<peer, budget, sock, svc, registry, box, tcount, main>>

Ack(c) ==
  /\ thr[c].pc = "ack"
  /\ Write(thr[c].fd, thr[c].req.conn)
  /\ LET h == IF thr[c].req.handle = "listed" THEN "payload" ELSE "noop" IN
     IF thr[c].snd = NULL
     THEN thr' = [Done(c) EXCEPT ![c].hdr = h]
     ELSE thr' = [thr EXCEPT ![c].pc = "unrefsnd", ![c].hdr = h]
  /\ UNCHANGED <<peer, budget, sock, svc, registry, box, tcount, main>>

(* LOGIN: dir_register refuses a handle that is registered, and any handle  *)
(* once the directory is defunct.  Mutants drop one test or the other.      *)
RefusedByHandle(name) == \E i \in DOMAIN dir : dir[i].name = name
RefusedDefunct(name) == dirDefunct # "no"
Refused(name) == dirDefunct # "no" \/ \E i \in DOMAIN dir : dir[i].name = name

(* mb_init and one more mb_ref.                                             *)
NewBox(c) == [name |-> thr[c].req.handle, ref |-> 2, defunct |-> FALSE,
              queue |-> <<>>, freed |-> FALSE, busy |-> FALSE]

Register(c) ==
  LET b == Len(box) + 1
      name == thr[c].req.handle
  IN
  /\ thr[c].pc = "register" /\ b \in Boxes
  /\ IF Refused(name)
     THEN Goto(c, "nack") /\ UNCHANGED <<dir, box>>
     ELSE /\ box' = Append(box, NewBox(c))
          /\ dir' = Append(dir, [name |-> name, fd |-> thr[c].fd, box |-> b])
          /\ thr' = [thr EXCEPT ![c].pc = "addnode", ![c].rcv = b]
  /\ UNCHANGED <<clients, sock, svc, dirDefunct, fds, fdLocked, tcount, main, crash>>

AddNode(c) ==
  /\ thr[c].pc = "addnode" /\ ~fdLocked
  /\ fds' = Append(fds, [fd |-> thr[c].fd, box |-> thr[c].rcv])
  /\ Goto(c, "loginack")
  /\ UNCHANGED <<clients, sock, svc, dir, dirDefunct, fdLocked, box, tcount, main, crash>>

LoginAck(c) ==
  LET b == thr[c].rcv IN
  /\ thr[c].pc = "loginack"
  /\ Len(box[b].queue) < MaxQueue /\ ~box[b].busy
  /\ box' = Added(b, Notice("ack", thr[c].req.conn))
  /\ Goto(c, "spawn")
  /\ UNCHANGED <<clients, sock, svc, registry, tcount, main, crash>>

Spawn(c) ==
  /\ thr[c].pc = "spawn"
  /\ svc' = [svc EXCEPT ![thr[c].rcv] = [@ EXCEPT !.pc = "created", !.fd = thr[c].fd]]
  /\ Finish(c)
  /\ UNCHANGED <<clients, sock, registry, box, tcount, main, crash>>

(* LOGOUT: removeNode takes the first node of the descriptor.  Finding none *)
(* it returns without unlocking the mutex of the list.                      *)
RemoveNode(c) ==
  LET mine == {i \in DOMAIN fds : fds[i].fd = thr[c].fd} IN
  /\ thr[c].pc = "remove" /\ ~fdLocked
  /\ IF mine = {}
     THEN fdLocked' = TRUE /\ Goto(c, "shut") /\ UNCHANGED fds
     ELSE LET i == CHOOSE i \in mine : \A j \in mine : i <= j IN
          /\ thr' = [thr EXCEPT ![c].pc = "unregister", ![c].rcv = fds[i].box]
          /\ fds' = RemoveAt(fds, i)
          /\ UNCHANGED fdLocked
  /\ UNCHANGED <<clients, sock, svc, dir, dirDefunct, box, tcount, main, crash>>

(* dir_unregister(mb_get_handle(mb)): finds the node by its name. *)
Unregister(c) ==
  LET b == thr[c].rcv
      nodes == {i \in DOMAIN dir : dir[i].name = box[b].name}
  IN
  /\ thr[c].pc = "unregister"
  /\ IF nodes = {}
     THEN UNCHANGED <<dir, box>>
     ELSE LET i == CHOOSE i \in nodes : \A j \in nodes : i <= j IN
          /\ dir' = RemoveAt(dir, i)
          /\ box' = UnrefAndShutdown(dir[i].box)
  /\ crash' = IF dirDefunct = "freed" \/ box[b].freed THEN "stale" ELSE crash
  /\ thr' = [thr EXCEPT ![c].pc = "shut", ![c].rcv = NULL]
  /\ UNCHANGED <<clients, sock, svc, dirDefunct, fds, fdLocked, tcount, main>>

ShutSocket(c) ==
  /\ thr[c].pc = "shut"
  /\ sock' = [sock EXCEPT ![thr[c].fd].st = IF @ = "open" THEN "shut" ELSE @]
  /\ Goto(c, "close")
  /\ UNCHANGED <<clients, svc, registry, box, tcount, main, crash>>

CloseSocket(c) ==
  /\ thr[c].pc = "close"
  /\ sock' = [sock EXCEPT ![thr[c].fd] = Free]
  /\ Finish(c)
  /\ UNCHANGED <<clients, svc, registry, box, tcount, main, crash>>

(* USERS: dir_all_handles; whether there are any decides the length of a    *)
(* direct ACK.                                                              *)
Users(c) ==
  /\ thr[c].pc = "users"
  /\ crash' = IF dirDefunct = "freed" THEN "stale" ELSE crash
  /\ thr' = [thr EXCEPT ![c].pc = "findself",
               ![c].req = [@ EXCEPT !.type = "USERS",
                             !.handle = IF dir = <<>> THEN "none" ELSE "listed"]]
  /\ UNCHANGED <<clients, sock, svc, registry, box, tcount, main>>

(* SEND: dir_lookup takes a count under the mutex, and reads the mailbox    *)
(* out of the directory's node again after it has unlocked it.              *)
Lookup(c) ==
  LET nodes == {i \in DOMAIN dir : dir[i].name = thr[c].req.handle} IN
  /\ thr[c].pc = "lookup"
  /\ IF nodes = {}
     THEN Goto(c, "findself") /\ UNCHANGED box
     ELSE LET i == CHOOSE i \in nodes : \A j \in nodes : i <= j IN
          /\ box' = Ref(dir[i].box)
          /\ thr' = [thr EXCEPT ![c].pc = "readnode", ![c].rcv = dir[i].box]
  /\ crash' = IF dirDefunct = "freed" THEN "stale" ELSE crash
  /\ UNCHANGED <<clients, sock, svc, registry, tcount, main>>

ReadNode(c) ==
  /\ thr[c].pc = "readnode"
  /\ crash' \in IF thr[c].rcv \in DirBoxes THEN {crash} ELSE {crash, "stale"}
  /\ Goto(c, "findself")
  /\ UNCHANGED <<clients, sock, svc, registry, box, tcount, main>>

(* Mutant of Answer: a SEND without a login is not answered. *)
AnswerSilent(c, self) ==
  IF thr[c].req.type = "USERS"
  THEN IF self = NULL THEN "ack" ELSE "notice"
  ELSE IF thr[c].rcv = NULL
       THEN IF self = NULL THEN "nack" ELSE "notice"
       ELSE IF self = NULL THEN "unrefrcv" ELSE "message"

(* What handle_packet does once FDLookup has returned: USERS and SEND       *)
(* answer through the client's mailbox if it has one, except that SEND to a *)
(* known receiver answers directly.                                         *)
Answer(c, self) ==
  IF thr[c].req.type = "USERS"
  THEN IF self = NULL THEN "ack" ELSE "notice"
  ELSE IF thr[c].rcv = NULL
       THEN IF self = NULL THEN "nack" ELSE "notice"
       ELSE IF self = NULL THEN "nack" ELSE "message"

(* FDLookup of the client's own descriptor; like dir_lookup it reads the    *)
(* node again after it has unlocked the list.  The list does not count the  *)
(* mailbox, which after dir_fini may have been freed, or be locked for      *)
(* ever by a finalization; then the list stays locked too.                  *)
FindSelf(c) ==
  LET mine == {i \in DOMAIN fds : fds[i].fd = thr[c].fd}
      b == fds[CHOOSE i \in mine : \A j \in mine : i <= j].box
  IN
  /\ thr[c].pc = "findself" /\ ~fdLocked
  /\ \/ /\ mine = {}
        /\ Goto(c, Answer(c, NULL))
        /\ UNCHANGED <<box, fdLocked, crash>>
     \/ /\ mine # {} /\ ~box[b].freed /\ ~box[b].busy
        /\ box' = Ref(b)
        /\ thr' = [thr EXCEPT ![c].pc = "readself", ![c].snd = b]
        /\ UNCHANGED <<fdLocked, crash>>
     \/ /\ mine # {} /\ box[b].freed
        /\ crash' = "fault"
        /\ UNCHANGED <<thr, box, fdLocked>>
     \/ /\ mine # {} /\ box[b].busy
        /\ fdLocked' = TRUE /\ Goto(c, "hung")
        /\ UNCHANGED <<box, crash>>
  /\ UNCHANGED <<clients, sock, svc, dir, dirDefunct, fds, tcount, main>>

ReadSelf(c) ==
  /\ thr[c].pc = "readself"
  /\ crash' \in IF thr[c].snd \in FdBoxes THEN {crash} ELSE {crash, "stale"}
  /\ Goto(c, Answer(c, thr[c].snd))
  /\ UNCHANGED <<clients, sock, svc, registry, box, tcount, main>>

AddNotice(c) ==
  LET b == thr[c].snd IN
  /\ thr[c].pc = "notice"
  /\ Len(box[b].queue) < MaxQueue /\ ~box[b].busy
  /\ box' = Added(b, Notice(IF thr[c].req.type = "USERS" THEN "ack" ELSE "nack",
                            thr[c].req.conn))
  /\ Goto(c, "unrefsnd")
  /\ UNCHANGED <<clients, sock, svc, registry, tcount, main, crash>>

(* mb_add_message.  The message keeps the pointer to the sender's mailbox;  *)
(* the count that came with it is dropped two steps later all the same.     *)
AddMessage(c) ==
  LET b == thr[c].rcv IN
  /\ thr[c].pc = "message"
  /\ Len(box[b].queue) < MaxQueue /\ ~box[b].busy
  /\ box' = Added(b, Message(thr[c].snd))
  /\ Goto(c, "ack")
  /\ UNCHANGED <<clients, sock, svc, registry, tcount, main, crash>>

UnrefSender(c) ==
  /\ thr[c].pc = "unrefsnd"
  /\ Unref(thr[c].snd,
           IF thr[c].rcv = NULL THEN Finish(c)
           ELSE thr' = [thr EXCEPT ![c].pc = "unrefrcv", ![c].snd = NULL],
           thr' = [thr EXCEPT ![c].pc = "hung", ![c].snd = NULL])
  /\ UNCHANGED <<clients, sock, svc, registry, tcount, main>>

UnrefReceiver(c) ==
  /\ thr[c].pc = "unrefrcv"
  /\ Unref(thr[c].rcv, Finish(c),
           thr' = [thr EXCEPT ![c].pc = "hung", ![c].rcv = NULL])
  /\ UNCHANGED <<clients, sock, svc, registry, tcount, main>>

-----------------------------------------------------------------------------
(* bvd_mailbox_service. *)
SvcGoto(b, pc) == svc' = [svc EXCEPT ![b].pc = pc]

SvcStart(b) ==
  /\ svc[b].pc = "created" /\ CountedIn
  /\ SvcGoto(b, "wait")
  /\ UNCHANGED <<clients, sock, thr, registry, box, main, crash>>

(* mb_next_entry. *)
SvcGet(b) ==
  /\ svc[b].pc = "wait"
  /\ ~box[b].defunct /\ box[b].queue # <<>> /\ ~box[b].busy
  /\ LET e == Head(box[b].queue) IN
     svc' = [svc EXCEPT ![b].entry = <<e>>,
               ![b].pc = IF e.kind = "message" THEN "rrcpt" ELSE "send"]
  /\ box' = [box EXCEPT ![b].queue = Tail(@)]
  /\ UNCHANGED <<clients, sock, thr, registry, tcount, main, crash>>

SvcStop(b) ==
  /\ svc[b].pc = "wait" /\ box[b].defunct
  /\ SvcGoto(b, "unref")
  /\ UNCHANGED <<clients, sock, thr, registry, box, tcount, main, crash>>

(* A return receipt goes to the mailbox the message came from, counted or   *)
(* not, before the message itself is sent.                                  *)
SvcReceipt(b) ==
  LET f == svc[b].entry[1].from IN
  /\ svc[b].pc = "rrcpt"
  /\ Len(box[f].queue) < MaxQueue /\ ~box[f].busy
  /\ IF box[f].freed
     THEN crash' = "fault" /\ UNCHANGED box
     ELSE box' = Added(f, Notice("rrcpt", "none")) /\ UNCHANGED crash
  /\ SvcGoto(b, "send")
  /\ UNCHANGED <<clients, sock, thr, registry, tcount, main>>

SvcSend(b) ==
  /\ svc[b].pc = "send"
  /\ Write(svc[b].fd, svc[b].entry[1].to)
  /\ svc' = [svc EXCEPT ![b].pc = "wait", ![b].entry = <<>>]
  /\ UNCHANGED <<peer, budget, sock, thr, registry, box, tcount, main>>

SvcUnref(b) ==
  /\ svc[b].pc = "unref"
  /\ Unref(b, SvcGoto(b, "decr"), SvcGoto(b, "hung"))
  /\ UNCHANGED <<clients, sock, thr, registry, tcount, main>>

-----------------------------------------------------------------------------
(* The end of either kind of service thread. *)
ClientDecr(c) ==
  /\ thr[c].pc = "decr" /\ CountedOut
  /\ Goto(c, "unlock")
  /\ UNCHANGED <<clients, sock, svc, registry, box, main, crash>>

ClientEnd(c) ==
  /\ thr[c].pc = "unlock" /\ ~Freed
  /\ Goto(c, "done")
  /\ UNCHANGED <<clients, sock, svc, registry, box, tcount, main, crash>>

SvcDecr(b) ==
  /\ svc[b].pc = "decr" /\ CountedOut
  /\ SvcGoto(b, "unlock")
  /\ UNCHANGED <<clients, sock, thr, registry, box, main, crash>>

SvcEnd(b) ==
  /\ svc[b].pc = "unlock" /\ ~Freed
  /\ SvcGoto(b, "done")
  /\ UNCHANGED <<clients, sock, thr, registry, box, tcount, main, crash>>

TouchFreed ==
  /\ Freed
  /\ \/ \E c \in Conns : thr[c].pc \in {"created", "decr", "unlock"}
     \/ \E b \in Boxes : svc[b].pc \in {"created", "decr", "unlock"}
  /\ crash' = "counter"
  /\ UNCHANGED <<clients, sock, thr, svc, registry, box, tcount, main>>

-----------------------------------------------------------------------------
(* The main thread in terminate(), which is the SIGHUP handler.             *)
Sighup ==
  /\ "SIGHUP" \in Inputs
  /\ main = "accepting"
  /\ main' = "terminating"
  /\ dirDefunct' = "yes"
  /\ sock' = [f \in Fds |->
                IF sock[f].st = "open" /\ \E i \in DOMAIN dir : dir[i].fd = f
                THEN [sock[f] EXCEPT !.st = "shut"] ELSE sock[f]]
  /\ UNCHANGED <<clients, thr, svc, dir, fds, fdLocked, box, tcount, crash>>

WaitCheck ==
  /\ main = "terminating"
  /\ main' = IF counter = 0 THEN "returned" ELSE "waiting"
  /\ UNCHANGED <<clients, sock, thr, svc, registry, box, tcount, crash>>

WaitP ==
  /\ main = "waiting" /\ tcsem > 0
  /\ tcsem' = tcsem - 1
  /\ main' = "returned"
  /\ UNCHANGED <<clients, sock, thr, svc, registry, box, counter, crash>>

Fini ==
  /\ main = "returned"
  /\ main' = "finalized"
  /\ UNCHANGED <<clients, sock, thr, svc, registry, box, tcount, crash>>

(* dir_fini drops the directory's counts and shuts the mailboxes down, and  *)
(* leaves dir->head pointing to the nodes it has freed, if there were any.  *)
DirFini ==
  /\ main = "finalized"
  /\ main' = "dirfini"
  /\ box' = [b \in DOMAIN box |->
               IF b \in DirBoxes
               THEN [box[b] EXCEPT !.ref = @ - 1, !.defunct = TRUE] ELSE box[b]]
  /\ dir' = <<>>
  /\ dirDefunct' = IF dir = <<>> THEN dirDefunct ELSE "freed"
  /\ UNCHANGED <<clients, sock, thr, svc, fds, fdLocked, tcount, crash>>

Exit ==
  /\ main = "dirfini"
  /\ main' = "exited"
  /\ UNCHANGED <<clients, sock, thr, svc, registry, box, tcount, crash>>

-----------------------------------------------------------------------------
ClientInput == \E c \in Conns : Accept(c) \/ Close(c) \/ Receive(c)

Handle(c) ==
  \/ Register(c) \/ AddNode(c) \/ LoginAck(c) \/ Spawn(c)
  \/ RemoveNode(c) \/ Unregister(c) \/ ShutSocket(c) \/ CloseSocket(c)
  \/ Users(c) \/ Lookup(c) \/ ReadNode(c) \/ FindSelf(c) \/ ReadSelf(c)
  \/ AddNotice(c) \/ AddMessage(c) \/ Ack(c) \/ Nack(c)
  \/ UnrefSender(c) \/ UnrefReceiver(c)

ClientStep(c) == \/ ClientStart(c) \/ ReceiveEof(c) \/ ReceiveError(c) \/ Handle(c)
                 \/ ClientDecr(c) \/ ClientEnd(c)

SvcStep(b) == \/ SvcStart(b) \/ SvcGet(b) \/ SvcStop(b) \/ SvcReceipt(b)
              \/ SvcSend(b) \/ SvcUnref(b) \/ SvcDecr(b) \/ SvcEnd(b)

MainStep == WaitCheck \/ WaitP \/ Fini \/ DirFini \/ Exit

Running == crash = "none" /\ main # "exited"

Next == Running /\ ( \/ ClientInput \/ Sighup \/ MainStep \/ TouchFreed
                     \/ \E c \in Conns : ClientStep(c)
                     \/ \E b \in Boxes : SvcStep(b) )

Spec == Init /\ [][Next]_vars

(* Threads are scheduled and a mutex somebody releases is had in the end    *)
(* (the counter's mutex is contended, hence SF); what clients and the       *)
(* operator do is up to them.                                               *)
Fairness ==
  /\ WF_vars(Running /\ MainStep)
  /\ \A c \in Conns : /\ WF_vars(Running /\ (ReceiveEof(c) \/ ReceiveError(c) \/ Handle(c)))
                      /\ SF_vars(Running /\ (ClientStart(c) \/ ClientDecr(c)))
                      /\ WF_vars(Running /\ ClientEnd(c))
  /\ \A b \in Boxes : /\ WF_vars(Running /\ (SvcGet(b) \/ SvcStop(b) \/ SvcReceipt(b)
                                             \/ SvcSend(b) \/ SvcUnref(b)))
                      /\ SF_vars(Running /\ (SvcStart(b) \/ SvcDecr(b)))
                      /\ WF_vars(Running /\ SvcEnd(b))

FairSpec == Spec /\ Fairness

-----------------------------------------------------------------------------
ClientPcs == {"unborn", "created", "recv", "nack", "ack", "register", "addnode",
              "loginack", "spawn", "remove", "unregister", "shut", "close", "users",
              "lookup", "readnode", "findself", "readself", "notice", "message",
              "unrefsnd", "unrefrcv", "decr", "unlock", "done", "hung"}
SvcPcs == {"unborn", "created", "wait", "rrcpt", "send", "unref", "decr", "unlock",
           "done", "hung"}
Pointers == Boxes \cup {NULL}
Entries == [kind : {"ack", "nack", "rrcpt", "message"}, from : Pointers,
            to : Conns \cup {"none"}]

(* Every variable keeps its type. *)
TypeOK ==
  /\ peer \in [Conns -> {"new", "open", "gone"}]
  /\ budget \in 0 .. MaxReqs
  /\ owed \in [Conns -> Int]
  /\ sock \in [Fds -> [st : {"free", "open", "shut"}, conn : Conns \cup {"none"}]]
  /\ thr \in [Conns -> [pc : ClientPcs, fd : Fds \cup {NULL},
                        hdr : {"garbage", "noop", "payload", "USERS", "LOGOUT"},
                        req : [type : AllInputs \cup {"none"},
                               handle : Handles \cup {"none", "listed"},
                               conn : Conns \cup {"none"}],
                        rcv : Pointers, snd : Pointers]]
  /\ svc \in [Boxes -> [pc : SvcPcs, fd : Fds \cup {NULL},
                        entry : {<<>>} \cup {<<e>> : e \in Entries}]]
  /\ \A i \in DOMAIN dir : dir[i] \in [name : Handles, fd : Fds, box : Boxes]
  /\ dirDefunct \in {"no", "yes", "freed"}
  /\ \A i \in DOMAIN fds : fds[i] \in [fd : Fds, box : Boxes]
  /\ fdLocked \in BOOLEAN
  /\ \A b \in DOMAIN box :
       /\ box[b].ref \in Nat /\ box[b].defunct \in BOOLEAN
       /\ box[b].freed \in BOOLEAN /\ box[b].busy \in BOOLEAN
       /\ \A i \in DOMAIN box[b].queue : box[b].queue[i] \in Entries
  /\ counter \in Nat /\ tcsem \in Nat
  /\ main \in {"accepting", "terminating", "waiting", "returned", "finalized",
               "dirfini", "exited"}
  /\ crash \in {"none", "abort", "fault", "stale", "counter", "sigpipe"}

(* The directory and the list of descriptors agree.  A handle is registered *)
(* once; a registered mailbox is live and not defunct; until dir_fini, what *)
(* the list of descriptors points to is registered, so that FDLookup may    *)
(* count a pointer that the list itself never counted.                      *)
RegistryConsistent ==
  /\ \A i, j \in DOMAIN dir : i # j => dir[i].name # dir[j].name
  /\ \A b \in DirBoxes : ~box[b].freed /\ ~box[b].busy /\ ~box[b].defunct
  /\ main \notin {"dirfini", "exited"} => FdBoxes \subseteq DirBoxes

(* mb_ref and mb_unref of all threads together: the count of a mailbox is   *)
(* what the directory, its service thread and the requests under way have   *)
(* of it.  A mailbox whose finalization hangs is left out: a finalization   *)
(* drops the count of a sender that never gave one to its message (it then  *)
(* hangs, or the process dies).                                             *)
Held(b) ==
  (IF b \in DirBoxes THEN 1 ELSE 0)
  + (IF svc[b].pc \in {"decr", "unlock", "done", "hung"} THEN 0 ELSE 1)
  + Cardinality({c \in Conns : thr[c].snd = b})
  + Cardinality({c \in Conns : thr[c].rcv = b /\ thr[c].req.type = "SEND"})

CountsMatch == \A b \in DOMAIN box : ~box[b].busy => box[b].ref = Held(b)

(* After dir_shutdown no socket a client has logged in over is open any     *)
(* more: dir_register refuses a login that comes later, and one that came   *)
(* earlier is in the list dir_shutdown goes through.                        *)
ShutdownReachesAll ==
  main # "accepting" => \A i \in DOMAIN dir : sock[dir[i].fd].st # "open"

(* As long as every mailbox ever made is registered, no client has gone and *)
(* no shutdown has begun, the process lives and no mailbox is finalized,    *)
(* whoever drops the last of his counts when, and no thread has been caught *)
(* in a finalization.  (Threads may wait for ever all the same, for the     *)
(* list's mutex that a premature LOGOUT has left locked: LoginsAnswered.)   *)
NoCrash ==
  /\ main = "accepting"
  /\ DirBoxes = DOMAIN box
  /\ \A c \in Conns : peer[c] # "gone"
  => /\ crash = "none"
     /\ \A b \in DOMAIN box : ~box[b].freed /\ ~box[b].busy
     /\ \A c \in Conns : thr[c].pc # "hung"

(* A mailbox service thread ends once dir_unregister has taken its mailbox  *)
(* out of the directory, wherever the thread is in the delivery of an entry *)
(* and whatever is still queued, unless the process dies, the thread hangs  *)
(* in the finalization of the mailbox, or it needs a mailbox that such a    *)
(* finalization has left locked: its own, or a sender's for the receipt.    *)
Stuck(b) ==
  \/ svc[b].pc = "hung"
  \/ svc[b].pc = "unref" /\ box[b].busy
  \/ svc[b].pc = "rrcpt" /\ box[svc[b].entry[1].from].busy

ServicesEnd ==
  \A b \in Boxes : b \in DOMAIN box /\ b \notin DirBoxes
                   ~> (svc[b].pc = "done" \/ Stuck(b) \/ ~Running)

(* The server's threads use the thread counter as module ThreadCounter says *)
(* they do, so what is proved there holds here.                             *)
Counted(pc) ==
  IF pc \in {"unborn", "created", "done"} THEN pc
  ELSE IF pc = "unlock" THEN "unlocking" ELSE "running"

TC == INSTANCE ThreadCounter WITH
        Threads <- Conns \cup Boxes,
        sem <- tcsem,
        pc <- [t \in Conns \cup Boxes |->
                 IF t \in Conns THEN Counted(thr[t].pc) ELSE Counted(svc[t].pc)],
        main <- IF main = "dirfini" THEN "finalized" ELSE main,
        fault <- (crash = "counter")

UsesThreadCounter == TC!Spec

(* protocol.h: "Each packet sent from a client to a server engenders either *)
(* a positive acknowledgement (ACK) or a negative acknowledgement (NACK)    *)
(* notice from the server to the client".  For LOGIN, USERS and SEND the    *)
(* server keeps to it as long as it runs, the connection stays and no       *)
(* LOGOUT has leaked the lock of the list; only an answer that arrives at   *)
(* the connection the request came from counts.  LOGOUT ends the connection *)
(* and is not covered here: see LogoutAnswered.                             *)
Connected(c) == peer[c] = "open" /\ \E f \in Fds : sock[f] = [st |-> "open", conn |-> c]

EveryRequestAnswered ==
  \A c \in Conns : owed[c] > 0 ~> (owed[c] = 0 \/ ~Connected(c) \/ fdLocked \/ ~Running)

(* protocol.h has LOGOUT among the "Client-to-server requests, acknowledged *)
(* by server": a client that waits for the answer gets one, even if LOGOUT  *)
(* has ended the connection.                                                *)
LogoutAnswered ==
  \A c \in Conns : owed[c] > 0 ~> (owed[c] = 0 \/ peer[c] = "gone" \/ fdLocked
                                  \/ ~Running)

(* The same sentence for LOGIN alone: its handler gets to an answer.        *)
LoginsAnswered ==
  \A c \in Conns : thr[c].pc = "register" ~> (thr[c].pc \in {"loginack", "nack"}
                                              \/ ~Running)

(* mailbox.h: the mailbox a message came from "is guaranteed not to have    *)
(* been deallocated as long as the message still exists".                   *)
SenderOutlivesMessage ==
  \A b \in DOMAIN box :
    \A e \in Range(box[b].queue) \cup Range(svc[b].entry) :
      e.kind = "message" => ~box[e.from].freed

(* directory.h: dir_shutdown "shuts down all the client sockets, which      *)
(* triggers the eventual termination of all the server threads", which the  *)
(* main thread waits for.                                                   *)
ShutdownCompletes == main = "terminating" ~> ~Running
=============================================================================
