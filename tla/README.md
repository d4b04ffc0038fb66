# Verification project for NickProjects

NickProjects holds three C programs: the *Bavarde* chat server (`src/hw5`), a
buddy memory allocator (`src/hw3`) and a MIPS assembler/disassembler
(`src/hw1`). This directory holds TLA+ modules that model them, TLC
configurations that model-check the modules on small instances, and proofs,
checked by TLAPS, of theorems that hold for every value of the constants.

## 1. Inventory

### 1.1 Bavarde (hw5), a multithreaded chat server

| component | state | operations | interacts with |
|---|---|---|---|
| thread counter, `thread_counter.c` | `counter`, a semaphore, a mutex | `tcnt_incr`, `tcnt_decr`, `tcnt_wait_for_zero`, `tcnt_fini` | every service thread calls incr/decr; the main thread waits |
| mailbox, `mailbox.c` | list `head`/`tail`, semaphore `lock` (one token per entry), `defunct`, `refCount`, a mutex | `mb_init`, `mb_ref`, `mb_unref`, `mb_shutdown`, `mb_add_message`, `mb_add_notice`, `mb_next_entry` | client service threads add, one mailbox service thread removes, the directory creates and shuts down |
| directory, `directory.c` | list of (name, fd, mailbox), `defunct`, a mutex | `dir_register`, `dir_unregister`, `dir_lookup`, `dir_all_handles`, `dir_shutdown`, `dir_fini` | called by the handlers and by the main thread |
| descriptor list, `server.c` | list `head` of (fd, mailbox), mutex `lock` | `addNode`, `removeNode`, `FDLookup` | called by the handlers; holds mailboxes it does not count |
| client service threads, `server.c` | fd, the header and the payload of the last packet | receive loop, `handle_packet` for LOGIN, LOGOUT, USERS, SEND | all of the above, and the socket |
| mailbox service threads, `server.c` | fd, mailbox | loop of `mb_next_entry`, return receipt, send | mailbox, other mailboxes, the socket |
| packet protocol, `protocol.c` | a byte stream per direction | `proto_send_packet`, `proto_recv_packet` | both kinds of service thread, clients |
| main thread, `main.c` | the signal handler | accept loop, `terminate()` on SIGHUP | starts client service threads; shuts the directory down, waits on the counter |

Hard here: everything is concurrent. Handlers take the two list mutexes, the
mailbox mutex and the counter mutex one after the other and keep pointers
between; mailboxes are reference-counted by hand; `mb_next_entry` and
`tcnt_wait_for_zero` test shared variables without a lock; a client may go or
send any sequence of requests at any moment; SIGHUP starts a shutdown that
waits for all of them; descriptors are closed and reused.

What makes it correct: the thread count is exact and no wake-up of the main
thread is lost; a mailbox is a FIFO queue whose list, semaphore and count agree,
that no holder of a counted pointer finds freed, and whose service thread ends
after a shutdown; the directory and the descriptor list agree; every request is
answered; shutdown reaches every logged-in client; packets arrive as sent. Not all
of it is true of the code: section 3 says what holds, up to where, and what is
refuted.

### 1.2 Buddy allocator (hw3)

`budmm.c` keeps one circular doubly linked free list per block order, with the
links inside the free blocks, and implements `bud_malloc` (split down from the
smallest larger block, or extend the heap), `bud_free` (validate the header,
coalesce with the buddy) and `bud_realloc`. `budutil.c` grows the heap by one
largest block at a time. Sequential, but hard for another reason: the state is
a graph of pointers in memory that is also handed out to the caller. What makes
it correct: blocks in use never overlap, every part of the heap is either in
use or on exactly one list, the lists are circular and doubly linked, free
buddies are merged.

### 1.3 MIPS assembler (hw1)

| component | state | operations |
|---|---|---|
| codec, `hw1.c`, `instr_table.c` | none; three constant tables | `encode`, `decode`, `flipEndianness` |
| options, `hw1.c` | `global_options` | `validargs`, `validateBaseAddress` |
| assembler loop, `main.c` | `addr`, `ip` (its value survives from line to line), the line buffer, `passedEncode`, the state of stdin | one turn per line: `fgets`, match, `encode`, `fwrite` |
| disassembler loop, `main.c` | `addr`, an `ip` of its own in every turn | one turn per word: `fread`, `decode`, `printf` |

Sequential. Hard here: arithmetic that wraps, fields that are masked or not,
signs; what is left from the turn before when a call fails and nobody looks; the
end of the file, which `fgets` reports one call late. What makes it correct:
`encode` and `decode` undo each other at every address, one word per line in its
place, options that mean what the usage says.

## 2. Modules

| module | models |
|---|---|
| `ThreadCounter` | `thread_counter.c` and the threads around it |
| `ThreadCounterProofs` | its theorems |
| `MailboxQueue` | what a mailbox promises: an abstract FIFO queue with a shutdown |
| `Mailbox` | `mailbox.c` down to nodes, semaphore and count, with everybody who touches it |
| `MailboxProofs` | its theorems, among them that it implements `MailboxQueue` |
| `Server` | the composition: main thread, service threads, directory, descriptor list, mailboxes, descriptors, clients |
| `ServerProofs` | its theorems, among them that it uses the counter as `ThreadCounter` says |
| `NoCrashProofs` | the proof that nothing dies, and nothing is finalized, until a mailbox is unregistered, a client goes or a shutdown begins |
| `Wire` | one direction of a connection, header and payload field by field |
| `WireProofs` | its theorems |
| `Budmm` | the buddy allocator, `budmm.c` with `bud_sbrk` |
| `BudmmProofs` | its theorems, among them that it implements `Allocator` |
| `Allocator` | what an allocator promises: regions in use, granted, refused, taken back and cut down |
| `AllocatorProofs` | that the promise means regions never overlap |
| `MipsCodec` | `encode`, `decode`, `flipEndianness` and the instruction tables |
| `MipsMain` | `validargs` and the two loops of hw1's `main.c` |
| `MipsProofs` | that encode and decode undo each other, and the theorems of `MipsMain` |
| `MC*` | instances for TLC |

`Server` composes the parts and stands on what is established about them. It
takes the three steps of `mb_next_entry` as one because `Mailbox` implements a
queue, it joins the `mb_unref` and the `mb_shutdown` of `dir_unregister` because
that count is never the last (`NoUseAfterFree`), and it is itself checked, and proved, to use the thread
counter exactly as `ThreadCounter` says (`UsesThreadCounter`, with `TC` an
`INSTANCE` under a refinement mapping), so that what is proved there holds in the
server.

### 2.1 ThreadCounter

`counter` and `sem` are the fields of the struct. `pc[t]` says where a service
thread is: `created` by `pthread_create` and not counted, `running` between
`tcnt_incr` and `tcnt_decr`, `unlocking` inside `tcnt_decr` after the `V`, `done`.
`main` follows `terminate()`. `WaitCheck` is the unlocked test, `WaitP` the `P`.
`Fini` frees the counter; a thread that then touches it sets `fault` (`UseFreed`),
and the behaviour is followed no further.

### 2.2 Mailbox and MailboxQueue

Nodes are numbered in the order of allocation and never reused, so a stale
pointer is visible as one: `head`, `tail`, `next`, `entry`, and `live` for those
not freed. `mb_next_entry` is `SvcP`, `SvcCheck` (the unlocked test of
`defunct`), `SvcDequeue`, `SvcLeave`. `dir_unregister` and `dir_fini` are two steps
each, `DirUnref` and `Shutdown`; `dir_fini` may come at any time, since the main
thread may leave its wait while threads run (section 3).

Two kinds of pointers to a mailbox are counted by nobody, and the model has both:
the list of descriptors (`fdNode`), from which `FDLookup` takes the mailbox also
after `dir_fini` has let go of it, and `message.from` of the messages it has sent to
other mailboxes (`sent`, bounded by `MaxSent`), through which `Receipt` queues a
return receipt and `Discard` drops a count when such a message is finalized.
Once the mailbox is freed, whoever still has a pointer, counted or not, may use it:
`UseFreed` sets `status` to `fault`. `NoUseAfterFree` says that this takes one of the
two uncounted ones.

Entries are abstracted to what finalization tells apart: a notice, a message, a
message from the mailbox itself. Finalization of a mailbox with entries in it does
not get through the first one in the code (it locks its own mutex again, or one
that another finalization has left locked, or frees the inside of an entry, which
aborts): `status` becomes `hung` or `aborted`, and a service thread that was in
that `mb_unref` stays there and does not end (`SvcLeave`).

### 2.3 Server

A critical section is one step. The locals of a request are in `thr[c]`: `rcv`
and `snd` are the mailbox pointers of a SEND, `hdr` is what is left in the header
storage from the packet before, since an end of file makes the code use it again.
`sock` is the descriptor table, with the lowest free number given out first, so
that a number is reused after a LOGOUT has closed it. `owed` counts requests less
answers for each client; every answer carries the connection its request came
from, so that one that arrives at another client, over a reused descriptor, pays
nobody's debt (`Write`). `crash` says how the process died: `abort` (finalization),
`fault` (freed mailbox), `stale` (freed list node), `counter` (freed thread
counter), `sigpipe`. `Write` is `proto_send_packet` on an open, a shut and a closed
descriptor. A header read that fails, on a closed descriptor or after a reset
(`ReceiveError`), ends the receive loop; an end of file (`ReceiveEof`) is taken for a
packet, as in the code.

`Finalization` follows the chain of senders whose mailboxes `mb_unref` finalizes in
turn (`Chain`) and has one of four outcomes: `freed`, `abort`, `fault` (a sender's
mailbox was freed already, or is freed by that `mb_unref` and then handed to the
discard hook), and `hang`, on a mutex the thread has locked itself or that another
finalization has left locked. A hang leaves every mailbox of the chain at count 0
and locked for ever (`busy`); whoever needs such a mailbox blocks, for a receipt
(`SvcReceipt`), an add or an `mb_unref`, and `FDLookup` blocks with the list's mutex
locked. After `dir_fini` `FindSelf` may find a mailbox that has been freed: `fault`.

### 2.4 Wire

A packet is a type, a length and units of payload; each is written and read
separately, in the order of the code, so that every split of `rio_readn` and
`rio_writen` between fields occurs. `hdr` is reused from packet to packet and
starts uninitialised. Several threads may write, as the client service thread
(`server.c:179`, `:260`, `:311`) and the mailbox service thread (`:397`, `:426`)
do on one descriptor without a lock. Against `protocol.h:26-28` a header may then
be followed by another packet's header; the history variable `torn` says that a
thread has written inside another's packet, and the properties are stated up to
that, which is exactly as far as they hold. `sent` has the packets in the order of
their first bytes.

### 2.5 Budmm

The heap is a row of units of one smallest block, each with a header word, two
link words and one more; a block of order `k` is `Size[k]` units long, twice as
long as one of the order below (`ORDER_TO_BLOCK_SIZE`). `next` and `prev` are those
link words of every unit and of the list heads, and hold addresses, `NULL` or data.
While the program owns a block they are its payload: `Write` fills them with zeros
or with data, and what it does not write keeps the stale links. Every turn of the loops of
`bud_malloc` (`MoreCore`, `Split`, `Take`), `bud_free` (`FreeAlone`, `FreeLargest`,
`FreeMerge`, `FreeLast`) and `bud_realloc` (`Shrink`) is an action, with the
`prev` assignments the code makes and without those it does not. A loop over a
list is a `Walk`: it comes back to the head, never does (`status` becomes
`hang`), or follows a link that is no address in the list (`wild`). A growing
`bud_realloc` keeps the order it has read before it calls `bud_malloc`
(`budmm.c:268`) and copies that many bytes, one header too far; with broken lists
the copy may leave the heap, which is `wild` too (`CopyInHeap`).

Two harmless-looking frees are enough to break the lists, so the invariants are
stated up to the step that breaks them. The history variable `harm` names it:
`prev` after a step of `bud_free` that leaves a `prev` wrong (the only harm
`ListsIntact` allows it), `lists` after one that does worse or any change to
such a heap. `HeapIntact` is everything an allocator owes its caller while
`harm` is `none`.

`KeepsPromise` says the same from the caller's side: as long as no list is harmed,
`Budmm` implements `Allocator`. Its regions are the blocks in use (`InUse`, with the
old block of a growing `bud_realloc` until `bud_free` has looked at it) and its
request is the call of `bud_malloc` that is running; splitting, growing the heap
and merging are invisible. `Allocator` refuses a request only when no aligned region
of the size is left in the heap, so that a merge `bud_free` misses, or a list
`bud_malloc` does not look at, shows up as a refusal it cannot explain. `void` is
`harm` = `lists`: after that nothing is promised.

### 2.6 MipsCodec and MipsMain

A word is the set of the positions of its one bits. Masks and `|` are then sets,
shifts move positions, and `+` and `-` are a ripple-carry adder and subtractor, so
that the arithmetic on `unsigned int` is exact without numbers beyond 2^31. The
tables are the source's, row by row; `instrTable` is given by form, since all
instructions of a form have the same type and sources. Formats are not modelled:
a line is the first entry of `instrTable` it matches and three 32-bit numbers.

`MipsMain` starts with any command line of `Argvs`, goes through `validargs`
(`Validate`: the refusals are `RefusedAt`) and into one of the loops.
`AssembleLine` is one turn of the first: `Fgets`, then one of `AssembleBare`
(`main.c:136-163`, a line without operands), `AssembleOperands` (`:165-210`) and
`Skip`. `Fgets` has the end of the file as the C library has it: known as soon as
a line lacks its newline, otherwise only by a further call, which leaves the
buffer as it was, so that the last line is matched again. Results of `encode` and
`decode` are not looked at in the code and so not in the model: `value` stays, and
a word `decode` refuses is followed by a crash or by garbage. `lines`, `words` and
`at` are histories.

The code differs from the usage text of `const.h` here, and the properties of
`MipsMain` are stated so that none of them calls the difference right:

- `const.h:14`, `-a` converts "mnemonics to binary code": a line without operands
  (`syscall`) writes the word of the line before once more, or what was on the stack
  (`AssembleBare`). `RoundTrip` leaves these lines out.
- `const.h:17`, BASEADDR is "the starting memory address for the code": `main.c:27`
  cuts off twelve bits where `validargs` has seen to eight, so `-b 1100` gives code
  for 0x1000. `InPlace` speaks of addresses that are multiples of 4096; `FlagsAsGiven`
  has the address right as far as `validargs`.
- `const.h:18`, eight digits: need not be, and `-b 0` is refused.
- `const.h:19`, `-e` is the byte order of the binary code: `-e b` has no effect on the
  disassembler nor on lines with operands; on a line without operands it turns the
  word before round. No property is about the byte order.
- `const.h:13`, one of `-a` and `-d`: neither is asked for.

These are visible in a single step of the model (`AssembleBare`, `DisassembleWord`,
`Dispatch`), so no run searches for them.

## 3. Runs

Passing:

| run | shows | instance |
|---|---|---|
| `MCThreadCounter` | exact count, no lost wake-up, shutdown gets through | 3 threads; the third is created while another runs |
| `MCMailbox` | all invariants, the refinement and the liveness of the mailbox | 2 senders, 3 entries, one of them the ACK of the login, and 1 message sent away: a list with a first, a middle and a last node, emptied and refilled, while an uncounted pointer is about; 90 316 states |
| `MCServer` | registry, counts, no death before an unregistration, `ShutdownReachesAll`, `UsesThreadCounter` | 2 connections, 2 names, 2 mailboxes, 3 requests out of LOGIN, LOGOUT and SEND, with disconnections and SIGHUP at any moment: both log in and one sends or logs out, a premature LOGOUT and two LOGINs on one connection; 1.8 million states |
| `MCServerLive` | requests are answered, service threads end | 2 connections, 1 name, 2 mailboxes, 3 requests of any type, USERS and a LOGIN without a newline among them |
| `MCWire` | framing with the two threads that send to a client, and a close at any point | 2 packets of at most 2 units, so that either thread may write inside the other's packet, behind it or after it; 4 packets handled, so that phantom packets after the end occur |
| `MCBudmm` | lists, headers and tiling of the heap up to the first harm, no false abort, no failing legal call but a `bud_realloc` that gets no memory (`null`), coalescing, the promise of `Allocator` | 2 largest blocks of 4 smallest (3 orders, so a split and a merge in two stages), 4 calls: 3 blocks on 2 lists and one free or realloc; requests that fit exactly and with padding; states after a harm are not continued (`CONSTRAINT`) |
| `MCMips` | options, one word per line and in its place, encode against decode in both directions | all command lines of up to 3 arguments of 14, some of 5; 13 lines and 11 words, one of every form, with numbers at and beyond the ends of their fields, branches backwards and across address 0; 3 of them, which is a line, one after it and one after a failure |

Expected to be violated; each states what a comment of the repository says and
what the code does otherwise (`findings` in `PROJECT.json`):

| run | statement | what happens |
|---|---|---|
| `MCServerLock` | a LOGIN gets its answer | a LOGOUT without a login leaves the list's mutex locked |
| `MCServerSender` | a message's sender is not freed while the message exists | `mb_add_message` counts nothing and the caller drops its count |
| `MCServerLogout` | LOGOUT is acknowledged (`protocol.h:37-39`) | `handle_packet` closes the socket without an answer |
| `MCServerNeverEnds` | `dir_shutdown` makes all service threads end | mailbox service threads and connections without a login are not told |
| `MCBudmmOverlap` | a region `bud_malloc` returns is the caller's alone | three blocks are in use and the first is freed; the next two calls both return it |

The models show more than the runs ask for: `tcnt_wait_for_zero` may return with
threads counted, when a post of an earlier drop to zero is still on the semaphore
(against `thread_counter.h:50`); finalization of a mailbox with entries locks its
own mutex again or aborts at the first of them (`hung`, `aborted`); `dir_lookup`
and `FDLookup` may read a node that has been freed, and handlers still running after
`dir_fini` use the directory's freed list (`stale`); a mailbox service thread may
write to a descriptor that has become another client's; a growing `bud_realloc`
without memory copies to `NULL` (`null`, against `budmm.h:119`); a packet's header
may be followed by another packet's (`torn`, above); and what section 2.6 lists of
hw1.

What the passing properties do not say:

- `NoCrash` is about death and finalization. Threads may wait for ever while it
  holds: after a premature LOGOUT everybody who needs the list's mutex does
  (`MCServerLock`).
- `CountsMatch` leaves out mailboxes whose finalization hangs (`Server`) or has gone
  wrong (`Mailbox`): a finalization drops a count of the sender that was never taken.
- `ServiceEnds` and `ServicesEnd` let a thread off that hangs in a finalization or
  needs a mailbox such a finalization has left locked (`Stuck`).
- `EveryRequestAnswered` covers LOGIN, USERS and SEND on a connection that stays, until
  a LOGOUT has leaked the list's mutex; LOGOUT itself is `MCServerLogout`.
- `RegistryConsistent` has the two lists agree until `dir_fini`, which leaves the list
  of descriptors alone.
- `PacketsAsSent` and `WholeBeforeEof` hold while nobody has written inside another's
  packet, and `OneWordPerLine` for lines that end with a newline.

Every passing property also has a mutant of the code, defined in the module just
before what it replaces, that TLC must catch.

Bounds: `MaxEntries`, `MaxSent`, `MaxReqs` (requests of all clients together), `MaxBoxes`,
`MaxQueue`, `MaxLen`, `MaxPackets`, `MaxReceived`, `MaxCalls`, `MaxInput` are in
guards only.
`CHECK_DEADLOCK FALSE` everywhere, since all of these systems stop: a bound is
used up, the process exits, or it dies.

### Fairness

Threads are scheduled: weak fairness for each thread's own next step. A mutex
that several threads contend for is had in the end, hence strong fairness for
steps that need the mutex of the thread counter. What clients and the operator
do (sending, closing, SIGHUP) has no fairness. In `ThreadCounter` alone the
exit of service threads is fair, which is the contract `thread_counter.h` states
for its caller; in `Server` it is not assumed, and `MCServerNeverEnds` shows that
the server does not keep to the contract.

## 4. Proofs

`ThreadCounterProofs`: `TypeCorrect`, `CountIsExact`, `NoWakeupIsLost`, for any
finite set of threads. The inductive invariant is the conjunction of the three:
`NoLostWakeup` alone is not inductive, since the thread that brings the count to
zero posts only because the value it tests is the number of threads left, which
is `CounterExact`; and that step needs the types, the cardinality of a finite set
among them.

`MailboxProofs`: `TypeCorrect`, `ListIsWellFormed`, `TokensAreExact`, `NoNullHead`,
`CountsAreExact`, `NobodyUsesFreed` and `MailboxIsQueue` (`Spec => Queue!QSpec`),
for any finite set of senders and any number of entries. The invariants need one
another: the head is not NULL in `SvcDequeue` because the tokens match the
entries and the shutdown, the tokens can be compared with the list because the
list has the shape `ListShape` says, and the count that `dir_unregister` drops is
not the last because the service thread keeps its own until it has seen
`defunct`. So the inductive invariant is their conjunction with what the program
counters say of `defunct`.

The inductive invariant is `TypeOK`, `ListShape`, `TokensMatch`, `NoNullDereference`,
`CountsMatch` and `NoUseAfterFree` with `DefunctWhenGone`, `LeavesWhenDefunct` and
`FreedWithLastCount`. `NobodyUsesFreed` does not say that a freed mailbox is out of reach,
which is false; it says that a counted pointer never leads there, and that a `fault`
comes from the list of descriptors or from a message in another mailbox.

`WireProofs`: `PacketsAsSentSafe` and `WholeBeforeEofSafe`, for any writers, packet
types and lengths and any number of packets. Neither property says what is in the
stream, so neither is inductive. The inductive invariant `IInv` gives each unit in
the stream a place, the number of its packet in `sent` and its index there: the
first place is the reader's, the one after the last is the writers', and each
follows from the one before (`Chain`). Writing extends the chain at its end,
reading drops its first place, so that no induction over the packets is needed.
When the stream has ended (`Beyond`) only what was written to the end is still
claimed, and it has been handled: with an empty stream the reader's place is the
writers'. All of it holds while `torn` is false, and the step that makes it true
is the only one that breaks the chain.

`ServerProofs`: `TypeCorrect`, `RegistryIsConsistent`, `CountsAreExact`,
`ShutdownIsComplete` and `UsesTheCounter`, for any finite set of connections and
any handles, descriptors, requests and mailboxes. The inductive invariant `IInv`
is `Typed`, `Locals`, `Registered`, `OneOwner`, `Serving` and `CountsMatch`. `CountsMatch` is
not inductive alone: `dir_unregister` drops the count of the mailbox it finds
under a handle, so the handle must be registered once and by the mailbox that
carries it (`Registered`); `FDLookup` counts a pointer the list of descriptors
never counted, so what the list points to must still be in the directory, which
fails if one mailbox is taken out twice. Hence `OneOwner`: a mailbox with a node is
in the hands of the list or of one thread between `removeNode` and
`dir_unregister`, or between `dir_register` and `addNode`, never of two. `Locals` says
at which points of `handle_packet` a thread has which pointer, for the counts to
be attributed to it. `Serving` is why `FDLookup` and the directory never have a mailbox
without a count in hand before `dir_fini`: the service thread of a registered mailbox
has not dropped its own, and only a mailbox without counts can be `busy`. After
`dir_fini` `FDLookup` may come to a freed mailbox, and that step is a `fault`. The steps are grouped by what they do to the lists (adding a
node, taking one out, changing a count), with a lemma on the counts for each.
`UsesTheCounter` maps every step to one of `ThreadCounter` or to a stutter;
`TypeCorrect` takes from it, with the theorems of `ThreadCounterProofs` under the
same mapping (`TCP`), that the count of threads is a natural number.

`NoCrashProofs`: `NothingCrashes`, the property `NoCrash` of `Server`, for any
connections, handles and requests: the process lives, and no mailbox is finalized,
until one is unregistered, a client goes or a shutdown begins. It does not say that
every thread gets on. That no mailbox is finalized follows from the
counts: while the directory has a mailbox, whoever drops a count is not the last
(`NotTheLast` of `ServerProofs`). That a message's sender is still there follows
from `SendersKnown`, since every mailbox ever made is still registered. What needs an
invariant of its own is that nobody writes to a socket shut down, because a
connection that is not logged in may send LOGOUT, which shuts its socket down and
closes it, and the descriptor may be given to the next connection while the first
thread goes on reading from it. `Calm` says why that does no harm: `removeNode` has
returned with the mutex of the list locked, so no thread gets to `removeNode` or
`addNode` again and there is one such closer at most (`LastCloser`); until then every
thread has a descriptor of its own (`Unshared`), and every mailbox service thread
writes to one that is in the list, or that a thread has just taken out of it
(`Served`), hence not to the closer's.

`AllocatorProofs`: `PromiseMeansApart`, for any heap and orders: who keeps the
promise of `Allocator` never has two owners for a word of the heap. That `Budmm`
keeps it is `PromiseIsKept` below.

`BudmmProofs`: `TypeCorrect`, `HeapStaysIntact`, `ListsStayIntact`, `StaysCoalesced`,
`BlocksStayDisjoint` and `PromiseIsKept` (`Spec => KeepsPromise`), for any number of
orders, any heap of an even number of largest blocks, any requests that fit and any
number of calls. The argument has five parts.

- *Sizes.* `Size` is a recursive function; that it satisfies its recursion
  (`SizeRecursion`) and that small blocks divide large ones (`SizeDivides`) is shown by
  least counterexample (`LeastOf`), since the library's induction cannot be
  instantiated. From there: aligned blocks are nested or apart (`Nested`), two
  buddies fill the block above (`BuddyPair`), and a buddy lies in the heap
  (`BuddyInHeap`), which is what the even number of largest blocks is for.
- *Lists.* A list is a set of blocks: `next` maps it and its head one to one onto
  themselves, and every part of it has a block whose `next` leaves the part
  (`IsList`), so that there is one circle only. The walk of the code sees exactly
  that set and comes back (`WalkOfList`), and what the searches for the lowest block
  and for the buddy find on it is said once (`LowestOut`, `BuddyOut`); the proofs of
  the steps speak of sets.
  Putting a block in front and taking one out keep it a list (`ListFront`,
  `ListWithout`), and `prev` the inverse of `next` (`BackFront`, `BackWithout`).
- *Heap.* The blocks in use, those in the lists and the one `bud_free` has in hand
  tile the heap up to the break (`Tiling`). `TileAdd`, `TileSplit` and `TileMerge` are
  the ways a step changes that.
- *The inductive invariant* `IInv` is `TypeOK` with what is known of a running call
  (`OpOK`), and until a list is harmed `Sound`: the lists are lists, the blocks tile
  the heap, the headers say what the blocks are (`FreeMarked`, `UsedMarked`,
  `Returning`), no block is owned twice (`Apart`), and two free buddies occur only
  while `bud_malloc` is about to take one or `bud_free` to merge them (`Merged`). While
  nothing at all is harmed, `prev` is right too (`Linked`). The parts
  need one another: a merge keeps the tiling because the header of the buddy is
  right, which it is because the buddy is in the list of that order; the search
  for the buddy ends because `prev` is right; the split keeps `prev` because
  `bud_malloc` splits only into an empty list, and what it splits is taken next
  (`Excused`). TLC has checked `IInv` on the instance of `MCBudmm`, with three calls.
- *The promise.* Every step grants, refuses, takes back or cuts down what
  `Allocator` lets it, or is not seen. The hard one is refusing (`NothingLeft`): if
  an aligned region of the size were free of blocks in use, free blocks smaller
  than it would fill it, since `bud_malloc` has looked at the lists from its size on.
  The buddy of the smallest of them lies in the region too, and what fills the buddy
  is free and not smaller, hence the buddy itself: two free buddies, which `Merged`
  excludes. So the promise needs the coalescing of `bud_free`.

`HeapIntact` is proved of the code with the guess of `bud_free` from `NULL` links
(`NoBuddy`): for a block in a list they cannot be `NULL`, whatever the program has
written elsewhere.

`MipsProofs`, the codec: `DecodeInvertsEncode` and `EncodeInvertsDecode`, for every word,
every argument and all 2^32 addresses. That the address is subtracted and added
again is shown by induction over the places of a word (a carry out of a place is
a borrow into the next), spelled out in `BitInduction`, since the library's
induction theorem cannot be instantiated here. Then every field is shown to come
back from where it is written, and no two fields of a form to overlap, so that a
word is taken apart into what it was put together from. The tables are compared
row by row (`OpcodesDiffer`, `SpecialsDiffer`): `encode` finds the row `decode` came
from because no opcode but `UNIMP` and `ILLEGL`, which it refuses, is there twice.

`MipsProofs`, the loops: all properties of `MCMips`, for any command lines, lines, words
and any number of them. The inductive invariant adds to them what the phases say
of the histories (`Phases`, `Histories`), that words and lines are made for
consecutive places from `Base` on (`Places`), of which `addr` is the next (`NextPlace`), and that what
is written is the encoding or the decoding of its line or word at its place
(`EncodedWords`, `DecodedWords`); `RoundTrip` and `Reassembles` then follow from the two
theorems about the codec. `BaseFlags` and `FlagsApart` are why a base address cannot set
an option nor an option change the address: two zero digits leave the eight lowest
bits alone.

The assumptions are the modules' own: the sets of threads and senders are
finite, bounds are natural numbers, lines of input are of the forms the match
gives, connections are finitely many and no mailboxes, orders, requests and the
heap are as `ConstantsOK` of `Budmm` says; every run evaluates them.

Only model-checked: the liveness properties (`ShutdownCompletes`, `ServiceEnds`,
`EntriesHandedOut`, `EveryRequestAnswered`, `ServicesEnd`, `PacketsArrive`), which are
out of the prover's reach. Every invariant and every refinement the passing runs
check is proved.

## 5. Not modelled

Contents of payloads and the string handling on them (buffer sizes in USERS and
`dir_all_handles`, SEND without a newline), message ids, timestamps and byte
order, failing `malloc` and `pthread_create`, option parsing in `main.c`; the
vendored `csapp.c`, the clients and the utility library, which come as binaries.

In hw1: what `sscanf` and `printf` do with a format (a number read is a number
printed, on 32-bit `int`), lines of 120 characters and more, and that
`isSameString` does not compare the first characters, so that other words than
`syscall` take its branch. `fflush(stdin)` has no effect on the loops. `decode`
returns a pointer to a local variable that `main` copies from right after the
call; the model has that copy succeed, as in the repository's unoptimised build.

## 6. Plan

1. `ThreadCounter` and its proofs (done)
2. `Mailbox`, `MailboxQueue` and their proofs (done)
3. `Server` (done), `Wire` and its proofs (done)
4. `Budmm` and `Allocator`, which it implements until a list is harmed, and their
   proofs (done)
5. `MipsCodec`, `MipsMain` and their proofs (done)
6. `ServerProofs` and `NoCrashProofs` (done)
