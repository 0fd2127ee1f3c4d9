# ofpagent: TLA+ models, model checking and proofs

ofpagent is an OpenFlow 1.3 switch agent in C. It keeps one TCP connection to a
controller, answers its handshake and its port query, reports packets of hosts as
packet-ins, answers a host when a flow mod tells it to, and probes the controller
with echo requests. This directory holds TLA+ models of it, the TLC runs that check
them and proofs that TLAPS checks. Paths below are relative to the repository
(`src/ofpd.c` is the repository's `src/ofpd.c`).

## 1. The system

Four processes share one System V message queue (`ofpQid`), one TCP connection, one raw
socket and one shared-memory timer list.

| part | code | state | operations |
| --- | --- | --- | --- |
| main process | `src/ofpd.c` | `ofp_ports[0]` (state, event, sockfd, query_cnt, head), `ofp_io_fds`, the pids of its children | boot, take a mail, reconnect |
| state machine | `src/ofp_fsm.c` | the control block | `OFP_FSM`, the handlers `A_*` |
| decoder | `src/ofp_codec.c` | event, sockfd, ofpbuf | `OFP_decode_frame`, `OFP_encode_*` |
| packet buffer list | `src/ofp_codec.c` | `head`, the heap, the counter of ids | `insert_node`, `find_node` |
| CP child | `ofp_sockd_cp`, `src/ofp_sock.c` | the controller connection | read, mail, report the loss |
| DP child | `ofp_sockd_dp` | the raw socket | read, mail |
| timer library | `lib/com_util/os_timer.c` | delta list, control blocks, semaphore | `StartTmr`, `StopXtmr`, `StopTmrs` |
| timer task | `os_tmr`, same file | its local delta | sleep, scan, mail, settle |
| IPC library | `lib/com_util/ipc.c` | queues, semaphores, shared memory | `ipc_sw`, `ipc_rcv2`, `p`, `v` |
| IPC name service | same file, `ipcd.c` | `ipc_tbl`, the queues it makes | `house_keep`, `ipc_reg`, `ipc_map`, `ipc_sendw`, `ipc_recvw`; the agent calls none of them |
| header codecs, checksums | `ip_codec.c`, `util.c` | none | `ENCODE_IP_PKT`, `ENCODE_UDP_PKT` (the agent's answer to a host), their decoders, `CHECK_SUM` |
| MD5 | `md5.c` | `MD5_CTX`: state, count, buffer | `MD5Init`, `MD5Update`, `MD5Final`, `hmac_md5`; the agent calls none of them |
| debug output, type headers | `ofp_dbg.c`, `*.h` | none | – |

How they interact:

- The CP child turns every `recv()` into one mail, the DP child every packet of a host,
  the timer task every expiry. Main takes the mails in order, decodes the frame into
  the control block and runs the state machine to completion.
- The state machine sends on the connection and starts and stops the query timer.
- When the CP child's `recv()` fails it closes its descriptor and mails `DRIV_CP_FAIL`.
  Main then kills the timer task and the CP child, reconnects, creates both anew and
  starts the state machine over. The queue, the DP child and part of the control block
  stay as they were.
- Main and the timer task meet in the list, under a semaphore, and over SIGUSR1.

What is hard to test in it, and what should hold:

- *Sessions.* The queue outlives a session, the processes do not. Mails of a lost
  session, its timer, its half-read stream and its control block must do nothing to the
  next one. Each loss must be handled, once, and no process may be doubled.
- *Handshake and keep-alive.* Every order of frames, expiries and packets of hosts must
  give the peers a session that makes sense, on the right socket, with the next
  echo request always ahead.
- *The delta list.* It is changed from two sides, between two critical sections of the
  timer task. No order may change a timer's time, lose a block, or block the caller.
- *Signals.* SIGUSR1 wakes the task, and interrupts a blocked `msgsnd()`.
- *The packet buffer.* Nodes are freed while the list may still point to them.
- *Request and answer.* Requests and answers of the name service share one bounded queue and
  carry no number; callers may give up, and the daemon may drop what it cannot serve.
- *Framing.* TCP delivers a stream and one read is taken for one message: it may hold several, or end inside
  one, whose rest is then taken for a message too.
- *Checksums.* Carries of carries, odd lengths and in-place padding go wrong for a few datagrams in thousands.
- *Pieces.* MD5 takes a message in pieces of any length, and pads it differently around one rest of the block.

`PROJECT.json` lists these hazards one by one, at their lines, with the properties that cover them.

## 2. Modules

| module | models |
| --- | --- |
| `OfpPort` | the control block and the state machine: `ofp_fsm_tbl`, `OFP_FSM`, the handlers, `drv_xmit`, and what a handler does to the query timer |
| `OfpAgent` | extends it with the processes, the queue, the connection and the controller; states the agent's properties |
| `OfpSession` | abstract: what the peers of a connection are promised |
| `MCOfpAgent` | the message sets for TLC |
| `OsTimer` | the timer library and its task, lock by lock |
| `TimerService` | abstract: timers with remaining times |
| `TimerTask` | abstract: what the users of the timer library may count on of its task |
| `MCOsTimer` | constants |
| `HostLearn` | the list of buffered packets, with the memory of its nodes |
| `PacketStore` | abstract: what the list of buffered packets is good for |
| `MCHostLearn` | symmetry of the memory cells |
| `Ipc` | the name service of the IPC library: its daemon and the calls of its clients |
| `NameService` | abstract: a service that takes calls one at a time and answers or refuses each once |
| `MCIpc` | constants |
| `Checksum` | 16-bit integers in byte strings, the Internet checksum |
| `IpCodec` | the IP and UDP headers: encoders, decoders, checksums, and the agent's answer to a host |
| `Datagram` | one datagram encoded, damaged or not, and decoded |
| `Md5` | the buffering, counting and padding of MD5, for any size of block and word |
| `Md5Stream` | a caller that adds a message in pieces and asks for the digest |
| `Md5Block` | MD5 and HMAC of whole messages, with the transform |
| `MCLibrary` | the run of the three machines of the library, its headers, payloads and known digests |
| `OfpAgentProofs` | the inductive invariant of `OfpAgent` and what follows from it, the refinements of `OfpSession` and `TimerTask`, and the properties of single steps |
| `NatFacts` | lemmas: a set of naturals has a least element, and induction stated about sets |
| `OsTimerProofs` | the inductive invariant of `OsTimer` and what follows from it |
| `OsTimerRefinement` | the sums along the delta list, and the refinements of `TimerTask` and `TimerService` |
| `IpcProofs` | the inductive invariant of `Ipc` and what follows from it, and the refinement of `NameService` |
| `HostLearnProofs` | the inductive invariant of `HostLearn` and what follows from it, and the refinement of `PacketStore` |
| `Md5StreamProofs` | MD5 of a stream, for any block, word and pieces |
| `DatagramProofs` | the headers byte for byte, their checksums, what arrives of a datagram, and that damage is noticed |

In the modules, a definition named `D_What` in front of `D` is `D` with the bug `What`
(`killSession_OnlyChild` kills the CP child and forgets the timer task). The
specification does not use it; it is there so that the runs can be repeated with it in
place of `D`, and every property of every passing run is shown to fail on one of them.
`PROJECT.json` pairs them.

### OfpPort and OfpAgent

`mainPc` says where main is: `boot`, `start` (connected, children not forked yet), `loop`,
`reinit` (in the restart loop of `main`), or ended, because the first connection failed
(`exited`) or by SIGPIPE (`killed`). `state`, `event`, `sockfd` and `query_cnt` are the
fields of `ofp_ports[0]`.

One action is one turn of a process's loop:

| action | code |
| --- | --- |
| `BootOk`, `BootFail`, `ReconnectOk`, `ReconnectFail` | `ofpdInit` with `OFP_SOCK_INIT` |
| `Start` | the forks and `OFP_FSM(E_START)` |
| `RcvTmr`, `RcvCp`, `RcvDp`, `RcvCpFail` | a mail taken by `ipc_rcv2`, by its type |
| `CpRecv`, `CpEof` | a turn of `ofp_sockd_cp` |
| `DpRecv` | a turn of `ofp_sockd_dp` |
| `TmrExpire`, `TmrSend` | `os_tmr` takes an expired entry off its list, and mails it |
| `CtrlSend`, `CtrlClose`, `CtrlReset` | the controller and the network |

Main's turn is atomic because between two `msgrcv()` main meets the others only through
the queue (which it does not write), the connection and the timer list, each of which it
touches in one handler. `Start` joins the forks and the first `OFP_FSM`: no child can
mail before it is forked, and what a child could mail before E_START is processed waits
in the queue in either order.

Abstractions, and why they lose nothing the properties speak of:

- A frame is its type and the socket it is sent on. Its bytes, its xid and the debug
  output are left out.
- A message is one of the eight kinds the decoder tells apart. `FLOW_MOD` stands for one
  whose first action is SET_FIELD and that names a buffered packet; what other ids
  do is the subject of `HostLearn`.
- A session is named by its descriptor. Main never closes one, so descriptors count up;
  `MaxFd` bounds sessions and failed attempts together. The descriptor of a session is
  also its number in `Mail(...).sess`; in timeouts and failure reports this is a history
  field, the code's mails do not carry it.
- The stream is a sequence of messages, each whole or `cut` (its front has been read). A read takes any number of
  them and may end inside the last; the rest stays. What the decoder finds in a part, or at the start of a frame that
  begins with the rest of a message, is whatever type the bytes there spell: any of `Fragments`. A message is cut
  once at most, so that a read always shortens the stream or cuts a whole message: a second cut would give
  the decoder another part, and any number of parts in a row are there anyway, from messages one after the other.
- What a child has read and not mailed yet is still in `net`: the child holds one mail in
  its hand and nobody else reads the connection.
- `conn` is the connection as the agent's TCP sees it. After the controller closed, the
  first `send()` provokes a reset and the next one, if the reset has arrived, raises
  SIGPIPE. After the controller reset, the first `send()` may just return ECONNRESET.
- The query timer is `none`, `idle`, `armed` or `lost`. `lost` is the wake-up that came too
  early, which `OsTimer` shows in detail; the agent's list never holds more than this one timer. `TimerTask` ties the two
  models together: `OsTimer` implements it for any timers (`TaskSpec`), and `OfpAgent` uses its one timer within it (`TimerSpec`).
- The sleep before and after a reconnection (a second each) lets the killed children die:
  `killSession` removes them at once.
- The other reads of the parent's control block by children, the queue's byte limit
  and its removal by INTR (`OFP_bye`) are not modelled.

### OsTimer

The caller (`mpc`) is in one call of the library at a time, the task (`tpc`) somewhere in its
loop. Each `p()` is a step (`CallerP`, `TaskP`), the body up to `v()` another; the walk of `StartTmr`
takes one per entry. `tmrInit` is what a reconnection does: the task is killed wherever
it is, possibly holding the semaphore, and the semaphore, the list and the blocks start
over. `timeleft` counts modulo `Wrap`. The time a slice measures is any of
`Deltas`: `gettimeofday`'s microseconds wrap every second, so the code itself may measure anything up to `SEC`.
`IsTmrExist` and `PrintTmr` change nothing; the VxWorks branches are not compiled.

### HostLearn

`heap` is what the cells hold, `live` the ones not freed. `find_node` leaves `head` on the
first node when it removes it, so the list may run through freed cells. A walk that never ends hangs, using the NULL
`find_node` returns is a crash. `waiting`, `beheaded`, `first_id`, `named` and `reply` are history variables.

The memory is the C library's. The model keeps to what is common to the versions of glibc, and leaves open where they differ:

- `malloc()` returns any free cell, in any order. A freed cell keeps its `id` and `next` until then: `malloc()` and `free()`
  write into the first 16 bytes of a free block, which hold the MAC addresses and the source address of the node (`ofpd.h:53`).
- `OFP_encode_back_to_host` makes its answer before it frees the node (`ofp_codec.c:177-194`), and does so with a node of a freed cell
  too. `free()` of a freed cell may abort (glibc checks for some cases) or go unnoticed (it misses others): then the answer goes
  out, with whatever the library wrote over the addresses, and the cell is in `twice`, for as long as the process lives. From then on `malloc()`
  may return the cell although it is live, in this session or in a later one, any `free()` may abort, and, as
  the list of free blocks may have been overwritten, `malloc()` may do anything at all: `pc` is `undefined`, and nothing
  is claimed from there on.
- The only other user of the heap in main is `A_send_multipart_reply`, through `getifaddrs()`. It may overwrite free cells.
  That matters when the list runs through one or a cell is in `twice` (`Dangling`); then `pc` may become `undefined`.

`PacketStore` has neither list nor memory: its packets wait in a set, and it is `spoiled` in a session whose first node has been removed
(`beheaded`), and for good once memory was freed twice (`damaged`). `Spoiled` is that state in `HostLearn`.

### Checksum, IpCodec, Datagram

A byte string is a sequence of 0..255, a header a record with the code's names. `Datagram` has one sender, a link and a
receiver: the sender fills in headers as the comment over `ENCODE_IP_PKT` shows, or as `OFP_encode_back_to_host` does
(`HostReply`); the link damages one 16-bit word or none; the receiver calls both decoders. The byte
behind the payload is not 0 on either side, as the code writes a 0 there for an odd length. The receiver is not given a header that
claims more than it has: the decoder has no bound to check that with.

The checksum by its definition is a sum modulo 65535 (`OnesSum`). The carry of the code is a U8, so a sum of
2^24 and above has another checksum than the standard's; the properties say so (`CarryFits`), the
largest payload reaches it, and sender and receiver still agree. A damage that takes the sum past a multiple of 2^24 changes it,
for the code, by 256 less than it should: one of 256 is not noticed then (`CarryLost`). No datagram the agent sends comes near.

### Md5, Md5Stream, Md5Block

`Md5` leaves out what the transform makes of a block: `state` is the bytes it was given, so that the properties can say
which bytes those must be. `Block`, `TagLen` and `Word` are parameters; the run takes a block of 4 and words modulo 32, with which
both words of the count wrap in messages of 128 bytes. `Md5Block` has the transform on 32-bit words, as pairs of halves (TLC's integers
are signed), over an instance of `Md5` with the true block; its count words are smaller, which no message of the run reaches.
Its digests are compared with those of other implementations. `SumOf` adds by halves and the folds replace the
loops; both give what the loops give.

### Ipc

`pc` says where a client is in `ipc_sendw`, or in `ipc_recvw` (`CallRecv`), which waits without a request: blocked in `msgsnd()`, between `alarm()` and `msgrcv()`, in `msgrcv()`, or past it and before
`alarm(0)`. `HouseKeep` is a turn of the daemon up to its answer, which `SendAnswer` then sends and which may have
to wait for room; nobody else reads the table, so the turn is atomic. `GET_MSGQ` has three outcomes: a new queue, none, or one
that could not be enlarged, which is an error too but leaves its id in the entry. `made` numbers the queues, as the
kernel does not soon use an id again. `call` in a message is a history field. `ret` is kept after the call for the
properties. The name and pid in an entry are left out.

`NameService` has no queue, no table and no waiting. A call is `asked` from the moment it is in the queue to the moment
the daemon has dealt with it (`HouseKeep`), an answer is one of `answers` from then on, and `names` is what the used entries
of the table hold (`QueueNames`).

## 3. Runs

| run | checks | bounds |
| --- | --- | --- |
| `agent_safety` | `TypeOK` and the safety properties of `OfpAgent`, the refinements of `OfpSession` and `TimerTask` | 2 sessions, counter modulo 3, queue of 2, 1 message in flight, all 8 kinds of message, parts taken for any of them |
| `agent_liveness` | `LossIsRepaired`, `SilentControllerProbed` | as above, a controller that never answers an echo request; no part of a message is taken for an answer |
| `timer_safety` | `TypeOK`, `BlocksAccounted`, `OneEntryPerKey`, `NoUnderflow`, the refinements of `TimerService` and `TimerTask` | 3 timers of one owner, delays 2 and 3, slices 1 and 2, 3 blocks, queue of 1 |
| `timer_liveness` | `CallsReturn`, `TimersExpire` | 3 owners, 2 blocks, so that `StartTmr` runs out of them |
| `learn_safety` | `TypeOK`, `IntactUntilSpoiled`, `AnswersNamed`, the refinement of `PacketStore` | 5 packets, 5 cells, 3 sessions |
| `ipc_calls` | `TypeOK`, `OneEntryPerKey`, `EntriesCurrent`, `AnswersOwnCall`, `CallsAccounted`, `AnswersInOrder`, the refinement of `NameService`, `CallsReturn` | 2 clients, one of which gives up, 3 calls in all, 3 keys for 2 entries, queue of 2 |
| `library` | `StandardChecksums`, `RoundTrip`, `DamageNoticed`, `StreamKept`, `DigestPadded`, `KnownDigests` | 10 headers, payloads of 0 to 531 bytes, one with a sum just below 2^24, 3 damages to each of 18 words; messages of up to 140 bytes in pieces of 0 to 11 with a block of 4; 10 known messages |
| `agent_stale_event`, `agent_coalesced`, `timer_suspended`, `learn_waiting`, `learn_no_buffer` | one statement of the repository each, which the code does not meet | the smallest instance that shows it |

Why the bounds are enough. Two sessions are what stale state needs: one that is lost
and one that follows; a third adds no new pair. A queue of two holds a stale mail and a new
one, and is full often. `QueryMod` 3 makes the counter wrap after two expiries. Three
entries give the delta list a head, a middle and an end; a slice of 2 expires one entry
and reaches into the next. The delays are at least the longest slice, as in the code (10 s
against 1 s); with a shorter one `NoUnderflow` would not hold, as a timer started between
scan and settling would be charged for time before its start. In `HostLearn` five packets
allow removals at both ends and in the middle with an insertion after each; one is enough to be answered twice, and the others
may then be given its cell, several at a time, in this session or the two that follow. In `Ipc` three calls fill a table of two, repeat
a failed registration, let a late answer meet a later call, and jam the queue of two with a request while the daemon waits to answer. In
`library` the payloads have both parities, sums that carry once, twice and beyond 24 bits; the damages hit each word of header and
payload; the pieces stop below, at and above the end of a block, and span several. Its three machines share nothing, so a
behaviour runs one of them.

What the properties say, in `OfpAgent`:

- `MailsInSessionOrder`, `NoStaleMail`: timeouts of a lost session stay in the queue and are
  ahead of everything the new session brings; once the new controller's HELLO has
  been handled none is left.
- `OneFailPerLoss`, `SingleChildren`: a loss is reported once and tears down one session; there
  are never two timer tasks or two receivers of one queue.
- `CleanCount`: no timeout of the lost session counts against the new controller.
- `KeepaliveAhead`: an established session has its timer running (or lost), or its
  expiry on the way.
- `LossAhead`: while main is in its loop, the CP child reads the connection or its one report is in the queue, so a
  loss cannot go unnoticed.
- `FramesOnTheirSocket`: although `port_ccb->sockfd` is the raw socket after each packet of a host, what is for the
  controller goes to the connection, and what is for the host to the raw socket.
- `SessionSpec`: HELLO first, FEATURES_REPLY with the first echo request once and only when
  asked, and nothing else before.
- `TimerSpec`: no expiry but of a running timer, one on the way at a time, none after the task was killed; a wake-up or an
  expiry is lost only where `OsTimer` loses one too (`TaskSpec`).
- `HandshakeByFrame`: only a frame of this session's controller advances the handshake, however the stream was cut, though
  it may be one the decoder does not know (see the findings).
- `LossIsRepaired`: a controller that closed or reset is replaced, unless descriptors have
  run out or SIGPIPE ended main. `SilentControllerProbed`: a silent controller is probed for ever;
  the limit `ofp_max_msg_per_query` only prints a message.

In the library:

- `StandardChecksums`: the headers that are sent pass the check of any other implementation. `RoundTrip`: what is
  sent arrives, every field and byte. `DamageNoticed`: a datagram with a damaged word is refused, except for the damages no
  checksum of this kind is bound to show (`Invisible`), among them any to `IHL` (wider than need be: the code notices most of them), any to a datagram whose checksum field says that there is none, and one that
  takes the sum past a multiple of 2^24.
- `StreamKept`: what has been hashed and what waits in the buffer are the message, whatever the pieces; the count is its length.
  `DigestPadded`: a digest is made of the message padded by the standard. `KnownDigests`: MD5 and HMAC-MD5 are those of the standards.

In `HostLearn`:

- `IntactUntilSpoiled`: the list is exactly the packets that wait, oldest first, until its first node is removed, or memory has been freed
  twice. After the latter it need not be even in the next session: a cell given out twice makes a loop of the new list.
- `AnswersNamed`: whatever becomes of it, an answer is about the packet the controller named, of this session; it
  waits, or it was answered and its node is freed again unnoticed.
- `StoreSpec`: until the oldest packet is answered, naming one that waits answers it, and naming anything else ends
  main. From then to the end of the session buffering may hang, naming may end or hang main or repeat an answer, and a multipart reply
  may be the end of what can be said; but an answer is still to the packet that was named. A repeated answer lets the next session begin
  spoiled.

In `Ipc`:

- `OneEntryPerKey`, `EntriesCurrent`: whatever registrations fail on the way, a key has one entry, and the entry names the queue
  the key has now, or none.
- `AnswersOwnCall`, `AnswersInOrder`: who always waits for ever gets the answer to this call; who gives up may later take an
  old answer for a new one, from `ipc_recvw` too, but in the order of its calls and never another process's.
- `CallsAccounted`: of the calls after the last answer a process has taken, each one is on its way (as a request, in the daemon's
  hands, or as an answer) or has been dropped by the daemon, never both and never neither.
- `NameSpec`: whatever the queue and the table go through, the daemon serves the calls of a process in their order, each once; an
  answer to a registration is a fresh queue, one to a mapping the queue the key has at that moment, and only a key nobody has
  registered, or a table full of other keys, or a queue that cannot be had, makes it refuse.
- `CallsReturn`: a call returns unless the daemon dropped it without an answer, an `ipc_recvw` has nothing to wait for, or the
  queue is jammed. All happen: `ipc_map` of an
  unknown key never returns, although it has an error message for that, and a short wait whose alarm rings just before `msgrcv()`
  ends only with an answer.

Fairness. Main and the timer task are processes that are never blocked for good except
where a guard says so: weak fairness. A child in `msgsnd()` on a full queue competes with
the other senders, and the kernel wakes waiting senders in turn: strong
fairness. The same holds for `semop()` and for main's return to its queue in `OsTimer`. The controller, the hosts and the
callers of the timer library owe nothing. In `Ipc` the daemon and the clients in a call run on and alarms ring; a process waiting for room is not
passed over for ever.

`CHECK_DEADLOCK FALSE` stands where the system may stop: main exits or is killed, descriptors (a
bound) run out, or the bounds of `HostLearn` or `Ipc` are reached, or `Ipc`'s queue is jammed, or a machine of `library` has done its work. The timer runs check deadlock.

## 4. Findings

1. `agent_stale_event`: a frame the decoder has no case for leaves the event of the frame before (`src/ofp_codec.c:103`);
   the state machine reacts to that one again. The event may be left from the session before, so it may even
   advance a new handshake.
2. `agent_coalesced`: messages read by one `recv()` reach main as one (`src/ofp_sock.c:151`).
3. `timer_suspended`: the wake-up of a timer started between the timer task's look at the list
   and its `pause()` is lost, which the comment at `os_timer.c:228` calls impossible.
4. `learn_waiting`: after the first buffered packet has been answered the head points to freed memory; the next
   packet may get that cell, be linked to itself and cut off the others (`src/ofp_codec.c:217`).
5. `learn_no_buffer`: a flow mod that names no buffered packet makes main dereference NULL (`src/ofp_codec.c:177`).
   Neither this finding nor the one before it depends on what `free()` notices.

Seen while modelling, and too plain for a run: `README.md:38` says flow mods are only printed, but one with SET_FIELD makes
the agent send to the host (`src/ofp_fsm.c:362`); a UDP checksum that comes out as 0 is sent as 0, which means "not computed"
(`lib/com_util/ip_codec.c:343`); a packet answered once may be answered again, from its freed node, which `free()` then
gets a second time (`src/ofp_codec.c:194`); the carry of a checksum is cut to 8 bits (`lib/com_util/util.c:279`), so that above 2^24 the checksum is
not the standard's and a word that is 256 too large may not be noticed.

## 5. Proofs

TLC checks the instances above; the theorems hold for every value of the constants that meets the assumptions of
the modules:

- `OfpAgent`: positive bounds, a modulus above 1, `CtrlMsgs` and `Fragments` subsets of `Messages`.
- `OsTimer`: at least one timer, one block and one place in the queue, delays and slices below `Wrap`, and `SliceAssumption`: no
  delay is shorter than the longest slice (section 3 says why the code meets it, and what happens otherwise).
- `Ipc`: at least one key, entry and place in the queue, and no client's pid is `IPC_DEF_USR`, the type of the daemon's own mail.
- `HostLearn`: a finite memory with a cell for every packet, as nothing bounds the list in the code either. About the C library it assumes
  what section 2 says, and nothing about what `free()` notices. A behaviour that has become `undefined` ends there.
- `Md5Stream`: a block is longer than the tag, the tag has an even length (two words of the same width), the word is a multiple of the
  bits of a block (2^32 of 512), and what is hashed are bytes.
- `Datagram`: the fields of a header, the ports and the addresses have the widths they are declared with, the options are as long as
  `IHL` says, the length of the datagram fits `total_len`, and a damage changes a word. Any header, any payload.

*The agent.* `IInv` is `TypeOK`, `SessionInv` and `QueueInv`. None of the properties is
inductive alone: that no stale mail is left after a HELLO follows from the order of the mails
in the queue, which holds for a new mail only because it belongs to the current
session, which holds because the senders of the old one are gone (`SessionInv`) and because
the failure report is the last mail of its session that is not a timeout (the second part of `QueueInv`): when main
takes it, nothing else of that session is in the queue. `Invariant` is proved along the
lemmas `InitInv` and `NextInv`; the latter has one case per action, most of them instances of four
lemmas: a mail is consumed (`ConsumeInv`), a mail is sent (`MailInv`), a connection is made
(`ConnectInv`), nothing of the session moves (`QuietInv`).

From it follow `TypeCorrect`, `SessionOrder`, `StaleMailGone`, `OneReport`, `ChildrenUnique`. `FsmSession` and
`FsmFrames` sum up what one step of the state machine does to the session and what it sends; with them,
`SessionRefined` proves that `OfpAgent` implements `OfpSession` step by step, `TimerRefined` (with `FsmTimer`) that it uses its
timer as `TimerTask` allows, and `CountClean`, `KeepaliveKept`, `LossKept` (the part of `LossIsRepaired` that needs no fairness),
`FramesRouted` and `HandshakeFromController` prove the remaining properties, each inductive relative to `IInv`.

*The timer library.* `IInv` adds to `TypeOK`, `BlocksAccounted` and `OneEntryPerKey` who holds the semaphore at which step
(`LockInv`) and which entry a walk stands on (`LinkInv`): between its critical sections `StartTmr` holds a
block that is neither free nor linked, and its key is out of the list because only the caller starts timers. A
restart of the task makes everything free again, wherever both were.
`TimeInv` is about the sums along the list: none reaches `Wrap`; what a walk still carries and the sum it has passed make up a delay; and
while the task has measured a slice and not yet settled it, the head has at least the rest of it left (`NoUnderflow`): an
entry linked in between has a delay of at least a slice (`SliceAssumption`), and
an entry that is removed gives its delta to the next. `ServiceRefined` maps the list to
the times that remain (`Remaining`, a sum over the entries in front) and shows that each step is one of `TimerService` or
changes no remaining time: linking splits a delta in two, unlinking joins two, a slice is charged to the head alone.
`TaskRefined` maps a task asleep over its list to the service that has lost its wake-up.

*The name service.* `TableInv` is about the daemon alone: the table has no holes, so the first free entry found by `ipc_reg` is behind
the last. `OrderInv` numbers calls: the requests of a client in the queue, the one being served and the answers on their way are in the
order of its calls, each at most once, and no later than its present call. `PatientWaits` says that a client that has always waited for ever has
at most one call anywhere in the system, its present one; so the answer it takes is this call's (`OwnCall`). `InOrder` is an action
property and needs only `OrderInv`. `CountInv` completes the account: `CallsAccounted`, and the calls noted as dropped are calls that
were sent (`ErrorsSent`); with `OrderInv` a step that moves a message touches one call of one client (`CountStep`), and `NothingLost`
follows. `ServiceRefined` maps each turn of the daemon to the service of the oldest call of its client, which `OrderInv` says is the one the
daemon holds; each key of the table to its entry, which `TableInv` makes unique; and a full table to `Capacity` names, as entries and
keys are paired one to one (`FullTable`, `RoomLeft`). Everything a client does between its call and its answer is a stutter.

*The packet buffer.* `IntactUntilSpoiled` is inductive with `PointersInSession` (the head and the nodes of this session point to nodes
of this session only, whichever cell `malloc()` returns) and `IdsGiven` (no two cells have the same id, and of the cells of this session
the live ones are those whose packets wait). None of the three assumes that a second free is noticed. A walk is a recursive
function of its steps (`From`); the lemmas about it say what a walk of the changed heap is after an insertion behind the last
node and after a removal in the middle. `RepliesNamed` holds even when the list runs through freed memory: the walk stays in the session,
and a node found in a live cell waits; one found in a freed cell is in `twice` when the answer goes out. `StoreRefined` puts both together: while
the list is not spoiled,
the new cell is not on it, so the walk to its end does end (`FilledWalk`), every packet that waits is found (`WaitingHit`), the node found is
the first one exactly when its packet is the oldest (`FirstIsOldest`), and a multipart reply finds nothing `Dangling` (`ReplyIsPause`). After
that an answer is the first to its packet or a repeated one, as its cell was live or not (`AnswerIsAnswer`); what is left is the abort, the
endless walk and `undefined`. Two theorems say how far the findings reach: `FoundUntilSpoiled` that each waiting packet is found until the first
node is removed, `NoBufferFatal` that a flow mod for no packet always stops main.

*MD5.* `Holds(c, m)` says that the context `c` holds the message `m`: hashed and waiting bytes are `m`, the count is its length.
`UpdateKeeps` is the heart: whatever the length of the piece, `Holds(c, m)` gives `Holds(MD5Update(c, input), m \o input)`. It rests on
`BitsAdd` (the comparison that detects the carry is right, even when both words wrap) and `IndexOfCount` (the index, read from the low
word alone, is the length modulo the block). `FinalPads` applies it twice, to the padding and to the tag; `PadLength` shows that `padLen` is the only
number of zeros the standard allows.

*The datagrams.* `SumOf` adds by halves; `SumIsPrefix` shows that this is the last of the sums from the left, so sums of concatenations
add (`SumAdds`), and byte sums too when the front is even (`ByteSumAdds`). `CheckSumCompletes` is the arithmetic of the carry: a sum with a
carry of 8 bits and its checksum make up a multiple of 65535. `EncodedHeader` and `EncodedUdp` give the words that are on the wire, so the
header sums to such a multiple, and so does the datagram with its pseudo header and the 0 behind an odd payload (`ChecksumsStandard`).
`DecodesHeader` and `DecodesUdp` undo the encoders field by field (`FlagsDecode` for the three bits of flags above the offset); both
ends take the checksum over the same words (`SameSums`), the carry lost or not. The invariant `DgramInv` says that the wire is the
`Message` of what was given until it is damaged, that it then differs from it in one word (`Hurt`), that what was received undamaged is
what was sent (`ArrivesAsSent`), and that what was damaged was refused unless the damage is one of those `Invisible` names
(`DamageRefused`). For the last, `WordsApart` says that two words that differ by a multiple of 65535 are 0000 and FFFF, so it is enough
that the sum with either word is such a multiple. A word of the header: `EncodesDecoded` shows that a header which `DECODE_IP_PKT`
accepts is the one `ENCODE_IP_PKT` makes of the fields it was decoded to, whatever its bytes are, so it sums to a multiple of 65535
like the one that was sent (`HeaderHit`). A word behind the header: `AcceptedAgrees` shows the same of what `DECODE_UDP_PKT` accepts,
against the pseudo header that was sent, since the header is whole; the sums are multiples of 65535 but for what the carry loses, and
that is the same both ways unless the damage is in the carry (`AgreedSum`, `BodyHit`).

*Technique.* Every invariant was checked by TLC on the instance of its run before it was proved. The provers cannot use the library's induction
theorems, which take an operator; `NatFacts` derives the least element of a set of naturals from well-foundedness, and with it induction
for a set, which serves walks and sums that are recursive functions.

Only model-checked: the liveness properties (`LossIsRepaired`, `SilentControllerProbed`, `TimersExpire`, `CallsReturn` of `OsTimer` and of `Ipc`),
which rest on fairness; `KnownDigests`, a computation.

## 6. Not modelled

- `ipc_sw` with an answer and `ipc_reply`: the pattern of `ipc_sendw` with another layout of the
  message. Mails of other types, which `house_keep` takes and drops (`ipc.c:230`): none of the calls sends one. `ipcdExit`, and two daemons at once. `ipc_recvw` with a negative timeout returns at once.
- The layout of the OpenFlow frames, and therefore the sizes of the buffers they are built in.
- The ARP encoder, the 24-bit, 32-bit and little-endian integers, the string helpers of `util.c`: single assignments of bytes that
  nothing in the agent depends on.
- The debug output, the packet filter and the setup of the interface.

## 7. Plan

Done, in this order: `OfpPort` and `OfpAgent` (the core), `OfpSession`, `OsTimer` with `TimerService`, `HostLearn`, the
proofs about `OfpAgent`, `Ipc`, the fragments of the stream in `OfpAgent` and its proofs, `Checksum` to `Datagram`, `Md5` to `Md5Block`, `TimerTask`,
the proofs about `OsTimer`, `Ipc`, `HostLearn`, `Md5Stream` and `Datagram`.

Then `NameService` and `PacketStore`, with the proofs that `Ipc` and `HostLearn` implement them, `CallsAccounted` and `LossAhead`.

Every invariant and every safety property the passing runs check is a theorem, but for `KnownDigests`; the agent, the
timer library, the name service and the packet buffer are each proved to implement an abstract
specification. Left to do: lemmas shared by the proofs about `Datagram`, which are long, and the parts of section 6 that change
state.
