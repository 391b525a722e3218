# A TLA+ model of the RDMA test server and its clients

The repository measures what RDMA could do for memcached: a server
(`libevent-server.c`) that receives memcached-like requests through verbs and
libevent, and clients that load it. This directory models them in TLA+, checks
the models with TLC on small instances, and proves with TLAPS, for every instance, the
safety properties of the server, of all its clients and of the hash table.

Sources are under `src/`; "l.430" is a line of the file being talked about.

## 1. Inventory

| Component | Source | State | Operations | Hard behaviour |
|---|---|---|---|---|
| RDMA server | `libevent-server.c` | `rdma_ctx` (CM channel, completion channel, one completion queue), per connection `rdma_conn` (buffers, `total_recv`, `poll_event`), the libevent base | start-up, `rdma_cm_event_handle`, `handle_connect_request`, `release_conn`, `poll_event_handle`, `handle_work_complete`, `handle_rdma_read_request`, `post_larger_memory` | one-shot notifications, several events on one descriptor, buffers reposted before they are read, freed connections, calls that fail midway |
| Event driven client | `async-client.c` | per thread: two completion queues, one channel, a shared receive queue, counters | `thread_run`, `cc_poll_event_handler`, `handle_work_complete`, `handle_recv_regmem`, `send_mr` | two queues behind one channel, a dropped request nobody resends, `exit(0)` in one of many threads |
| Hash table | `hashtable.c`, `.h` | slots with chains | create, free, insert, search, delete | deletion inside a chain, duplicate keys, negative keys |
| Blocking client | `client-rdma.c` | one connection with a send and a receive completion queue; one thread, whatever `-c` says | `send_mr`, `recv_msg`, `test_with_regmem` | any completion and any reply will do; what the server makes of a message depends on what came before it |
| Test client | `client-test.c` | the same for each thread; one static message all threads fill | `main`'s threads, read, write, add/get, connection tests | resending on a failed queue pair, requests that are answered twice, unsynchronised threads |
| Command building | `build_cmd.c`, `.h` | global message buffers | `build_ascii_cmd`, `build_bin_cmd`, `init_message` | lengths near 250, keys of negative length |
| Socket clients | `client-socket.c`, `tcp-client.c`, `.py` | one socket | connect, send, one `recv` per reply | a stream has no messages: a `recv` may end inside a reply; the server closes or resets the connection and nobody looks at a result |
| Binary protocol header | `protocol_binary.h` | none | sizes of headers and extras | none |
| Build files | `makefile`, `Doxyfile`, `tags` | none | none | none |

How they interact:

- A client connects through the RDMA CM. The server's loop reads the event
  (`rdma_cm_event_handle`), builds a queue pair on the *shared* completion queue,
  posts `REG_PER_CONN` receive buffers and adds one more `poll_event` for the
  *shared* completion channel.
- Messages arrive in posted buffers without the server thread taking part. Each
  completion goes to the completion queue, and raises an event in the channel
  only if the queue was armed with `ibv_req_notify_cq`.
- `poll_event_handle` takes one event, arms the queue again, and polls batches
  until one comes back short. `handle_work_complete` reposts the buffer, then
  looks into it for `'\x88'` (read the client's memory) and for "noreply".
- The event driven client mirrors this with two queues per channel, the blocking
  clients spin on their completion queues.
- The socket clients talk the same requests over TCP to memcached, which is not in this
  repository: it serves one request after the other and writes all of a reply before it
  reads on.
- `async-client.c` maps queue pair numbers to connections with `hashtable.c`.

What makes each component correct:

- *Server*: never sleeps with a completion in the queue; keeps every buffer in
  exactly one place; counts every message; replies to what asks for a reply and to
  nothing else; serves every peer; outlives peers that stay, terminate their messages and
  ask for nothing that cannot be registered.
- *Event driven client*: the same for each of two queues; one request at a time per
  connection; the exchange goes on until `request_number`.
- *Hash table*: it is a multimap; an item stays where a search looks for it.
- *Blocking clients*: the reply `recv_msg` takes is that of the message just sent; a
  reply means that what was sent before it was received; nothing is received twice;
  every test ends.
- *Threads of the test client*: whatever the interleaving, once all are done the shared
  message is whole; `main` returns after every thread.
- *Socket clients*: a reply means that the server got the requests before it; client and
  server do not wait for each other; a client without a server comes to an end.
- *Command building*: what is built fits in `request_size` bytes.

The hazards in `PROJECT.json` are the places where this is hard to test, each with
the properties that are about it.

## 2. Modules

| Module | Models |
|---|---|
| `NotifiedQueue` | abstract: a queue whose consumer never sleeps on work |
| `LibeventServer` | all of `libevent-server.c` |
| `LibeventServerProofs` | theorems about `LibeventServer` |
| `CountTheorems` | lemmas the proofs share: induction, and how often something is in a queue |
| `MCLibeventServer` | the message sets TLC checks the server with |
| `AsyncClient` | `async-client.c` without its hash table |
| `AsyncClientProofs` | theorems about `AsyncClient` |
| `MultiMap` | abstract: the table `hashtable.h` describes |
| `Hashtable` | `hashtable.c` |
| `HashtableProofs` | theorems about `Hashtable`, and that it implements `MultiMap` |
| `MCHashtable` | keys and prime sizes for TLC |
| `BuildCmd` | lengths and layout of what `build_cmd.c` builds |
| `BuildCmdProofs` | theorems about `BuildCmd` |
| `ClientTests` | what each test of `client-rdma.c` and `client-test.c` sends, with `BuildCmd`'s messages |
| `BlockingClient` | `send_mr`, `recv_msg` and the connection of both programs, with the server as one connection sees it |
| `BlockingClientProofs` | theorems about `BlockingClient` and about what `ClientTests` and `MCBlockingClient` give it |
| `MCBlockingClient` | the tests TLC runs, composed of `BlockingClient` and `ClientTests` |
| `TestThreads` | `main` of `client-test.c`, its threads, their shared message, `test_max_conns` |
| `TestThreadsProofs` | theorems about `TestThreads` |
| `SocketClient` | connecting, sending and receiving of the three socket clients, with TCP and memcached |
| `SocketClientProofs` | theorems about `SocketClient` |
| `SocketTests` | what each of the three sends, with `BuildCmd`'s lengths |
| `MCSocketClient` | the tests TLC runs, composed of `SocketClient` and `SocketTests` |

Operators introduced by a comment "Mutant of X" are deliberately wrong versions of
`X`, each a slip one could make in that function. No specification uses them. They
show that the properties can fail: with the mutant in the place of `X` TLC finds the
property violated. `PROJECT.json` lists which mutant breaks which property.

### LibeventServer

The server thread is sequential, so its program counter `pc` distinguishes only the
points between which the adapter or a peer can do something the thread notices:
before and after `ibv_get_cq_event`, `ibv_req_notify_cq` and `ibv_poll_cq`, at the top
of `handle_work_complete`, and at the two reads of a buffer that was already posted
again (`"head"`, `"reply"`). The other handlers are one step each.

- `peer`, `delivered` and the `Peer*` actions: what clients do. A peer may connect,
  confirm, leave or give up at any time, and sends any message of `Messages`.
- `qp`, `rq`, `sq`, `mem`, `cq`, `armed`, `events` and the `Hca*` actions: the
  adapter. A completion raises an event if the queue is armed and disarms it. A
  message shorter than the buffer leaves the tail of the older one. A message too
  long fails the queue pair, and whatever was posted is flushed.
- `cmReady`, `pollReady`, `cmFirst`: one round of libevent. One event on the
  completion channel activates *every* registered `poll_event`, because each
  connection adds its own for the same descriptor (l.297-300).
- `conn`: how far `handle_connect_request` got. It accepts the connection before it
  registers and posts buffers, so a failure leaves it half set up; what
  `release_conn` does with that is `Release`.
- A freed `rdma_conn` that is used again is undefined behaviour. `CrashOnFreed` is
  the outcome in which the process dies; the others go on with the old contents.
- Messages are sequences of cells: text, the word "noreply", `'\x88'`, NUL. A
  buffer's cells start as `"any"`, what `malloc` left there, and `strstr` meeting one
  may end either way.
- The text of a message is printed every `PrintEvery` messages (l.328; every one is with
  `-v`), a read request's is printed and scanned (l.398-399), and every one is searched
  (l.342). All of these go on to a NUL. In a full buffer without one they leave the buffer,
  which is undefined: `ReadPastBuffer` is the outcome in which the process dies.
- A read request says itself how much is to be read. `"huge"` heads one for more than can
  be registered: `rdma_reg_msgs` returns NULL and the next line reads through it
  (`RegisterCrash`), which takes no failing call that is not of the request's making.
- `careless` records which peers sent a message without a NUL, or a `"huge"` one.

Left out: options, the wording of what is printed, memory that leaks.
`rdma_get_cm_event` failing changes nothing, as libevent calls the handler again.

### AsyncClient

`pc[t]` as in the server, for each thread. A queue's completions are a sequence of
`"ok"` and `"error"`; `channel[t]` is the order in which the two queues raised events.
`ack_events` is *one* counter for two queues, as in the code: which queue they are
acknowledged to, only a queue that is destroyed would notice, and none is. `process` is shared:
`exit(0)`, a failing `pthread_create` and a NULL memory region end all the threads. The
server's side is `ServerReplies` and `ServerDrops`, which stands for
`libevent-server.c` l.345 losing a reply.

### Hashtable

A slot is an item of its own and a sequence, the chain. Primes are small, the rest is
the code's: the size is the first prime not below 3/2 of the request, a key is
converted to a 64-bit `size_t` before the remainder. `Walk` is the loop at l.122-131,
which skips the item behind one it unlinked, and `WalkCrashes` says when it reads
through NULL; what `Walk` returns then is not used. `Deletes` is whether the caller deletes: the repository's does not.

### BuildCmd, ClientTests and BlockingClient

`client-rdma.c` runs one test in its main thread; `client-test.c` gives every thread
queues of its own. So both are one blocking thread and one connection, and differ in
the messages and in `send_mr`: that of `client-test.c` sends a message with a bad status
again. A test is the sequence of messages one run of the program sends, each waited
for or not (`ClientTests`); `test` is chosen once and `at` is the item the client is at.

- A message is its length, where in it "noreply" is, where its NULs are and whether
  `'\x88'` comes first. `BuildCmd` computes them from `request_size` as
  `build_ascii_cmd` and `build_bin_cmd` do. `mem[b].words` and `.nuls` are what a server's
  buffer holds, older messages' tails included.
- The client's program counter has a value for every point at which it spins. Every
  result of `send_mr` and `recv_msg` is ignored, so `AfterSend` is the same for all.
- The server is `handle_work_complete` cut at the points that matter to a client:
  `ServerTakes` counts a message and posts its buffer again, `ServerTestsHead` looks for
  `'\x88'` in the buffer, and `ServerAnswers` for "noreply". Before each of the two the next
  message may be received into it. Its notifications and failures are `LibeventServer`'s.
- `lost` (a message or reply that was dropped), `mistaken` (the server looked at a
  buffer that had been refilled) and `early` (a failing poll ended a wait) record history
  for the properties only.
- Every verbs call of the clients may fail. `PollFails`: the completion that was waited for
  is then the next one found, so two sends may be on their way (`out`, `landed`).
  `InitFails`: `main` of `client-rdma.c` ignores the result (l.450), `rdma_connect` builds
  queues of its own, and the first `ibv_poll_cq` reads through a NULL queue. If only the
  second queue, that of the replies, could not be created (`RecvCqFails`), sending works and
  the first `recv_msg` dies (`RecvCqCrash`).
- The add of `test_three` is cut and filled as l.397-404 do it: with a value of five bytes or
  fewer its "\r\n" is written over the NUL `snprintf` left, or in front of it, and the
  message that is sent has none.
- `ClientRdma` and `ClientTest` choose the tests as the options do, refused sizes
  included.

### TestThreads

One step of a thread is one access to what threads share, or one call. The static message
of `test_add_get` is `memory`, with the places that decide what a thread makes of it: the
"\r\n" of the head, the NUL behind "hello", the "\r\n" of the tail, and further places where
a tail ends up that was measured from an earlier tail. `memset` writes them one after the
other, `snprintf` the head and then the NUL, `strstr` (`Found`, `NotFoundYet`, `NotFound`)
reads them one after the other; that is what the unsynchronised accesses of l.398-402 can
do on a machine that keeps the order of a thread's own accesses. `erased` records whose
head was overwritten before it was found. A round of messages is one step, `Round`, as
`BlockingClient` has it in detail; `NoReply` is its way not to end, which takes no failing
call here (`libevent-server.c` l.345 drops a reply the send queue has no room for). With a
`request_number` of 0 `test_max_conns` builds no connection, the other tests build theirs
and send nothing.

`client-test.c` with one thread calls `thread_run(NULL)`: `RunInMainThread`.

### SocketTests and SocketClient

A test is a sequence of requests with the length of each, that of its reply (0 for
noreply) and how much `recv` may return. Positions in the two streams are counted in
segments, whose bytes travel together: `written`, `taken`, `replied`, `received`. A `send`
blocks until all of its request is taken over, a `recv` returns any part of what is there
and is never repeated. `link` is what became of the connection: closed in order, reset
with the error not yet reported, or down, when the next `send` raises SIGPIPE
(`SendDown`). The programs in C ignore every result; Python raises an exception for a
reported error but, as they do, takes an empty `recv` for a reply.

The server half (`Server*`) is memcached from what the clients rely on; it is marked
external.

## 3. What TLC checks

Every run ends within a few minutes. `CHECK_DEADLOCK FALSE` is in every configuration
because the systems really stop: peers may leave and never come back, and a process
ends.

| Run | Question | Result |
|---|---|---|
| `ServerControl` | two connections come, send, leave in any order with the server's steps; no call fails. Is a wakeup lost? For what does the loop block? Does the server implement `NotifiedQueue`; are both peers served and all their messages counted, each for its own connection? | holds |
| `ServerMessages` | one connection reuses two buffers for messages of all layouts, any two calls fail, start-up included. Is a buffer lost, a message not counted? Is the reply decided by the message? Do peers that stay, send their NUL and ask for what can be registered keep the process alive? | holds; the reply as long as the ring is not exhausted |
| `ServerStarved` | is a third peer served? | **violated**: one event activates two handlers, the second blocks in `ibv_get_cq_event` |
| `HashtableMap` | with up to two items per key, is it a multimap? What does a delete that returns leave? | holds; other keys' items, untouched |
| `HashtableDelete` | does a delete return? | **violated**: the walk reads through NULL after the last item |
| `AsyncOne` | one thread, two failures, small queues: wakeups, one request at a time, ends unless the send queue fills up | holds |
| `BlockingTests` | each test of the blocking clients with one failure anywhere: whose replies are taken, is a message received twice, does the test end? | holds; a test that does not end spins for the very message or reply that was dropped |
| `BlockingStale` | does a test that waits for a reply get one? | **violated** for `client-rdma -m 274`: the get is exactly 256 bytes with no NUL, an older "noreply" is behind it, and `recv_msg` spins for ever |
| `BlockingFlood` | does the reply to the last get mean that everything was received (`client-rdma.c` l.332)? | **violated** when the noreply messages fill the ring: one of them is answered, as the get is in its buffer by then |
| `SocketTests` | each test of the socket clients, the server closing or resetting: does a reply mean what was sent before was received, do client and server block each other, does a client without a server end? | holds; both go wrong only after a `recv` that ended inside a reply |
| `TestThreads` | up to three threads, no round or two, fill the shared message at the same time, with one failure: what can become of it? Does `main` wait for all? | holds; wrong only if a thread erased another's head |
| `ThreadsDefault` | does one thread, the default, run the test? | **violated**: `thread_run(NULL)` reads its number through NULL |

After it unlinks an item the walk of `hashtable_delete` does not look at the next one, so
a delete takes some of the items with its key and leaves others. `MultiMap` allows a
delete to take any of them, at least one if there is one; `DeleteOnlyItsKey` says what
is left of the rest of the table.

`async-client.c` ends in the first thread that has its replies: `exit(0)` (l.410) takes the
others with it. `ExitAtLastReply` models it; there is nothing to check about the others.

The two findings about the blocking clients are why `ReplyIsOwn` and
`ReplyMeansReceivedIfIntact` say "unless a buffer was refilled" and "unless a request is
answered twice": a request that announces memory is answered at once and again when
the read is done, and from then on every reply the client takes is an older one's.

### Bounds, and why they are enough

- *Connections.* What connections share is the completion queue, the channel and
  the loop; two are enough for two `poll_event`s on one descriptor, for a batch with
  completions of both, and for a completion of a freed connection among a living
  one's. `ServerStarved` needs a third, the peer that waits.
- *`PollWcSize`* 1 or 2 for 128: a full batch, a short one and an empty one occur.
  With 1 every batch is full, which makes `poll_event_handle` poll until nothing is
  left.
- *`NumBufs`* 1 or 2 for 128, with up to three messages: the ring is exhausted and
  reused. *`MaxSendWr`* 1 or 2 for 8: a reply finds the queue full.
- *`BufCells`* 2 for 1024 bytes: enough for a short message in front of the tail of
  a longer one, for one that fills the buffer with or without a NUL, and for one that does
  not fit. *`LayoutMessages`* has each of these, says "noreply" with a NUL and without, and
  has read requests of both kinds.
- *`PrintEvery`* 2 for 1000: a message that is printed follows one that is not. The control
  runs, whose messages all have their NUL, print none.
- *`MaxMsgs`* bounds the messages per connection; *`MaxFaults`* the failing calls.
- `CompletionsBounded` is a bound per connection. In the code's numbers it is
  128 + 8, so the `cq_size` of 1024 covers 7 connections, not 8.
- *Hash table*: tables of two or three slots, keys that collide, a negative key,
  two items per key.
- *`AsyncOne`*: request 4, messages 3 and acknowledgement 3 make the index and the
  acknowledgement counter wrap round. A send queue of 2 fills up when the receive queue is
  drained before the send queue's event is looked at.
- *`BlockingTests`*: one round of every loop, two of the read test, whose surplus replies
  meet the client's two buffers, and no round of a test of each program; a ring of two and a
  send queue of two. The ASCII test has `request_size` 273, the largest without the failure of
  `BlockingStale`, which starts where a replace says "noreply" behind byte 256. With a ring
  longer than a test's flood, messages without a NUL would meet memory nobody wrote,
  and the server's decision would be anything; two buffers are both written before.
  `BlockingStale` takes a ring of 16 and two rounds for 128 and 16 rounds.
- *`BuiltMessagesFit`*: all sizes to 1100 and those where the body's length gets
  another digit; `BuildCmdProofs` has all of them.
- *`TestThreads`*: three threads, as two may fill the message while a third sends it; four
  places, so that a tail can be measured from a tail and one ends up behind the array.
- *`SocketTests`*: segments of 256 bytes, two of them on the way in each direction; both
  protocols of `client-socket` and two rounds of the other two with a
  value longer than what a path holds, so that a backlog of one round meets the next.

### Fairness

`LibeventServer!Spec`: weak fairness of the server thread as a whole (the operating
system schedules it; `epoll` returns while a descriptor is readable) and of the adapter
completing posted sends and flushing a failed queue pair. Peers owe nothing: they may
stop at any time. There is no strong fairness, and none for a particular handler, so
that the loop being blocked is not assumed away.

`AsyncClient!Spec`: weak fairness of every thread, of the adapter completing a send
and of the server answering a request it got. What may fail is never forced to.

`BlockingClient!Spec`: one weak fairness for the client's steps, the server's and the
adapters' together: as long as one of them can go on, something happens. As each has only
finitely much to do before it needs another one, that is all `TestEnds` takes. The client's
share is `ClientSteps`, its steps in which no call fails; no failure is ever forced, that of a
poll or of the connection included, so that a client that spins is not rescued by one.

`SocketClient!Spec`: weak fairness of the client and of the server while the connection is
up; closing, resetting and a reset's arrival are never forced.

`TestThreads!Spec`: weak fairness of `main` and of every thread; failures are never forced.

A counterexample to a liveness property is found under these specifications; the
safety violations (`BlockingStale`, `BlockingFlood`, `ThreadsDefault`) need no fairness.

## 4. What is proved

Every safety property that a passing run checks is also a theorem, for every value of the
constants that meets the module's assumptions (sizes are positive, messages are
sequences of cells, and the like): any number of connections, threads, buffers, messages
and failing calls. The exceptions are named where they are met; liveness is TLC's
alone. `PROJECT.json` lists the theorems with the property each states.

The argument is the same everywhere. A property is seldom inductive; an invariant that
implies it is shown to hold at first and to be kept by every step, with one step of the
proof per action.

### The server: `LibeventServerProofs`

Wakeups:

- `TypeCorrect`: `TypeOK` and `HandlersHaveInput` are invariants of `SafeSpec`. They
  are proved together, as `Head(cm)` and `Head(batch)` have a type only while a
  handler has its input.
- `TokenKept`: `NotificationToken` is an invariant: at most one event, never with
  the queue armed, and the right to the next event lost only by a call that failed.
- `NoWakeupLost`: `NoLostWakeup` is an invariant.
- `ServerRefinesNotifiedQueue`: with `MaxFaults = 0` every behaviour of `SafeSpec` is one
  of `NotifiedQueue!SafeSpec`, under the mapping that takes `cq` to its length and
  `awake` to "an event is in the channel or the handler polls again".
- `BlocksOnlyBehindAnother`: `BlocksOnlyWithTwoPollEvents`. `PollInv`: one event
  activates every registered `poll_event`, the first of them takes it; so who waits for
  one that is not there is not alone.

`NoLostWakeup` is not inductive. That arriving completions raise an event needs the
queue armed whenever nobody is about to poll, which is the fourth conjunct of
`NotificationToken`; that the token is not doubled needs the other three. The
inductive invariant is

    WakeupInv == TypeOK /\ HandlersHaveInput /\ NotificationToken /\ NoLostWakeup

and the lemma `WakeupStep` has one step per action that touches the queue. All other
actions are covered by `QuietStep`. The refinement proof uses the invariant in
`RefinesStep`: an arrival is `Add`, `PollCq` that found something is `Take`, the end of
a drain is `Sleep`, every way to die is `Die`, and the rest stutters.

Messages, buffers and completions. What matters is `Waiting`, the completions polled and
not yet handled followed by those in the queue: `ibv_poll_cq` leaves it as it is. `StepKinds`
sorts every step by what it does to `Waiting` and the buffers, and the invariants are
proved kind by kind, on top of `LifeInv`, which says what a completion that waits tells
of its connection.

- `MessagesCounted`: `EveryMessageCounted`. `CountedInv`: what was delivered is what was
  counted and what waits.
- `CompletionQueueBounded`: `CompletionsBounded`. `RecvBound` and `SendBound`: each of the
  two work queues and its completions together are no more than the queue's size.
- `ReceiveBuffersConserved`: `RecvBuffersConserved`. `BufferInv` counts a buffer's places.
- `OverwrittenByFullRingOnly`: `OverwriteOnlyWhenRingExhausted`. `IntactInv`: the buffer of
  a message that waits starts with it. `LastInv`: the buffer that is looked at was posted
  last, so that it is filled only when all others were.
- `RepliesMatchRequests`: the action property `ReplyMatchesRequest`.
- `CarefulPeersSurvived`: `SurvivesCarefulPeers`. That peers behave is not enough by itself: the
  handlers look into buffers that were posted again, and after a message that did not fit.
  `SoundInv`: the buffer of every completion that waits or is handled, if its peer was
  careful so far, has a NUL in it and does not ask for too much, also when the next
  message is in it already (`CarefulIsSound`: what a careful peer leaves in a buffer ends in
  it whatever was there). A buffer that was never written is not looked at, because a bad
  completion ends `handle_work_complete` (l.317-323); the mutant that goes on there is caught.

### The event driven client: `AsyncClientProofs`

All that the run `AsyncOne` checks but `Finishes`, for any number of threads:

- `TypeCorrect`, `OneNotification`, `NoWakeupLost`, `OneRequest` and
  `BuffersKept`: the invariants. They follow from

        IInv == TypeOK /\ \A t \in Threads : ThreadInv(t) /\ StatusInv(t) /\ RingInv(t)

  in which a thread's part speaks only of that thread, so a step has to be looked at for its
  own thread alone (`OthersSame`). `TypeOK` is not inductive: the bounds of the receive
  queue need `CountInv`, that posted buffers and replies at hand together are no more than
  `Buffs`. `TokenInv` says where a queue's notification is, `WakeInv` that with it no
  completion is slept on. `StatusInv`, that bad completions come from broken connections
  only, is what `RingInv` needs.
- `RequestLost`: the action property `RequestLostOnlyIfQueueFull`, from the same invariant.
- The index is counted modulo the number of messages; `GoesRound` is the lemma about
  remainders that this takes.

### The hash table: `HashtableProofs`

For any keys, negative ones included, any sizes and any length of the chains:

- `Reachable`: `ItemsReachable` is an invariant of `Spec`.
- `TableIsMultiMap`: `Spec => ImplementsMultiMap`, the whole refinement (there is no fairness).
- `DeletesItsKey`: the action property `DeleteOnlyItsKey`.

`TableInv` says that each slot is empty with nothing behind it or a chain of proper
items, and that no item hashes elsewhere (`Good`). As all items with a key are in one slot, the
number of times an item is in `ItemBag` is the number of times it is in that slot's
line (`BagIs`), and no sums over the table are needed: an insertion adds one
(`BagAfterInsert`), a deletion that returns only takes items with its key, and takes
one if there is one (`BagAfterDelete`).

`calc_hash` and the walk of `hashtable_delete` are recursive functions. That they are
defined at all is a lemma each (`Repeats`, `WalkDefined`). `WalkThins` says what the walk
leaves: the chain at some of its places, in order (`Embeds`), where what is left out has the
key (`Thinned`).

### The blocking clients: `BlockingClientProofs`

For every test, ring, send queue and number of failures:

- `TypeCorrect`: `TypeOK`. Its strengthening is `ClientInv` for the client's end and `ServerInv`
  for the server's: a slot of a queue is posted, on its way or in a completion.
- `SentOnce`: `ArrivesOnce`. `SendInv`: while the connection is up no status in the queue is bad,
  so nothing is sent again; once it is lost nothing arrives.
- `ReplyTellsOfReceipt`: `ReplyMeansReceivedIfIntact`. `IntactInv`: without a failure nothing is
  lost on the way, what is on its way is in turn, and what is answered was counted.
- `ReplyIsToThis`: the action property `ReplyIsOwn`. `ReplyInv`: all replies at hand
  are for the message the client is at, and so are the messages from which one may still
  come, at most one in all (`Copies`).
- `AnsweredIfAsked`: `WaitsInVainOnlyIfLost`. `OrderInv`: everything else is in front of the
  message the client is at. `OwnInv`: while the client waits, that message or its reply is
  somewhere, or was dropped.
- `RequestsFit`: `BuiltMessagesFit`, with the theorems of `BuildCmdProofs`.

What is said about replies is not true of every sequence of messages. `AnsweredIfAsked`
assumes that a test asks for the replies it waits for (`AsksWhereItWaits`: whatever is behind
the message, the server finds no "noreply"), `ReplyIsToThis` and `ReplyTellsOfReceipt` that it
declines those it does not wait for (`DeclinesOtherwise`). `TestsOfClientTest` and
`TestsOfClientRdma` prove the second of the programs' tests, for every choice of options,
`request_size` and number of rounds, none included. They prove the first of all tests but
two: the ASCII test of `client-rdma.c`, whose messages may have no NUL, and the add of
`test_three` with a value of five bytes or fewer, which has none: of that
`TestsOfClientTest` proves that the first is false. For `request_size` 273 TLC checks
`WaitsInVainOnlyIfLost` of the ASCII test; with 274 it is false (`BlockingStale`).

`BuildCmdProofs`, for every `request_size` the client's `main` lets through:

- `AsciiRequestsFit`: no ASCII request is longer than `request_size`, so `write_to_buff` stays
  inside the buffer. The argument: a key and its body leave the bytes the comments call
  "useless" for the rest (`RoomIsShared`), the decimal body length needs at most 7
  (`DigitsBound`), and " noreply" takes its 8 from the key, unless the key has fewer, when
  the body is one byte.
- `BinaryRequestsFit`: the same of the binary requests.

### The test client's threads: `TestThreadsProofs`

For any number of threads, places and failing calls:

- `MessageWhole`: `WholeWhenQuiet` is an invariant. It is not inductive while threads fill
  the message, since anything may be missing in it then. `MessageInv` says of the message of a
  thread that printed its head that what is missing, another one is about to write: one
  that erased the head or the tail (`Erasing`), is to write the NUL (`Blanking`), or is sure to
  put its tail at place 2 (`Sure`), as its search finds the head at once.
- `HeadLostOnlyIfErased`: `LostOnlyIfErased` is an invariant. `HeadInv`: the search of a thread
  whose head was not erased starts at place 0 and finds "\r\n" there.
- `MainWaits`: `ExitsAfterThreads` is an invariant, from `JoinInv`, which says that the threads
  `main` has joined are done.

### The socket clients: `SocketClientProofs`

For any tests, lengths of the paths and failures, from
`IInv == Types /\ PlaceInv /\ ReadInv /\ ResetInv`:

- `TypeCorrect`: `TypeOK`. `PlaceInv` says how far into the stream the client can be when it is
  at a request.
- `RepliesOfTheServed`: `RepliesMeanServed`. `ReadInv`: as long as no `recv` stopped inside a
  reply, all of the replies before the request the client is at were read. The server
  cannot have written as much without having got the requests.
- `BlocksOnlyBySplit`: `BlockedOnlyBySplitReply`, from the same.
- `GoesOnShortly`: `EndsSoonAfterReset`. `ResetInv`: how far the client can be after a reset.

A position in a stream is the length of all requests or replies up to some request. It is
written as the number of their segments, so that lemmas about finite sets (`PartsAddUp`)
take the place of an induction over the sum.

### Induction

Induction schemes take an operator as a parameter, which the provers cannot instantiate.
`CountTheorems` does what is needed with sets: inclusion of finite sets is well-founded, so
a set of naturals has a least element (`LeastNat`), so a set with 0 and all successors has
all naturals (`SetInduction`). A proof then defines the set of numbers for which what it
wants holds. "How often is it in this queue" is the cardinality of a set of places
(`Occurrences`), with lemmas for `Append`, `Tail` and `\o`.

### Only model-checked

- All liveness: `ConnectRequestServed`, `EveryMessageEventuallyCounted`, `Finishes`,
  `TestEnds`, `MainEnds`, and of `ImplementsNotifiedQueue` the fairness part. The prover has no
  `ENABLED`.
- `WaitsInVainOnlyIfLost` for the ASCII test of `client-rdma.c`, as said above. For
  `test_three` with a value of five bytes or fewer it is neither checked nor proved.
- That the properties that are violated are: five runs show it with a behaviour.

## 5. Not modelled

- memcached itself, which the socket clients talk to: external, modelled from what they
  expect of it.
- Of `protocol_binary.h`, memcached's, all but the sizes `build_bin_cmd` uses: constants and
  structures nobody here uses.
- `makefile`, `Doxyfile`, `tags`: no behaviour.
- In every program: the text of keys and values, what is printed, timing, leaked memory, and
  option parsing beyond which test is chosen and which sizes are refused.
- In `TestThreads`, what a tail written behind the array does to the memory of others, and a
  machine that reorders a thread's own accesses.
- In the socket clients, urgent data, signals other than SIGPIPE, and a peer that vanishes
  without a reset: a blocked call then waits for TCP's own timeout.

## 6. Plan

1. Done: `LibeventServer` with `NotifiedQueue`; `Hashtable` with `MultiMap`;
   `BlockingClient` and `ClientTests`; `BuildCmd`; `AsyncClient`; `TestThreads`;
   `SocketClient` and `SocketTests`; the theorems of section 4.
2. Each queue of `AsyncClient` as a refinement of `NotifiedQueue`, as the server's is.
