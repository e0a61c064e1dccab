# Verification of redis_impl_using_c

TLA+ models of the server in `src/`, the TLC runs that check them on small
instances, and TLAPS proofs, for every size of the system, about each of its
parts: the front end, the request queue, the map, the store, the SET parser, the
dispatch, the lexer, the session and the RDB parser. Paths are relative to the
repository's copy in `src/`; `src/src/server.c` is the server's own
`src/server.c`.

## 1. The system

A Redis-like server in C. `main` (app.c) fills a configuration map and calls
`start_server`, which starts a pool of workers and two queue managers and then
accepts connections for ever. A worker runs a whole session on a connection
before it takes the next one.

| Component | State it keeps | Operations | Talks to |
|---|---|---|---|
| Connection front end (`server.c`) | `req_q`, `excd_tm_q`, a mutex and a semaphore for each, one `Request` (descriptor, time stamp) per accepted connection | accept loop of `start_server`, `app_worker`, `th_req_queue_mgr` (takes over-age requests out), `th_excd_tm_q_mgr` (answers and closes them) | the queues; the session (`args->func`); the kernel's descriptor table |
| Request queue (`queue.c`) | doubly linked list | `enqueue`, `dequeue`, `get_front` | front end |
| Session loop (`app.c`) | the connection's descriptor | `app_code`: read `*`, lex, dispatch, answer | lexer, dispatch, transport |
| Transport (`server.c`, `errors.c`) | retry counters | `send_resp_to_clnt`, `recv_resp_fm_clnt`, `read_exact_bytes`, `mutex_lock` | sockets |
| RESP lexer (`protocol.c`) | the byte stream, the nodes built so far | `lexer`, `lex_bulk_str`, `get_el_size`, `is_valid_terminator`, `delete_array` | transport |
| Dispatch, ECHO, CONFIG (`cmd_handler.c`, `util.c`) | configuration map | `parse_command`, `find_redis_cmd`, `handle_echo_cmd`, `handle_conf_cmd` | simple map |
| SET parser (`cmd_handler.c`) | the bitmap `state`, `parsed_cmd[6]`, the node it stands at | `validate_set_cmd`, `set_cmd_stage_a`, `handle_set_options`, `is_set_option_valid`, `__validate_px_ex_content` | SET execution |
| SET and GET execution (`cmd_handler.c`) | the global map `sm`, key and value nodes | `execute_set_*`, `handle_get_cmd`, `has_key_expired`, `clean_up_kv` | simple map, clock |
| Simple map (`simple_map.c`) | two parallel arrays, `top`, `capacity` | `set`, `get`, `remove_key`, growth by doubling | all sessions, without a lock |
| RDB parser (`rdb_file_parser.c`) | file position, state byte | `redis_rdb_file_parser` | nobody calls it |

What is hard here, and therefore what the properties are about:

* *Interleavings.* Main thread, workers and two managers share two queues,
  two semaphores and one descriptor table. Requests are freed by whoever took
  them last; descriptor numbers are recycled by the kernel at once.
* *Ordering.* A token is posted after its request is visible and survives the
  removal of the request by the manager. Time stamps are taken before the lock
  under which requests are appended.
* *Time limits.* Serving a request races with its expiry. A silent client
  holds its worker for ever (`recv_timeout` is 0), so the others depend on the
  manager.
* *Ownership across calls.* `set` swaps the caller's pair with the stored one
  and the caller frees what it then holds; failing reallocs take other paths.
* *A parser on one bitmap*, with a loop that relies on the sign of a char.
* *Expiry*, checked on GET only, in unsigned and float arithmetic.

`PROJECT.json` lists every such hazard with its line and its properties.

What makes each component correct:

* front end: one owner per request; every accepted connection is served or
  denied, not both; denied only after the limit; closed once, through a
  descriptor that is still its own; no lost wake-up; no deadlock;
* map: a dictionary, whatever the arrays went through;
* SET parser: accepts exactly the documented syntax, and its slots agree with
  its bits;
* SET/GET: replies and effects are those of a keyspace with lazy expiry; nodes
  in the map are alive, others are freed;
* request queue: a first-in first-out sequence, whatever calloc does, whose
  nodes are exactly the linked ones;
* lexer: builds what the grammar of RESP says, refuses only what it refuses,
  takes no cut request for a whole one, frees what it gives up;
* session: answers once and in order, retries a bounded number of times, holds
  nothing between requests, and gives the worker back when the client leaves;
* dispatch, CONFIG GET, ECHO: the table is searched completely, each matching
  entry is answered once, the answer of ECHO is the encoding of its arguments,
  every loop ends;
* shared store: a dictionary while no changing call overlaps another one;
* RDB parser: keys and values stay paired, and it comes to an end.

## 2. Modules

| Module | Models | Remarks |
|---|---|---|
| `Admission` | what the front end promises | one waiting line, phases of a connection |
| `Server` | `server.c` front end | one action per lock, unlock, semaphore, queue, send, close or free call |
| `MC_Server` | | symmetry for TLC |
| `ServerProofs` | | proofs about `Server`, its refinement of `Admission` included |
| `Fifo` | what `queue.c` promises | |
| `LinkedQueue` | `queue.c` on its node links | implements `Fifo`, whose sequence `Server` uses |
| `LinkedQueueProofs` | | proofs about `LinkedQueue`, with that refinement |
| `Dictionary` | what `simple_map.c` promises | |
| `SimpleMapOps` | `simple_map.c` as operators | used by `SimpleMap`, `CmdHandler`, `Dispatch` |
| `SimpleMap`, `MC_SimpleMap` | any sequence of calls on a map | implements `Dictionary` |
| `SimpleMapLemmas` | | what the operators of `SimpleMapOps` do to a map that is in order |
| `SimpleMapProofs` | | proofs about `SimpleMap`, with the refinement |
| `SetParser`, `MC_SetParser` | `validate_set_cmd` and its helpers | one action per loop iteration |
| `SetParserProofs` | | proofs about what is read: `SetParser`, `Dispatch` and `RdbParser` |
| `Keyspace` | what SET and GET promise | |
| `ExpiryClock` | the float arithmetic of `has_key_expired`, as operators | used by `CmdHandler` |
| `CmdHandler`, `MC_CmdHandler` | `execute_set_cmd`, `handle_get_cmd` on a map of `SimpleMapOps` | implements `Keyspace` |
| `CmdHandlerProofs` | | proofs about `CmdHandler` and `ExpiryClock`: ownership, leaks, rounding, the refinement of `Keyspace` |
| `StoreRace`, `MC_StoreRace` | SET, NX and GET of two workers on the unlocked map | one action per access to shared memory, adjacent accesses to the two arrays together |
| `StoreRaceProofs` | | proofs about `StoreRace` |
| `Lexer` | `protocol.c`, with `print_array` and the release in `app_code` | one action per recv or return |
| `RespGrammar`, `MC_Lexer` | a parser of RESP written from the grammar | the reference `Lexer` is compared with |
| `Session` | `app_code` over the retrying socket calls, `errors.c`, `msleep` | client and TCP are the environment: closing, aborting, resets |
| `SessionProofs` | | proofs about `Session` and `Lexer` |
| `Dispatch` | `setup`, `parse_command`, `find_redis_cmd`, CONFIG GET, the iterator | one action per turn of a loop |
| `Echo`, `MC_Dispatch` | `handle_echo_cmd` as operators, and the encoding it should give | the answer of `Dispatch`'s ECHO |
| `RdbParser` | `rdb_file_parser.c` | |

Definitions named `X_something` with the comment *Mutant* are faulty variants
of `X`; no specification uses them. Each property is violated when the variant
that `PROJECT.json` names for it takes the place of `X`.

### Server

State: the two queues are sequences of requests; a `Request` is identified
with its connection, `heap` holds the allocated ones, `rq_fd` and `rq_ts` their
fields. `fdtab` is the kernel's table: `close(fd)` clears the entry, `accept`
may return any number whose entry is clear, and `send(fd)` reaches whatever
connection the entry names, which is how use of a stale number would show.
`rq[t]` is the local pointer of thread `t`, `pc[t]` its next call. `served` and
`denied` record what happened to a connection.

Each thread's loop is a cycle of labels: `main` accept, lock, enqueue, unlock,
post; a worker sem_wait, lock, dequeue, unlock, run, app, close, free;
`req_mgr` sleep, lock, then scan (lock_excd, enqueue, unlock_excd, post, scan)
until the front may still wait, unlock; `excd_mgr` sem_wait, lock, dequeue,
unlock, send, close, free. `free(rq->ts)` and `free(rq)` are one step, as are
lock and the clock reading that follows it (nothing between them is visible to
another thread). The limit is `min(1.0, max_queue_time)` as in
`was_waiting_time_exceeded`: with the 500 that `main` passes the limit is one
second, and larger values of `max_queue_time` have no effect. The clock counts
seconds; a limit of one tick and waits of 0, 1, 2 ticks distinguish what the
comparison distinguishes.

Left out: exits of the process when a pthread call fails, a failed `accept`
(the loop tries again), a failed `calloc`, what is said in a session.

### SimpleMapOps, SimpleMap

The record `sm` has the fields of `struct SimpleMap`; slots are indexed from 0
and hold nodes, `NULL`, or `UNDEF` for memory that `realloc` returned and
nobody wrote. `mem` says which of the two calls of `realloc` finds no memory, if
one does not. When it is the second one the keys have moved and doubled; the code
shrinks them back (`Shrunk`) and leaves `capacity` alone. That this third `realloc`
succeeds is an assumption on the C library: shrinking a block never fails in glibc;
a library in which it can would leave `keys` null. The callocs of wrappers and
pairs find memory, but for the one in `get`: `GetFails` returns NULL for a key that
is there, and `Dictionary` has the same as an outcome of its `Get`. `CmdHandler`
leaves that failure out, because the lookup of an NX would then take an existing
key for absent and replace it.

### SetParser

The state char is the set of its 1 bits, bit 7 being the sign, so that `-1` is
`0 .. 7` and `*state > 0` is `Positive`. Arguments are option names, digits,
other text or nested arrays; the null pointer is position 0. A nil bulk string
cannot reach the parser: `new_bulk_str` does not survive it.

### CmdHandler, ExpiryClock

One worker, a command is one step. Nodes carry an identity so that frees can be
followed; `heap` is the set of allocated nodes and `Leaked` what the map does
not hold. `string_to_uint` wraps at `UintSize`. `LeakStep` names the two cases in
which a command forgets its nodes; the second is an NX whose key no entry has, on a
map that is full, so a declined NX that forgot its pair would violate it.

`has_key_expired` rounds both times, their difference and its multiple to
float. `ExpiryClock` does the same on a clock of integer ticks; a tick is a
binary fraction of a second, so that ticks round as the code's seconds do. A
float is a multiple of the distance of the floats around it (`Ulp`, one of
`Ulps`) and below `Digits` of them, 2^24 in C. The clock jumps between the times
of `Clock`, since any time may pass between two commands.

`Keyspace` observes the time of death up to `Blur`: not at all off while the
clock fits a float, later by at most four distances of the floats at the present
time. Each of the roundings of the two times, the difference and its multiple can
add to the error, and the run has cases in which it exceeds one distance. For 24
digits four distances are 1/32 s after a day of uptime and 1/4 s after a week.
It says so of the lifetimes of `EX` and `PX`. When a key set with `EXAT` or `PXAT`
dies it leaves open (`Due`): `src/README.md:190` documents a unix time, the code
takes the number for a lifetime, and an abstract specification that adopted the one
or the other would hide that.

### StoreRace

`sm` in `app.c` is shared by all sessions and has no lock. A call is one
command of some worker, cut into its reads and writes of `top`, `capacity`, the
array pointers, the slots and the wrappers; the arrays are blocks of memory that
`realloc` moves and frees. What C leaves undefined (a freed block, NULL, a
second free, an index outside) sets `fault` and ends the behaviour. Not every access
is a step of its own: where adjacent statements do the same to both arrays
(`simple_map.c:178-179` in `Read`, `131-132` in `UpRead`, `43-44` in `Shift`, `36-37`
in `Clear`) or publish the grown arrays (`95-97` in `Publish`) they are one. The two
properties that hold speak of calls that no changing call overlaps, where this makes
no difference, and the violated one needs none of these steps; but of the outcomes
of overlapping calls the model has only some. Four ghost
variables record overlap, the dictionary the finished calls amount to, a wrong
answer, and what happened since the map was last quiet. `XX` and the `GET`
option run the same map calls as `SET` and are left out.

### LinkedQueue

Nodes with `next`, `prev` and `data`, and the queue's `front` and `rear`; `calloc` may
fail in every `enqueue`. The refinement walks the links into the sequence of
`Fifo`; a lost element is an action of `Fifo`, because `enqueue` returns
nothing.

### Lexer, RespGrammar

The bytes behind the `*` that `app_code` consumed, one `recv` per step (the
payload of a string is one `recv`). `stack` holds the active calls of `lexer`;
`mem` every node ever made and `live` its allocated pieces. At each byte the
client may close and a `recv` may fail; `get_el_size` then looks at what its
buffer already holds, and `cell` is that byte. `odd` notes what irregular
elements the request had: a nil string, an empty or nil array, an element that
starts with another byte (the variable `current` is then uninitialised: 0, the
value of the turn before, or anything), a size that wrapped, nesting deeper than
`MaxDepth`. What `delete_array` frees is what the links lead to, given as the least
set that they do not leave.

`lexer` (`protocol.c:52`), `print_array` (`util.c:41`) and `delete_array`
(`protocol.c:314`) call themselves for a nested array, on the stack of the worker's
thread and without a limit. `MaxDepth` is the depth for which that stack is sure to
be large enough; beyond it any of the three may crash or not. The properties hold
for every `MaxDepth`, but what the program survives depends on it: a plain request
of four bytes a level (`*1\r\n`) gets beyond any stack, and `PlainNeverFaults` speaks
of requests that do not. Without that premise it would be false of the code.

The request is released as after an answer that was sent. When the send fails
`app_code` goes on without freeing anything (`app.c:53`, `app.c:60`), which `Session`
has. The buffers `buf` and `next_char`, which `get_el_size` and
`is_valid_terminator` free before they return, are not tracked.

`RespGrammar` parses `read` as a whole, by position, and says whether it is a
sentence, the start of one or neither; `AcceptsRequests` and
`RefusesOnlyOthers` compare the node lists with it.

### Session

A request is what `lexer` and `parse_command` make of it: a command, an unknown
or malformed one, one whose rest never comes, or a byte that is not `*`. `io` is
the socket call under way: tries, errno category, `msleep` with its uninitialised
counter. `held` and `leaked` follow the array and the answer. `pc = "killed"` is
SIGPIPE.

The client may pipeline, shut its side, close or abort, at any time and before any
answer. `fin` is a FIN in the socket, `reset` the state of the connection: "due", a
reset is on its way, because the client aborted (`SO_LINGER` of 0, a crash, answers
it had not read) or because an answer was sent to a closed client; "yes", it has
arrived and the next call will report it; "dead", it was reported, or nothing will
report it because a FIN had come before. Linux does it like this: the first `send` or
`recv` after a reset returns `ECONNRESET` (`MeetsReset`), after a FIN the pending
error is `EPIPE`; from then on a `send` raises SIGPIPE and a `recv` returns 0. Data
that arrived before a reset is still received here; a reset that overtakes them is
the same to the server as a client that never sent them. `ETIMEDOUT` is treated by
the code as `ECONNRESET` is and has no case of its own. A reset may be lost: nothing
makes `Reset` happen, and a worker then waits for ever.

So a client that only aborts costs the process its life not with its first
answer but with the second: the send of the first one fails with `ECONNRESET`,
`app_code` goes on to the request behind it (`app.c:60-62`), and the send of that
answer raises SIGPIPE. `SigpipeHasCause` names all the ways there: a FIN before the
reset, such a failed send, or a request that was cut off, where `recv` had the error
and the error text is sent after it.

### Dispatch, Echo

Start-up fills `config_dict` with two calls of `set`; then one request runs
through the loops of `parse_command`, `find_redis_cmd`, `handle_conf_cmd` and
`handle_conf_get`. `fnmatch` is external, a relation between the patterns and
the targets that occur. An option may be given, left out or empty: for an empty
one (`--dir ""`) `create_value_node_string` returns NULL (`cmd_handler.c:462`), which
`setup` stores, and `insert_key_value_str_to_str_array` passes the entry over
(`cmd_handler.c:219`). `calloc` may fail where a pair is copied, where the answer is
put together (NULL) and where the text `*0` is copied (unchecked, a crash). Left out
is the byte that `strcpy` writes past each buffer of `cli_parser`, allocated without
room for the NUL (`util.c:134-139`). `first_array`
is an unsigned char of 256 values. The text of ECHO depends on the request
alone and is an operator, `Echoed` of `Echo`, evaluated when the answer is
ECHO's; `Echo` extends `Dispatch`, which is free of recursive operators.

`EchoFrom` is the recursion of `__handle_echo_cmd`: its result is the text and
the running total all calls share; `Cut` is what `snprintf` keeps of a text in
a buffer of that total. `printf` of NULL is `(null)`, as glibc does.

### RdbParser

Nothing calls it yet. A file is a header and items, each what one pass of the
parser consumes. `CharIsSigned` is the compiler's choice and is chosen with the
file, because `handle_aux_state` compares a `char` with 0xFA.

## 3. Runs

| Run | Bounds | Shows |
|---|---|---|
| `server_safety` | 3 connections, 2 workers, 2 descriptors, clock to 3 | the eleven invariants of `Server`, no deadlock, `Server` implements `Admission` |
| `server_live` | 2 connections, 1 worker, 2 descriptors, clock to 3 | `Decided`: served or denied, even if sessions never end; `Released`: closed and freed if they do |
| `simple_map` | 3 names, 2 key nodes per name, 2 values | `SimpleMap` implements `Dictionary`, either realloc and the calloc of `get` failing; names below `top` distinct, nothing above it |
| `set_parser` | all lists of up to 5 tokens (of 8 kinds) after key and value, and all short lists | accepts exactly the grammar, slots match bits, terminates |
| `cmd_handler` | 2 names, 2 values, 3 node identities, the times 0, 2, 11 and 52 with floats of 3 binary digits, 2 ticks a second and 3 for 1000, the numbers 1, 15 and 16 with `UintSize` 16 | `CmdHandler` implements `Keyspace` up to the rounding, EXAT and PXAT left open; ownership; where nodes leak; no key comes back |
| `store_race` | 4 calls of SET, NX, GET, 2 names, 2 workers | a dictionary without overlap; what an overlap's hole does to later calls |
| `store_race_nx` | 2 calls of NX, 1 name | violated: two NX are both answered OK |
| `linked_queue` | 2 requests, 4 nodes | `LinkedQueue` implements `Fifo`; links and nodes agree |
| `lexer` | 17 bytes of 8 kinds, 2 digits, strings to 1 byte, `UintSize` 12, a stack for 2 nested arrays | the lexer agrees with `RespGrammar`; no cut request is accepted; faults and leaks only where named |
| `session` | 3 requests, 1 retry, 2 naps of a counter of 4 values | order, leaks, bounds of the retries, what must have happened before a SIGPIPE, the worker comes back |
| `dispatch` | both options given, left out or empty, CONFIG GET of up to 3 of 6 words, ECHO of lists nested twice, depths 2, 3, 256, 257 | complete search, complete and duplicate-free answers, encodings, termination |
| `rdb` | all files of up to 5 of 6 kinds of items, both kinds of char | pairing, leaks, the effect of a signed char, where the parser ends |

Several of the properties are conjunctions of parts that are named and explained
in the module: `MapOK`, `SlotsOK`, `ListOK`, `AgreesWithGrammar`,
`RetriesBounded`, `Accounted`, `Progress`, `Dispatched`, `ConfGetCorrect`,
`EchoCorrect`, `AuxFields`. The type invariants of the modules other than
`Server` are such parts.

Why the bounds are enough to meet the interesting cases. Front end: with three
connections and two descriptors a number must be reused while another
connection waits; two workers and the manager compete for one queue; a
connection is accepted only while the clock can still pass its limit (the last
conjunct of `Accept`), so every connection can expire. Map: three names take
the capacity from 1 over 2 to 4, with removal at the front, in the middle and
at the end. Parser: the longest correct list has four tokens after key and
value. Commands: a key can be set, expire, be overwritten, be collected and be
set again; 16 wraps to 0; at the times 0 and 2 the floats are exact, 11 and 52,
the differences and the multiples are rounded, and there are lives that are
misjudged by more than one distance of the floats. Store: the array grows twice, and four calls
are two that leave a hole and one that meets it alone. Lexer: 17 bytes hold an
array in an array with a string, two strings, a number one digit too long and a
size that wraps, and three arrays in one another, one more than the stack is sure
to hold. Session: three requests are one lost to a closed client, one that meets
the reset, and one behind it; the counter of `msleep` starts at any
value, the one before it wraps included. Dispatch: three words overlap in every
way on two entries, either of which may have no value. RDB: five items hold two complete fields behind an opcode.

Each bound that is no constant of the code is named where it is declared.
`cmd_handler` uses a view without `call` and `reply`, which no step reads; the
properties that mention them are about steps and are evaluated on all steps.
The symmetries permute names, identities, connections and workers, which no
definition tells apart; the runs with liveness properties use none.
`set_parser` may stop when the verdict is in; `cmd_handler`, `store_race` and
`linked_queue` stop when clock, calls or nodes are used up. The other runs
check that nothing deadlocks.

Fairness. `FairSpec` of `Server` assumes that the scheduler runs every thread
and that a thread does not wait for ever for a mutex that is free again and
again (strong fairness of a thread's steps: the only endless loop around
`req_q_mtx` sleeps a second outside it), that a posted semaphore wakes one of
the waiting workers, and that time passes. Nothing is assumed of clients:
`AppReturn` is not fair, and that sessions end is the premise of `Released`.
In `Session` the worker's thread runs on (weak fairness of `Worker`); neither
the client, nor a reset, nor an error need ever come. `SetParser`, `Dispatch`
and `RdbParser` are loops in one thread, so weak fairness of their steps.

## 4. Proofs

Every theorem holds for all values of the constants that satisfy the named
`ASSUME`s of the module it is about; TLC evaluates these in the runs. None of
the properties is inductive alone. Each proof module defines the invariant that
is (`Inv`, or `PlainInv`, `DispatchInv` ... for the further components of a proof
module), proves it of the initial states and of every action, and draws the
properties from it. Components that share a proof module share no state; the
specifications of the lexer, the dispatch and the RDB parser are called `LexSpec`,
`CmdSpec` and `RdbSpec` to tell them from the other one's `Spec`.

### Server

Proved: the eleven invariants of `server_safety` and the refinement of
`Admission`. Assumptions: the workers are finitely many and are not the names of
the other threads, `NULL` is neither a connection nor a descriptor, times are
natural numbers. The argument has layers, each using those before it:

1. `Shape`: types, and at which labels a thread has a request in hand
   (`Hands`); without it `rq_fd[rq[t]]` would mean nothing.
2. `MutualExclusion`: only lock and unlock cross the border of a section.
3. `Owned` (`OneOwner`, `HeapExact`, and that what is in the backlog has no
   request): accept creates a request in one place; `OwnedEnqueue`,
   `OwnedDequeue` and `OwnedFree` show that each kind of step moves it.
4. `FdBinding`: only the holder closes a descriptor, and by layer 3 there is
   one holder, so a number is not reused while a request refers to it.
5. `Outcomes`: where the request of a served or denied connection can still
   be; with layers 3 and 4 no other thread can reach the connection, hence
   `ServedOrDenied`. `TypeOK` needs layer 4, since `served` and `denied` get
   whatever the descriptor table holds.
6. `Timely` (`Clock`, `TimeOrder`, `PassComplete`, `DeniedWaited`): no time
   stamp lies in the future, so appending keeps the order, so the front is the
   oldest, so a scan that stops there leaves no older one. It needs layer 2
   (nobody else touches `req_q` between the scan and the unlock) and layer 3
   (accepting a connection does not change the stamp of a queued one).
7. `ExcdTokens` and `NoLostWakeup` count tokens on top of layer 1; the second
   uses the cardinality of the set of woken workers.
8. `AdmissionCorrect`: by layers 3 and 4 a connection is in one place
   (`Places`), so its phase in `Admission` is the one that place stands for, and
   a step of a thread moves at most the connection in its hand. Every step is
   then an action of `Admission` or changes none of its variables.

### LinkedQueue

Proved: `ListOK` and the refinement of `Fifo`, from a finite set of nodes and a
`NULL` that is neither node nor data. `Inv` says that some sequence `s` of
different nodes is linked in this order, in both directions, with `front` and
`rear` at its ends, and that its elements are the allocated nodes (`Links(s)`).
An enqueue appends to `s`, a dequeue takes its tail. The properties speak of the
walk along `next`, a recursive function; that it meets `s` is proved by the least
position at which it would not, because the provers cannot apply an induction
theorem.

### SimpleMap

Proved: `MapOK` and the refinement of `Dictionary`, for key nodes with any names.
`Map(m, K, V)` says that the map `m` is in order: arrays of `capacity` slots, the
used ones holding nodes with different names, the others nothing.
`SimpleMapLemmas` has what `set`, `get`, `remove_key` and the growth do to such a
map (which entry is found, what the arrays hold afterwards, that a failed
`realloc`, be it the first or the second, leaves it as it was); `DictOf` reads the dictionary off, and each call
is shown to change it as `Dictionary` says.

### CmdHandler

Proved: `StoreOwnsNodes`, `LeakOnlyThere`, `StaysExpired` and the refinement of
`Keyspace`, from the lemmas on the map. Assumptions: the distances of floats are
1 and its doublings, `Digits` is even, and some distance is large enough for
every time and number that occurs (no overflow to infinity: 2^24 times 2^104 in
C); times are natural numbers.

`Inv` adds `Owns` to `Map`: the nodes of every entry are allocated, the two of an
entry come from one SET, and no node belongs to two entries. The last part is
what keeps the release of an overwritten or expired pair from touching another
entry. The key nodes in the map are `Aged(now)`: no key was set in the future,
without which the difference of the times could be negative.

The arithmetic comes first. `Float` is monotone, maps multiples of a distance to
themselves, and moves a number by at most half the distance of the floats around
it; the larger number has the larger distance, and both are multiples of the
smaller one. From monotonicity, `Exceeds` is monotone in the clock: `StaysExpired`.
From the error bound, the difference and its multiple are off by less than four
distances at the present time, and not at all while the clock fits: so a `GET`
that finds a key expired, or alive, is one of the two disjuncts of `Keyspace`'s
`Get`. The other commands change the keyspace as they change the map.

### SetParser

Proved: `AcceptsGrammar` and `SlotsOK`, for argument lists of any length and any
sets of texts and numerals. `Taken(h, g, e)` says that the loop has consumed key,
value, `h` of NX and XX, `g` of GET and `e` expiries with their number, and gives
the bits, the slots and the position that go with it. `Inv`: in the options loop
either some `Taken(h, g, e)` holds, or the sign bit is set and the list is not of
the syntax. The lemma `Parts` restates the grammar, a concatenation of optional
parts, with positions.

### Dispatch

Proved: `Dispatched` and `ConfGetCorrect`, for requests of any length and nesting
any relation for `fnmatch` and options given, left out or empty; a request has a first string, in one array or
more, which is what the lexer builds of a plain request. `DispatchInv`
counts the arrays entered (`Counted`: with those still to come they make the
depth, modulo the values of an unsigned char) and says of a search that no entry
before the one it stands at is the one (`Searching`); the index, one ahead except
at the start, is part of it. `ConfGetInv` says what the words and entries compared
so far leave: the answer holds each entry named so far once that has a value (`Collected`), and the
pairs leaked are as many as the comparisons that failed (`Missed`, by the
cardinality of a finite set that a step extends by one element or none).

### RdbParser

Proved: `AuxFields`, for files of any length and both kinds of char. `RdbInv` has
three cases: before the auxiliary fields nothing is read; within them the position
follows from the number of fields and from whether a key waits for its value;
behind them what was lost is known by its cause.

### Session

Proved: `RetriesBounded`, `Accounted` and `SigpipeHasCause`, for any number
of requests and retries, with a counter of `msleep` that has room for
`max_retries`. `Inv` has a part for each piece of state: the socket call (once
`msleep` was interrupted its counter, uninitialised at first, bounds the number
of its naps), the connection (what waits in `inbox` are the requests after the
one in hand), the answers, memory (what is held for a request follows from its
kind and the label), and the reset: once it has been reported and no FIN had come,
a call is just returning that error, the session is over, a send has failed, or the
request in hand is cut off.

### Lexer

Proved: `PlainNeverFaults`, `OnlyArrayStructsLeak` and `CutIsError` (a part of
`AgreesWithGrammar`), for any set of bytes with CR and LF, any limits and texts of
any length, hence any nesting, whatever depth the stack is sure to hold. All three rest on `LexTypes`: the types, that links,
contents of arrays and the pointers of the active calls lead to nodes, and that
an element is read in a call only.

* `PlainInv`: as long as no irregular element and no nesting beyond `MaxDepth` was
  met, no node is linked to
  itself, no node is a marker, and no two active calls work on the same node. The
  last part is what makes the linking of an element to the one before it keep the
  first.
* `CutInv`: which byte the buffer of `get_el_size` holds in each state of its
  automaton. When `recv` returns 0 that byte is interpreted again, and from the
  invariant it leads nowhere: a digit is past, the byte after it is not written
  yet, a minus sign or a CR does not repeat.
* `LeakInv`: everything allocated, structs of arrays apart, hangs below the array
  of an active call or below the value just returned (`PiecesInv`). To free all of
  it, `delete_array` has to get from the last element back to the array and from
  there to everything below, also where an irregular element linked a node to
  itself: `Lists` says that the list of each call can be walked back, and `Apart`
  that the walks of different calls do not meet, so that linking an element to one
  list leaves the others as they are. What is reached from a node is the least
  closed set (`Reached`), and the lemmas on it say what a new link adds and which
  links leave it alone. Behaviours that have ended in a fault are out of it.

### StoreRace

Proved: `SafeWithoutOverlap` and `NothingNewBehindHole`, for any finite set of
calls, any names and any number of workers; `NULL` and `UNDEF` are not calls. The
parts of `Inv`:

* `Types` and `Bounds` hold whatever calls overlap. `Bounds` counts who may have
  raised or lowered `top`, each call once at most.
* `Serial` holds until a changing call overlaps another one: the map at every
  label of such a call, in the midst of growing, replacing and removing too.
  `Good` says that slots hold a dictionary with living nodes, `Missing` that the
  slots scanned so far do not have the key, `Loose` that the pair about to be
  freed is in no slot. Reading calls may overlap one another.
* `Fresh` and `Blocked` are about a map with an empty slot below `top`, which
  only an overlap leaves. A SET that runs alone after it does not get behind the
  slot: its scan ends there or before (`Stuck`), so what it stores is in front
  (`InFront`).

### Only model-checked

* Liveness (`Decided`, `Released`, `Terminates`, `Progress`, `Returns`,
  `ReturnsOrSpins`), which is out of the prover's reach.
* `AgreesWithGrammar` (but for its part `CutIsError`) and `EchoCorrect`: the
  reference parser of `RespGrammar`, and the recursion of `__handle_echo_cmd` with
  the encoding it should give, are recursive operators on data of any depth, about
  which the prover cannot reason.
* `OneNxWins`, which is violated.

## 5. Disagreements between code and documentation

The violated property of `store_race_nx` says that of several `SET NX` of one
key one wins, as the comment of `execute_set_nx_xx` has it; the lookup and the
set are two calls on a map without a lock, and both commands are answered OK.

The other disagreements are what the models do, and the properties say how far
they go:

* An expired key that GET would not show makes `SET ... NX` decline: expiry is
  checked in `handle_get_cmd` only (`cmd_handler.c:745`; `Allowed` of
  `Keyspace`).
* `EXAT` and `PXAT` are treated as `EX` and `PX` (`cmd_handler.c:679`; `WithExpiry`
  in `CmdHandler`), although the README of the server speaks of unix times
  (`src/README.md:190`). `Keyspace` takes neither side: of these keys it says only
  that they have some time of death, and that GET observes it.
* An expiry combined with `GET`, `NX` or `XX` passes the validation and is then
  answered with the parse error (`cmd_handler.c:545`; `Implemented` of
  `Keyspace`); both nodes are lost (`LeakOnlyThere`).
* `delete_array` says that it frees nested arrays, and leaves the `ArrayNode`
  of every array allocated (`protocol.c:315`; `OnlyArrayStructsLeak`).
* `get_el_size` provides for empty and nil arrays; `lexer` stores a bare
  `BaseNode` for them that `print_array`, `parse_command` and `delete_array`
  read as a `GenericNode` (`protocol.c:34`; `PlainNeverFaults` leaves them out).
  A nil string makes `new_bulk_str` write to `content[-1]`.
* `send_resp_to_clnt` says that it returns the bytes sent or -1; a send after a
  reset that was reported, or that a FIN hides, raises SIGPIPE, which nothing handles
  (`server.c:143`; `SigpipeHasCause` says what must have happened before).
* Every answer is sent with its terminating NUL, and errors are plain text,
  neither of which is RESP (`app.c:45`, `app.c:59`).
* The README of the server lists `PING`; the command table does not
  (`cmd_handler.h:77`).
* `handle_conf_get` says that it returns NULL if no key was matched
  (`cmd_handler.c:113`); it returns the empty array (`cmd_handler.c:170`), and does so
  for an option that was given as an empty string too (`ConfGetComplete`).
* `parse_command` refuses a command in more than one array, but counts the
  arrays in an unsigned char: 257 arrays count as one (`FlatOrWrapped`).
* ECHO of a list with two or more arrays keeps a `(null)` and cuts off what
  follows (`cmd_handler.c:392`; the premise of `EchoExact`).
* `handle_aux_state` says that auxiliary fields may be empty; a file without
  them, or with any opcode but AUX, keeps `redis_rdb_file_parser` in its loop
  (`ReturnsOrSpins`). Where `char` is signed no AUX is ever accepted
  (`SignedReadsNoField`).

## 6. State of the project

The order was: the front end, with its abstract specification; the map and the
commands on it; the parser of SET; the shared store; the queue's links; the lexer,
the session, the dispatch and the RDB parser. Every component of section 1 is
modelled and checked. All safety properties of the runs but the two named in
section 4 are proved, with all four refinements (`Admission`, `Fifo`, `Dictionary`,
`Keyspace`).

What would extend it: a failing `calloc` in `Lexer`; `delete_map` once the
program calls it; the keys and values of an RDB file once the parser reads them.

## Not modelled

* The retries of `mutex_lock`: only `EOWNERDEAD` enters the loop. The mutexes are
  robust ones (`server.c:543-546`), which return it when their owner ended while
  holding them; no thread of the server ends, so none does. `Server` models the lock.
* `delete_map`, which the program never calls.
* `getopt_long` and the socket set-up of `start_server`: sequential calls before
  the first thread. `Dispatch` has what the options leave in the configuration.
* A failing `calloc` in the lexer, in the session and, in `Server`, in `enqueue`
  (`queue.c:44`; `LinkedQueue` has it: the Request would be dropped while its token is
  posted), the exits of the process when a pthread call fails.
* A failure of a `realloc` that shrinks, and of the small callocs of the map other
  than that of `get`.
* The test client, which sends fixed requests, and the build files.
