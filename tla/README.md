# A TLA+ model of ThemeSrv

ThemeSrv is a single-threaded lobby server: it accepts TCP connections, takes each through
a key exchange, and answers the gatekeeper's three requests (ping, address of the file
server, address of the authentication server). The other services its sources name are not
in this commit. This directory holds TLA+ modules translated from `src/src/`, the TLC
configurations that check them, and TLAPS proofs about every specification among them.

## 1. The system

| Component | Source | State | Operations |
|---|---|---|---|
| program start | `daemon/main.cpp`, `daemon/server.cpp` | flags, configuration, `theme.ini`, `server.ini` | read, generate keys, write `server.ini`, save, `run` |
| configuration | `core/config_parser.*` | sections of items | `read`, `set`, `get`, `write` |
| cryptography | `io/uru_crypt.*` | none of its own | `generate_keys`, `load_keys`, `make_server_key` |
| lobby | `daemon/server.*` | listening socket, `m_clients` | `accept_cb`, the loop of `run` |
| dispatcher | `io/epoll.cpp`, `io/poll.h` | callback map, kernel interest list, events of one `epoll_wait` | `add_fd`, `dispatch`, hang-up removal |
| sockets | `io/socket.*` | a descriptor | `bind`, `listen`, `accept`, `read`, `write`, `shutdown`, close |
| client | `daemon/client.h`, `daemon/client_common.cpp` | flags, handler | `handle_dispatch`, `pump_read`, `pump_write` |
| client base | `io/client_base.*` | read cursor and buffer, `m_writes`, two ciphers | `resume_read`, `handle_read`, `enqueue_write`, `resume_write`, `handle_write`, `set_crypt_key` |
| handlers | `daemon/client_common.cpp`, `daemon/gatekeeper.*` | client flags | `incoming_client::read`, handshake, seed, `read_msg`, `dispatch_msg` |
| protocol | `protocol/*` | field tables | none |
| logging, assertions, uuid, endian, build info | `core/*` | a time stamp | none that other state depends on |

How they interact: `server::run` calls `dispatch`; `dispatch` calls the callback bound to
each reported descriptor, `accept_cb` for the listener and `handle_dispatch` for a client; a
hang-up is handled first and erases the client, and otherwise `pump_write` runs and then
`pump_read`, which hands each complete message to the client's handler; the handler registers
the next struct to read and may queue a reply, which is written at once if nothing waits.

There is one thread. What is hard is that remote programs act between any two of its system
calls; that the poller is edge-triggered; that callbacks erase clients while a batch of events
about them is being walked; that messages arrive in any segmentation and replies leave in any;
that the cipher is a stream, so that a byte out of place ruins everything after it; and, at
start, that two files are truncated and rewritten with no error looked at. PROJECT.json lists
these hazards at their lines, with the properties that cover them.

What makes each component correct:

- dispatcher and lobby: the registries agree; events are about clients that exist; nothing a
  client sent, nothing queued for it, no hang-up and no waiting connection is forgotten;
- reading: a handler gets each message whole, in order, and never a byte of the next, in memory
  that has room for it;
- writing: bytes leave in the order in which they were encrypted, once each;
- session: a buffer is cast to the struct it was read as; the client can decrypt every byte;
  each request is answered once, in order, and none without a key;
- connection, reading and session together: what the handlers register is what the client
  sends next; each byte is decrypted once, with the key it was encrypted with; a client whom
  nothing refuses is sent every reply to the last byte;
- keys and files: both ends derive the same key; what is saved reads back; the numbers of
  two pairs are never mixed; a restart has the keys that were saved; clients are told the keys,
  the base and the address of the daemon that runs.

## 2. Modules

- **Sockets** (connections, descriptors, send buffers, `shutdown`; mostly the kernel, modelled
  from the results the code tests), **Poller** (callback map, interest and ready lists, the
  batch of one `epoll_wait`) and **Lobby** (the thread, `m_clients`, `m_writes` as a length)
  form one specification: Lobby EXTENDS Poller EXTENDS Sockets, and each Lobby action conjoins
  operators of the other two. A daemon step is one system call with the code up to the next
  one. `at` is the place in the code and `cur` the client whose callback runs. What a handler
  answers is left open: refuse, stay silent, or reply. Three values of `at` have no way out:
  `overrun` and `spin`, in which `resume_read` repeats itself, and `sigpipe`.
- **MessageRead** (`resume_read`, `handle_read`) implements **MessageStream**, the promise of a
  message stream. `TurnRefuses`, `TurnBlocks` and `TurnReads` are the ends of the first part of
  the outer loop of `resume_read`, `TurnFails` is a failed `read`, `Sort` is one turn of its
  inner loop, `Deliver` is `handle_read` returning a message and the handler's next `read()`,
  `DeliverLast` a message after which the handler wants no other, `Hup` the hang-up. Bytes are
  positions in the client's stream and `buf` maps addresses to them, so "intact" can be stated.
  Every turn moves `buf` to new memory (`alloc_buf`) of the size that `calc_field_sz` counts
  (`Allocated`), in which a variable field counts for nothing, and copies `m_bufsz` (`bufsz`)
  bytes of it. A byte decrypted behind the end of the memory is lost to the message (`Copied`),
  and the daemon may or may not survive the write (`SortDies`, in Session `ReadDies`).
  **Messages** has the field tables of `protocol/*.inl`.
- **WriteQueue** (`enqueue_write`, `resume_write`, `handle_write`, `set_crypt_key`) names each
  byte by its place in the order of encryption. **GateSession** EXTENDS it with the client's
  flags, handlers and pumps, and implements **GateService**, the promise of the gatekeeper.
- **Session** composes the last two, as a whole connection: it EXTENDS MessageRead and has
  GateSession as the instance `G`, `at` renamed to `place`. The two share steps where the code
  calls across: an event starts the pumps of `G` and with them `resume_read`; `HandOver` is
  `handle_read` giving a message to the handler, which is the `G` action that the content of
  the message selects, and what that handler registers decides (`FirstField`, `Held`) what
  `resume_read` does next; a failed read or write is the shutdown of `G` that brings about the
  hang-up. Alone, GateSession lets any message come and MessageRead knows beforehand which
  struct is read next; `ImplementsRead` shows that the registration of GateSession is the
  latter's knowledge, so that MessageRead's properties are those of the connection. Session
  adds the decrypting cipher (`dec`, `decBase`). `Says` and `Follows`, in its assumption, are the
  order in which the handlers make sense of messages: it says nothing of what they contain or
  whether they are legal, but rules out a client who goes on in another order, whom the daemon
  would read differently from what the script calls his messages.
- **KeyExchange** (`generate_keys`, `load_keys`, `make_server_key`, and a client given the
  generated `server.ini`): numbers, byte arrays, and the conversions between them. The exclusive
  or of two bytes is a parameter, `ByteXor`, of which the proofs need only that it yields a
  byte: both ends mix in the same seed.
- **Config** (item table, accessors, a line whose value has brackets and so becomes a section,
  `read`, `write`), **Listener** (`bind`'s walk over the addresses of a host, `setfd`, `listen`)
  and **Startup** (`main`, `generate_daemon_keys`, `generate_client_ini`, the save, `init_fds`,
  `init_servers`), with a crash between any two lines that are flushed, and with a `theme.ini`
  that cannot be opened, which leaves the defaults. What a save set out to write (`meant`),
  completed (`kept`), or failed to do (`failed`) is history. A pair of keys is one name, which
  stands for its k and n; `Shared(pair, g)` is its X for the base g. Values of items are
  strings, as in the code, and `Number` is what `to_uint` makes of them.
- **LobbyProofs**, **ReadProofs**, **GateProofs**, **ServiceProofs**, **SessionProofs**,
  **KeyExchangeProofs** and **StartupProofs** hold the theorems, **Induction** the two lemmas
  some of them rest on. **MCLobby**, **MCMessageRead**, **MCGateSession**, **MCSession**,
  **MCKeyExchange** and **MCStartup** hold definitions for TLC.

A definition named `X_bug` is a mutant of `X`, a slip the code could plausibly have. No
specification uses it; putting it in the place of `X` makes the property it belongs to fail.

## 3. Runs

| Run | Configuration | What it shows |
|---|---|---|
| `lobby_safety` | LobbySafety.cfg | registries, live events, nothing lost, no self-made SIGPIPE |
| `lobby_live` | LobbyLive.cfg | dead clients are erased, waiting ones accepted |
| `lobby_scarce` | LobbyScarce.cfg | one descriptor for two clients: what survives `accept` failing |
| `session` | Session.cfg | whole connections: messages whole and in order, decrypted in step, answered to the end; implements MessageRead and MessageStream |
| `gate_session` | GateSession.cfg | handshake and service in both builds, none without a key; implements GateService |
| `key_exchange` | KeyExchange.cfg | equal keys at both ends |
| `startup` | Startup.cfg | configuration, keys and address over restarts, crashes, failed reads and writes |
| `lobby_eof` | LobbyEof.cfg | *violation*: a client that closes keeps the thread |
| `message_split` | MessageSplit.cfg | *violation*: a field cut by a segment stops `resume_read` |
| `message_memory` | MessageMemory.cfg | *violation*: the memory of a message has no room for its payload |
| `gate_reply_types` | GateReplyTypes.cfg | *violation*: wrong type of an authentication server reply |
| `key_generation` | KeyGeneration.cfg | *violation*: a short X is stored misaligned |

### What the violations say

- `lobby_eof`: `socket::read` reports 0, the end of the stream, as success. If a client closes
  after its event was taken and before `pump_read` meets EAGAIN, `resume_read` never returns.
  A close noticed earlier comes as a hang-up event and is harmless, which is why this is rare.
- `message_split`: when a read resumes inside a field, line 300 compares the bytes of this read
  with the size of the whole field, without the `m_offset` bytes read before. A field that a
  second read completes is therefore "left off" once more; `m_offset` reaches the size of the
  field, and if no fixed field follows, `readsz` is 0, nothing is read, and the outer loop turns
  for ever (if one follows, its bytes are taken into the same field first). `session`
  checks the rest of the contract with segments that end at field boundaries. A client that
  writes a message with one call and is not cut by the network stays within that.
- `message_memory`: `calc_field_sz` counts `m_count` elements for the memory of a variable field,
  which is 0 for the buffers of the protocol, whether its wire size is known yet or not. What a
  payload is written to is the rounding and the four spare words of `alloc_buf`; a larger one
  goes beyond. So `DeliveredIntact` claims, and the other modules use, only the bytes that lie in
  the memory, and `CopyFits` is about the copies from it. The fixed fields always have room.
- `gate_reply_types`, `key_generation`: see "findings" in PROJECT.json. The properties of
  KeyExchange need X to fill its 64 bytes, which 255 of 256 generated ones do.

A build with `THEME_ALLOW_DECRYPTED_CONNECTIONS` accepts an empty handshake without registering
a read (`client_common.cpp:151-156`), so `pump_read` shuts that client down with "no queued reads.
Bug?". `NoServiceInClear` says that this is the only accepted message of either build that
calls for no other, and that such a client, who passes for encrypted and has no key, is never
asked for a request nor sent a byte.

### Bounds, and why they are enough

- Lobby: two remote programs are enough for a descriptor to be reused while an event about its
  last owner is in the batch, which is where the registries could part; each may reconnect any
  number of times. `MaxSend` (3 in `lobby_safety`) segments with a send buffer of one message
  (`TxCap`) fill the buffer, queue a second reply and leave a third request. `MaxEvents` of 1
  and 2 give batches that leave events over and batches of both clients. The proofs remove
  these bounds for safety.
- Session and MessageRead: eleven and eight sessions with the real field tables. The limit is 3
  for 1024, `size_t` has 8 bits, memory is counted in words of two bytes of which one is spare
  (8 and 4 in the code), so that payloads fit, just fit and do not fit, and payloads are 0,
  small, at the limit and over it; redundant sizes run from 0. The UUID and the seed are 2 and 3
  bytes long. Among Session's are two that are served, with two and three requests, and one for
  each thing a handler or `resume_read` may refuse, in both builds; replies are of two bytes, so
  that each can be cut or fail in the middle while the next request is read. In `session`
  segments end where fields do (see `message_split`); in `message_split` they end anywhere.
- GateSession: three requests (`MaxRequests`), messages of two or three bytes, so that replies
  are queued behind a partly sent one and a write fails at any byte.
- KeyExchange: bytes of four values, three to a number, two to a key; 47 and 59 are all the
  safe primes of that length whose top bit is set.
- Startup: two generated pairs beside one on disk, any number of starts and crashes, two orders
  of the unordered maps (one saves n before k, the other X last), one item per kind of use. The
  files to start from are none, a saved one whose port has more than 16 bits, and one written by
  hand with another base, an external address in brackets and a host of three addresses.

`RestartKeepsKeys` says what a running daemon's keys are. If it generated none it has those that
the last save set out to write (never older ones, wherever that save was cut), or it warned and
took a pair of its own: because that save was not completed, had no pair, or `theme.ini` failed
in this start. And what it runs with is on the disk, for the next start, unless it warned, its
read or save failed, or it was told to generate keys and not to save them. In those cases the
code itself lets the keys go; nothing in the repository promises that it does not.

`IniMatchesDaemon` says what a `server.ini` of this start is worth once the daemon runs, in every
case: a daemon that took the configured pair has the public number the client was told, one that
warned has another; X is missing or of that pair even after a cut save, and of the told base
unless such a save, or a hand, changed one of them (`whole` follows that through save and
start); the host is where the daemon listens, unless an external address is told instead;
the port is the daemon's in the low 16 bits, of which 0 leaves it to the kernel.

Deadlock is checked where the system cannot stop (`key_exchange`, `startup`) and is off where
it may: a daemon in `overrun`, `spin` or `sigpipe`, the end of a script, an erased client.

### Fairness

Lobby's `Fairness` has three parts. `WF_vars(Daemon)`: the thread is scheduled whenever it can
take a step; an `epoll_wait` with nothing ready is not a step. `SF_vars(EpollWait /\ i \in
batch')`: the kernel's ready list is first in, first out, so that an item which can be
reported time and again is reported at last, even when `MaxEvents` cuts the batch.
`WF_vars(PeerDrains(c))`: a remote program that stays connected goes on reading, without which
queued replies would rightly wait for ever. Nothing is assumed of what programs send, or of a
close. MessageRead assumes weak fairness of the daemon's steps and nothing of the network.

Session's has three parts too. `WF(Daemon)`: the connection's events are dispatched and its
pumps run, as they do in a loop that comes back to every client that is ready (`lobby_scarce`
checks that). `WF(NetworkDelivers)`: TCP delivers in the end what the client sent.
`SF(Drains)`: as long as it stays connected the client reads what it is sent, so a write is not
met with a full socket, or with nothing to do, for ever; strong, because the write is only
possible during the events that the poller reports in between. A hang-up is possible at any
time and never assumed, except after a shutdown, where the kernel is sure to report it.
`AllAnswered` and `ImplementsStream` rest on these. KeyExchange, GateSession and Startup assert
safety only.

## 4. Proofs

**LobbyProofs**, for all sets `Conns` and `Fds` and all bounds, from the ASSUMEs of Sockets,
Poller and Lobby: the type invariant, seven safety properties and an action property. None is
inductive alone. The invariant `IndInv` adds to them

- `CurAt`: a callback runs exactly in the places outside the loop, for a client whose event
  has left the batch (without it, `DispatchHup` could erase the client being served);
- `Fresh`: a client that is not polled has written nothing and is not shut down;
- `WriteWaits`: a full send buffer is known to be full, or there is a hang-up;
- `ClosedKnown`: after a shutdown or an error, the next event has a hang-up in it and the queue
  is not empty, so neither `pump_write` nor `enqueue_write` writes (this is the argument of
  `KilledOnlyByPeer`).

The registries (`RegInv`) are preserved by every step alone (`RegStep`). Each other part is
preserved given `RegInv`, in a lemma of its own with one step per action (`HupKept`,
`ReadKept`, `AcceptKept`, `FreshKept`, `WaitsKept`, `WriteKept`, `KnownKept`, `KilledKept`).
`WaitKeeps` is the one fact about `epoll_wait` they share: a ready item with a level stays
ready or goes to the batch with all of its level.

`ErasedWhenOver` is about steps: a client is erased only in the hang-up branch of `dispatch`,
between two callbacks, and its connection is over then; until that it keeps its descriptor. It
needs that a hang-up once reported is still true when its turn in the batch comes
(`OverNoticed`). It also says what happens to a client whose `add_fd` failed: nothing, ever.

**GateProofs**, for any message sizes, ids and number of requests, from `WriteQueueAssumption`
and `GateSessionAssumption`: the type invariant and five safety properties. `NeverInClear` is
the one about decrypted builds. `SessionInv` adds that, wherever the next read is still due,
flags, handler and registered struct agree and the key is set exactly when the flags say so,
behind the seed's bytes. The lemmas `ResumeWrite`, `HandleWrite` and `EnqueueWrite` say of the
operators of WriteQueue, for any queue, that the bytes sent are a prefix of those encrypted and
that the queue is the rest.

**ServiceProofs**, from the same assumptions: GateSession implements GateService
(`Implements`, the whole refinement; GateService has no fairness). Every step of a session is
one of the service or none. Besides `GateProofs`' invariant it needs that every queued buffer is
what is left of one whole message (`QueueWhole`), that the ciphertext is a sequence of whole
messages, with as many first bytes as last ones (`Balanced`), and that a refusal is followed by
nothing but the end (`RefusalEnds`). The work is in counting: the replies the service has sent
are the first bytes in the ciphertext, those received the last bytes among the sent ones, and
a reply that is queued adds one of the first and moves none of the others (`RankBehind`).

`EveryRequestAnswered` reads GateService back as an invariant of the session: the replies written
are those of the requests taken, one each, in order, with their ids; no more of them are received
than were asked for, and all of them once the queue is empty.

**ReadProofs**, for any field tables, messages, limits and cuts, from `MessageReadAssumption` (a
size fits `size_t`) and `LayoutAssumption` (a script's messages follow each other in the stream,
and one read from a later field on lies behind the header it shares): the type invariant; that a
message is delivered byte for byte, that the cursor is where the stream is, that no byte of the
next message is read with this one; and the initial states and steps of `ImplementsStream`.
"Byte for byte" is said of the bytes that lie in the memory the message has: all of the fixed
fields, and as much of the payload as there is room for (`message_memory`). These are stated for
`SplitInsideField = FALSE`, segments that end where fields do, because for the rest they are
false: that is the finding `message_split`. For all cuts it has the type invariant; that what a
turn copies to its new memory fits there (`CopyBounded`; by `Housed`, `m_bufsz` is never more
than the message now read is allocated while there is anything to copy); and that a turn asks
the socket for bytes unless its field has been cut, some of its bytes read and others not
(`TurnsAsk`): the case of `message_split` is the only one in which the loop can turn round
without asking. The invariant `Aligned` says, for each place in `resume_read`, how far the
stream has been read and which addresses of the buffer hold which bytes of it (`Resting`,
`Sorting`, `Finished`). That a sum over the fields of a struct is what it should be is an
induction over the field table.

**SessionProofs**, from these and `SessionAssumption`: a session reads as MessageRead does
(`SessionReads`: the initial states and steps of `ImplementsRead`), so the properties
above hold of connections (`SessionIntact`, with the same restriction of the cuts and the same
reading of "byte for byte"), and so does MessageStream's safety part
(`SessionStream`); and a connection decrypts in step (`DecryptedInStep`). The invariant adds to
`Aligned` where `handle_dispatch` and `resume_read` can be at the same time (`Paced`), that the
registered struct is the one the client sends next (`Registered`), and that the key is there
before the first byte is read that needs it (`KeyedInTime`). The last holds because the seed is
a message and `resume_read` does not read beyond a message. With `Registered`, `SessionAsks`
follows: the kth request in the client's script is the kth that `dispatch_msg` is asked, with its
type and id.

The other half needs no restriction of the cuts: every step of a session is one of GateSession
or none (`IsGate`, from `GateAssumption`), so the properties of GateProofs hold of connections
(`SessionGuarded`), and a connection implements GateService (`SessionServes`). The proofs are
ServiceProofs' own, instantiated with the variables of Session. Both halves together are
`AnswersTheScript`, from the bytes a client sends to those he is sent: of the requests handed
over, each has one reply, in the place and with the id of the request, and when nothing is queued
the client has been sent all of them to the last byte. `AllAnswered`, which TLC checks, adds that
it comes to that.

**KeyExchangeProofs**, for any base, width, primes of that width, bases, secrets and seeds: the
type invariant and the agreement of the two session keys. The invariant `Agreeing` follows each
number through its arrays: it is the number again that `load_keys` and the client read. This
rests on the round trips of the two byte orders (`Bin2BnIs`, `RoundTrip`), on the uniqueness of
a number's width (`NumBytesIs`), and on the powers: g^b to the k is g^k to the b, modulo n
(`PowersCommute`). The condition on X, that it fills its array, is in `KeysAgree`; without it
the property is false (`key_generation` shows what is stored then).

**StartupProofs**, for any `Number`, orders of the maps, first `theme.ini`, sequence of key
pairs and addresses of hosts, and any number of starts, crashes, failed reads and failed writes,
from the assumptions of Config (names are text; the defaults have no brackets), Listener (a
resolved host has an address) and Startup (`theme.ini` does not begin with the halves of two
pairs or the X of another, and what it says is usable; a layout has every item behind its
section's header; keys are not empty, have no brackets, and no pair is generated twice or was in
the file): the type invariant and the four safety properties. That a complete file reads back is
an induction over its lines, and the invariant says for every prefix of a save what a start from
it would read (`Saving`, with `Told`): values of this configuration for the items already
written and defaults for the rest. That is why a crash does not mix two pairs. Of keys it says
that the disk, and a start without new ones, have those of the last save or none (`Halves`),
that the disk has those of `m_config` before new ones are set and after they are saved
(`Found`), and that a pair yet to be generated is in no configuration (`Fresh`), so that a
daemon with one of its own is told from one with the configured pair.

**Induction.** The provers cannot instantiate a theorem whose parameter is an operator, so
`Upwards` states induction over the natural numbers for a set, from the well-foundedness of `<`,
and `Recursion` that a function with a given first value and step exists. With these two, what
the recursive functions of MessageRead, KeyExchange and Config compute is proved. The module also
has the lemmas on quotient and remainder (`DivMod`, `DivUnique`, `DivIs`, `DivSmall`) that the
bytes of a number and the digits of a port rest on.

Only model-checked is what needs fairness, which is out of the prover's reach: `HupReaped`,
`BacklogAccepted`, `WritesFlushed` and `RequestsRead` of Lobby, `AllAnswered` of Session, and the
fairness in `ImplementsRead` and `ImplementsStream`. Every invariant and every action property
that a passing run checks is a theorem.

## 5. Not modelled

- `remove_fd`, which only runs while the process exits; the timeout of `epoll_wait`; the text of
  addresses, and when the kernel refuses to bind one (it may always).
- The end of a stream in Session: `read` returning 0 is Lobby's matter (`lobby_eof`).
- A key in `theme.ini` that is not the base64 of 64 bytes: `load_key` asserts it.
- Failed allocations. What becomes of other memory when a payload goes beyond its own, if the
  daemon survives it: the model loses the bytes and leaves the rest of the state alone.
- An error of the disk in the middle of reading `theme.ini`: it is read whole or not at all.
- EINTR of `read` and `write`: no signal handler is installed.
- The text of log lines, uuid, byte-order macros, the build's version text: pure conversions.
- The configuration's accessors for other types, which nothing calls; number formats, comments
  and blank lines of `theme.ini`; that section and item names are compared without case.
- OpenSSL's random numbers and primality, base64, and the client program beyond its half of
  the key exchange and its segments.

## 6. Plan

1. Written: Sockets, Poller, Lobby; MessageStream, Messages, MessageRead; WriteQueue,
   GateService, GateSession; Session; KeyExchange; Config, Listener, Startup; and the proofs of
   section 4.
2. Not proved yet: what a `server.ini` holds after an interrupted start; that a client which
   Session serves is, for Lobby, one of its handlers that refuse, stay silent or reply.
3. In the model, what is left is in "Not modelled", with the reasons.
