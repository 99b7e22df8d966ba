# Verification of the HTTP caching proxy

TLA+ models of the proxy in `src/proxy`, the TLC runs that check them, and
proofs, checked by TLAPS, that every safety property of the passing runs holds
for all values of the constants: any number of threads and connections, any
capacity, any headers and ages, any buffer sizes and any content of the streams.

## The system

One process. `main` accepts connections on port 12345 and starts one detached
thread for each. The thread receives one request, answers it and ends. What the
threads share is the cache, the log, the descriptor table and the static buffers
of the C library.

| Part | State | Operations | Models |
|---|---|---|---|
| `Cache` (cache.cpp) | `cache_map_`, `access_order_`, `key_to_iterator_`, `max_entries_` | get, put, remove, clear, evictOldest, updateAccessOrder (isValid and size change nothing) | CacheOps, Cache, CacheContract, CacheRetention, CacheUsage |
| `ReaderLock`, `WriterLock` (utils/locks.hpp) | `cache_mutex_` | constructors and destructors | SharedCache, SharedCacheHistory |
| `Response` (response.cpp) | header members, expiry, freshness | parse, process_cache_control, manage_cache_time, validate_freshness | ResponseOps, Response |
| `Handler` (handler.cpp), many threads | locals of each thread, the cache | handle_connection, processGetRequest, processPostRequest, processConnectRequest, forwardRequest, sendErrorResponse | Proxy |
| `Handler`, one thread and its bytes | received header, body and buffers, what is left to send | handle_connection, sendAll, forwardRequest | Streams, Exchange, Connection, Pipe |
| `TcpSocket` (socket.cpp), `main` | `socket_fd_`, the variable `client_socket`, the kernel's table | accept, connect, constructors, destructor, close | Descriptors, and connect in Proxy |
| CONNECT (`processConnectRequest`, `tunnelTraffic`) | two sockets, `revents`, `client_closed`, `server_closed` | the poll loop | Tunnel, Connection, Pipe |
| `Request` (request.cpp) | method, host, port, URI | parse | `Requests` of Proxy, `ReceiveRequest` of Connection |
| `Log` | one mutex, one file | write | not modelled: it holds no other lock and nothing reads it |

How they interact: a GET calls `Cache::get` under the shared lock and works on
the copy it returns, after the lock is gone. A miss or an expired entry goes to
`forwardRequest`, which resolves, connects, sends, receives the header, passes
it on, relays the body, and at the end parses the header again (`Response`) and
calls `Cache::put`. Nothing else is called on the cache: `remove` and `clear`
exist and are never used by the handler.

What is hard here: the three containers and stored iterators of the cache
(sequences of calls); their changes under the lock (atomicity); the time between
the lookup, the check and the use of an entry, and between an answer and its put
(stale state); `gethostbyname`'s buffer (data race); every failure path of
`forwardRequest`, each with its own answer (partial failure); descriptors that
are closed twice; `SIGPIPE`, which ends the process; streams that recv cuts anywhere,
sends that take a part, and peers that stop, half-close or break off at any point
(framing of bodies, the tunnel, when a thread ends at all). `PROJECT.json` lists each
hazard with its line and the properties that speak of it.

What makes each part correct:

- Cache: the containers agree, the capacity holds, recent entries survive, a get
  returns the last put of its key.
- Locks: nobody sees a half-made change; the calls amount to atomic ones.
- Response: what an entry allows is what the header lines say.
- Handler: one answer per request; only cacheable answers are stored; nothing is
  served beyond its lifetime.
- A connection: each direction is a pipe; the body loop stops when the body is
  complete; the cache gets what the client got; a tunnel's end does not overtake
  its data; the thread ends when the peer it depends on has left.
- Descriptors: all come back, also after failed accepts, and a thread uses its own.

## The modules

**CacheOps** has the containers as a record and every step of the member
functions as an operator on it. List nodes have addresses, chosen freely among
those not in use, because `key_to_iterator_` stores addresses; erasing through a
dangling one would be undefined behaviour, and `Coherent` says it never happens.
**Cache** composes them into one atomic action per member function.
**CacheContract** is the abstract specification: one list of responses, newest
store first. `Contents` in Cache is the refinement mapping. A refinement does not
see the arguments of calls, so a put that kept the old entry could still pass for
one with another argument; the history variable `latest` (**CacheRetention**)
holds the entry each key was last given, and GetReturnsLatest compares. Two more
history variables: `since` (also CacheRetention) counts the puts after the last
put of each key, `used` (**CacheUsage**) orders the keys by use.

**SharedCache** takes the same operators one at a time, under a shared mutex:
`pc` is at the helper call a thread makes next. `get` reads in one step, since
nothing can change under a shared lock; `put` is evict, insert, order; `remove`
is two steps; `clear` is three. The mutex lets readers in whenever no writer
holds it. **SharedCacheHistory** adds `committed`, the containers after the last
finished body, under which the threads implement Cache (`ImplementsCache`).

**ResponseOps** has the header lines, their effect on a `Response`, and the
fields of a `CacheEntry` made from it. Lines are abstracted to what `parse` tells
apart. A time that cannot be read is -1, an unset age is -1, an unset time is 0,
as in the code. An age is whatever integer `std::stol` reads, so a line may state
-1 as well; `NoAge` is a line without the directive. **Response** reads lines one by one, makes the entry and lets the
clock run. A header without its closing empty line makes the constructor throw,
like a number that `std::stol` rejects: both are the "unreadable" line.
`FromTime` is `from_time_t`, whose nanoseconds overflow: a time of `MaxTime` or
later comes out before 1970 (signed overflow, which wraps in the build the
Makefile makes).

**Proxy** has the connection threads around the cache, which is an INSTANCE of
CacheContract: the containers and the lock have been shown to implement it. A
thread's location `pc` names the part of the code it is in:

| `pc` | code |
|---|---|
| recv | handle_connection up to the choice of the method |
| lookup, check, serve | processGetRequest |
| forward, resolve, connect, await | forwardRequest up to the answer's header |
| relay, body, store | forwardRequest after it |
| tunnel | the rest of processConnectRequest |
| close | the end of handle_connection |

Origins are external: they publish new versions of their resources, answer with a
`Date` of now and one of a few headers, or fail. A client may leave at any send,
which either makes `sendAll` return false (`ClientGone`) or raises `SIGPIPE`
(`Sigpipe`): the process ends and docker-compose restarts it with nothing in
memory. `std::stoi` on a bad `Content-Length`, in the header or in text of the
body received with it, throws after the header was sent; exceptions before that end in a 500 (`InternalError`). The body and the tunnel are
one step each: Connection has them in detail.

**Streams** has one connection's byte streams: for each peer how much of its
stream has arrived and how much `recv` has taken, what the kernel has accepted
for it and how much of that it has read, and whether it has closed its stream
(`shut`) or broken off (`reset`). `SendSome` and `SendFails` are the loop of
`sendAll`: a send takes what fits, and waits or, on a non-blocking socket,
fails. A unit stands for some bytes that the code tells apart ("blank" is the
empty line after a header, "last" and "end" the halves of a last chunk, "length",
"bad" and "chunked" what the search for a field finds: a length, one that
`std::stoi` rejects, chunked coding).
**Exchange** is `forwardRequest` recv by recv: the header with whatever of the
body came along, the search for its framing, the body loop with its two ways to
end, and the store. The search goes through all that was received, so a field's
unit behind "blank", in the body, counts like one in the header. **Tunnel** is `processConnectRequest` and `tunnelTraffic`:
the snapshot `revents` that poll takes, then one recv from each side in turn,
then the check for hangups. **Connection** extends both with `handle_connection`:
the single recv of the request, the choice of the method and the end. The cache
is left out, a GET is one that misses; what it stores is `stored`. **Pipe** is
the abstract specification of one direction: a beginning of what was sent, in
order, and nothing after the end. ClientToOrigin and OriginToClient say that
Connection implements it both ways; a tunnel's pipe begins behind the recv of the
CONNECT, and what the proxy itself says is not part of the origin's stream.

| `pc` of Connection | code |
|---|---|
| recv | handle_connection up to the choice of the method |
| forward, request, header, relay, parse, body, pass, store | forwardRequest |
| dial, establish | processConnectRequest |
| poll, client, to origin, origin, to client, hangup | tunnelTraffic |
| error | sendErrorResponse |
| finish | the end of handle_connection |

**Descriptors** has the kernel's descriptor table with lowest-first allocation,
`main`'s start (whether `bind` and `listen` succeed, which it does not look at:
if not, every accept fails) and its loop with the variable `client_socket`,
and who holds each `TcpSocket`.
`accept` reserves its descriptor before it waits, as the Linux kernel does. It
fails at once when there is none or the socket does not listen (`AcceptEnter`), or
after waiting (`AcceptFails`); `main` assigns the nullptr it returns to
`client_socket`, which may close the last connection's descriptor (`Assign`). The
constructor of an origin's socket is two steps, socket (`OpenOrigin`) and
setsockopt (`SetOptions`), each of which may throw; a throw of the second leaves
the descriptor open for ever (`refused`).

The modules MCCache, MCCacheUsage, MCSharedCache, MCResponse, MCProxy,
MCConnection and MCDescriptors hold what TLC needs for small instances. Definitions under a comment "Variant of" are what the
definition after them would be with a plausible mistake in it; nothing uses
them but the check that each property notices one.

Each component's theorems are in a module of their own: CacheOpsProofs and
CacheProofs, SharedCacheProofs, ResponseOpsProofs and ResponseProofs,
ConnectionProofs, ProxyProofs, DescriptorsProofs.

## The runs

| Run | Properties | Instance | Shows |
|---|---|---|---|
| cache | RTypeOK, Coherent, Bounded, Retained, PositionBound, GetReturnsLatest, ImplementsContract | 4 keys, capacity 3, 2 entries, 4 addresses | any sequence of calls keeps the cache sound and equal to the list |
| cache_lru | EvictsLeastRecentlyUsed (violated) | 3 keys, capacity 2 | eviction follows puts, not use |
| shared_cache | TypeOK, NoTornReads, ExclusiveWriter, Progress, ImplementsCache | 3 threads of 2 calls, 3 keys, capacity 2 | the lock makes the bodies atomic; no deadlock |
| response | TypeOK, ServedWithinLifetime, FreshIsServed, ValidationIsAsked | 3 lines, 2 of them Cache-Control, 3 ages, 2 times, 3 instants, clock up to 8 | lifetimes and directives are honoured, also where the expiry overflows |
| response_zero_age | ZeroAgeIsStale (violated) | age 0 | max-age=0 never expires |
| proxy | TypeOK, AnsweredOnce, OnlyCacheable, BoundedStaleness | 2 threads, 3 connections, 2 versions, 3 instants | one answer each, only cacheable entries, staleness bounded |
| proxy_hosts | HostMatches (violated) | 2 threads, 2 hosts | a request reaches another thread's host |
| connection | TypeOK, StopsOnlyWhenComplete, CachedIsForwarded, ClosingSideDelivered, ClientToOrigin, OriginToClient, EndsWhenPeerLeaves, LengthEnds | 5 rejected requests, a GET with 9 answers, a POST, a tunnel of 3 units each way | one connection passes on, stores and ends as it should, whatever its peers do |
| connection_content | HitServesContent (violated) | 1 GET | a truncated body is cached |
| proxy_sigpipe | OthersUndisturbed (violated) | 2 threads | a client that leaves can end the process |
| descriptors | TypeOK, NothingLeaks | 4 connections, 5 descriptors | no descriptor leaks but that of a constructor that throws |
| descriptors_own | OwnSockets (violated) | 4 connections, 5 descriptors | the double close reaches another connection |

Bounds. The cache's run has one key more than the capacity and one address more
than the longest list, so that eviction, replacement and the reuse of an address
all happen; the proofs remove the bounds. Three threads are the least at which a
writer, a reader and a second writer meet. In `response`, three lines allow a
`Date` with two `Cache-Control` lines or with `Cache-Control` and `Expires`;
times 3 and 5, ages 2 and 11 and arrivals from 4 to 6 put lifetimes before, at
and after the clock, over the end of its range (3 + 11) and to exactly 0 (5 + 11);
the age -1 is one the code takes for none. A third Cache-Control line would only
replace the second as that does the first (`MaxControls`). In `proxy`, the third connection can hit what the first two stored,
two versions make an entry stale, and three instants let a max-age of 1 run out;
one header gives shared caches less time than others, the other takes back with
a second line what its first allows.
With five descriptors and four connections the table fills up; the connections
are symmetric, since nothing but equality tells them apart. In `connection` a
recv takes two units and a peer that does not read leaves room for one, so
headers arrive in one piece, in two, or with the first of the body, sends take a
part, and three units queued for a tunnel need two recvs; `SizeMax` (SIZE_MAX)
is small only because TLC's integers are. `MaxCalls`,
`MaxConnections`, `MaxVersion`, `MaxLines`, `MaxControls` and `End` bound what is
unbounded in the program. `response` and its violation run do not check
deadlock, because the lines and the clock run out; the others do: `main` of
`descriptors` can always go on, to an accept that fails when nothing else is left,
and the rest have a step that says that everything is done.

Exceptions. Some properties leave out a case in which the code does otherwise:
- `ServedWithinLifetime` and `BoundedStaleness`: ages that are not above 0. The code
  takes them for no age at all, and the response never expires;
  `response_zero_age` shows it for 0.
- `AnsweredOnce`: a Content-Length that `std::stoi` rejects is answered a second time.
- `StopsOnlyWhenComplete`: content that looks like a last chunk, and text of the
  body that reads like a Content-Length and came with a header that has none. Both
  stop the loop with the origin still there.
- `NothingLeaks`: the socket of an origin whose options could not be set.

Fairness. Only `connection` needs it: the thread goes on whenever it can
(`WF_vars(ThreadStep)`: the kernel schedules it). Nothing is assumed of the peers,
and a failing poll is not forced to happen. So EndsWhenPeerLeaves is conditional:
once the origin has left, or in a tunnel either side, the thread ends, unless it
is blocked in a send to a peer that neither reads nor leaves; and LengthEnds says
when a response ends without the origin leaving. In all other cases the thread
waits for the origin, for the code sets no timeout: after a response that was
complete with its header, one without a body, one with Content-Length 0 or a
negative one, and one whose last chunk is split. That calls
on the cache return needs no fairness of its own: in `shared_cache` every
behaviour is finite and ends with all calls returned, or TLC would report a
deadlock. Starvation of a put by unboundedly many readers is outside the model.

## The findings

Each violation run contradicts a comment or the project's README; the quotations
are in `PROJECT.json`. The shortest traces: put a, put b, get a, put c evicts a;
`max-age=0` stored with no expiry; thread 1 resolves h1, thread 2 resolves h2,
thread 1 connects to h2; the origin closes after the header and an empty body is
stored for one of three units; one client gone and both
threads ended; an early return closes 3, another connection gets 3, the
destructor closes it.

## The proofs

They hold for all values of the constants that satisfy the ASSUMEs, which TLC
evaluates on each run's instance:

| Module | Assumed |
|---|---|
| CacheOps | a capacity in Nat; nullopt is no entry |
| SharedCache | NoThread is no thread; a bound in Nat on the calls of each |
| ResponseOps, Response | ages are any integers, NoAge is not one of them; times a header can state between 1 and MaxTime - 1; a clock within the range of time_point; any bound in Nat on the lines and on the Cache-Control lines among them |
| Proxy | headers are any sequences of lines without a Date, which the origin adds; a clock within Times; at least one version; any number of connections |
| Streams | recv and send take at least one byte; status lines of the proxy are not units of the streams |
| Exchange | a length is any integer; an origin whose header has a Content-Length sends no more content than it says (as a size_t); it puts "last" only at the end |
| Descriptors | at least one descriptor; None is no connection, descriptor or file |

What Exchange assumes of an origin's content is used for StopsOnlyWhenComplete
only: an origin that sends more than it announced has its answer cut, and text that
reads like a last chunk within the content ends the loop early, as the hazards
list says. Nothing is assumed of text in a body that reads like a Content-Length;
there the property itself makes the exception. The bounds on lines, calls, versions and connections are arbitrary
naturals in the proofs.

**Cache.** The invariant is TypeOK and Coherent together. Each container
operation has a lemma on what it does to the list, the map and the iterators;
MakeRoom, Insert and UpdateAccessOrder keep ListIndexed even between the steps
where map and list differ.
- `CacheTypeOK`, `CacheCoherent`, and `CacheHistoryTypeOK` for the histories.
- `CacheBounded`: the list covers the map (`ListCoversMap`: the number of stored
  keys is the length of the list), so an eviction at capacity finds a stored key.
- `CacheRetained`: Retained alone is not inductive. PositionBound ties the count
  of later puts to the position in the list; what is evicted is at the back, so
  at least MaxEntries puts are behind it.
- `CacheGetReturnsLatest`: evicting and removing leave the other entries as they
  are (`MakeRoomEntries`), and a put assigns the one it was given.
- `CacheImplementsContract`: `Contents` pairs each node's key with its entry in
  the map (`Paired`); under Coherent an erased iterator is the one place of its
  key, so every container step is the list step that CacheContract names, and a
  get changes neither.

**The cache under its lock.** `SharedCacheExclusiveWriter`,
`SharedCacheNoTornReads`, `SharedCacheProgress` and `SharedCacheTypeOK` come from
HInv. It says who holds the mutex (Mutex), that a body runs on the call it
belongs to (CallMatches), and where the containers stand with respect to
`committed` (Settled, Progress). Progress without Mutex is not inductive: another
writer would disturb it. `SharedCacheImplementsCache`: under HInv the last step
of each writing body is the atomic action of Cache on `committed`, a lookup is
Get, and all other steps stutter.

**Response.** `ParseAgrees` says what `Parse`, the fold over the lines, returns
for every header of any length. The library's induction theorems take an operator
as a parameter, which the installed provers cannot instantiate; ResponseOpsProofs
does the induction with sets instead. Every non-empty set of naturals has a
smallest member (from the well-foundedness of `<`), so the set of lengths at which
a statement fails is empty if it is empty at 0 and never begins (`SetInduction`).
`NeverServedStale`, `ServedWhileFresh` and `NeverServedUnvalidated` rest on an
invariant that names what the properties leave out: the object agrees with the
lines read so far (ParsedFaithful), and the entry is what Expiry makes of the
object (EntryFaithful). With both, what remains is the arithmetic of FromTime
where it does not wrap and where it does.

**Connection.** One invariant carries all six properties. It says for each place
of the thread what the two peers have been given in terms of what was received:
the origin gets what came from the client in order (OriginGets), the client gets
what came from the origin between the proxy's own words (ClientGets), the buffers
of the header and the body hold parts of the same stream (HeaderReceived,
BodyKept), what each exit of the body loop means (LoopEnded, with `LengthPlace` on
where the length it counts to was found), and what `closed`,
`dropped` and `revents` imply about the peers (TunnelEnded). None of the properties
is inductive without it: CachedIsForwarded, for one, says nothing before the
store, where the content of three buffers has to fit. `ClientToOriginIsPipe` and
`OriginToClientIsPipe` show that every step is one of Pipe or a stutter.

**Proxy.** The invariant has for every `pc` of a thread exactly what its client
has been sent (SentAtPlace), what request and answer it holds (RequestAtPlace,
AnswerAtPlace), and of every cache entry, also of those that threads have copied,
that it came from a 200 to a GET, is storable and dated (CacheKept). DatedIn
relates an answer to the history of its origin: whatever replaced its version was
published at its date or later.
- `OneResponseEach`: no path may answer twice, and none may leave out the answer.
  A hit needs CacheKept: the exception for a length that cannot be read would
  otherwise apply to a stored answer that is sent once.
- `CacheableOnly`: IsStorable speaks of parsed flags, the property of lines;
  ParseAgrees connects them. Each Cache-Control line replaces the flags of the one
  before it, which is why the property is about the last one.
- `ServedRecent`: the age counts from the date in the header, not from the put;
  with DatedIn and ParseAgrees a valid entry is of a version replaced no longer
  ago than its age, if all ages of its header are above 0 (`StatedAge`).

**Descriptors.** `NoLeak`: a file in the table is known by the number its
TcpSocket will close, and by no closed connection (TableCoherent), `main`'s
variables are where its last step left them, an accept that failed included
(MainCoherent), and a thread whose constructor threw is on its way out and opens no
other socket (RefusedOver), so that the exception excuses no other file. That the number may
by then be somebody else's is what `descriptors_own` finds; it frees a file, so
the invariant does not mind.

Only model-checked: liveness, EndsWhenPeerLeaves and LengthEnds, and freedom from
deadlock, which is about ENABLED; both are out of the prover's reach. The
properties of the violation runs are false.

## What is not modelled

Left out:

- characters and formatting (request and header syntax, log lines); that the
  values of a stored entry's headers keep their carriage return;
- the overflow of `date_ + max_age_` itself, near 2^63: FromTime has the one that
  comes long before it;
- starvation at the shared mutex, which needs unboundedly many readers;
- `Log`: one mutex around one write, which nothing reads;
- what nothing calls: `post_thread_pool`, `generateUniqueID`, `ScopedLock`,
  `ConnectionGuard`, `unlock` of the lock classes, `TcpSocket::send` and
  `receive`, `Request::print`;
- the build files and the test script.
