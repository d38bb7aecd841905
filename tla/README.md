# fproxy: a verification project

fproxy relays UDP between local applications and one target over several
redundant paths. A *client* gives every application address (a source) a session
id, numbers its packets and sends each of them to every configured server
endpoint, UDP or TCP. The *server* opens one UDP socket to the target per session
id, forwards the first copy of every packet and drops the others, and sends each
answer of the target, numbered again, back on every path it knows for the
session; the client forwards the first copy. The repository holds the program
twice, in Rust (`fproxy-rs/`) and in Go; `openspec/specs/udp-relay/spec.md`
(below `spec.md`) is the specification of both.

This directory models the Rust program, each side by itself and both together,
the Go server and the TCP side of the Go client in TLA+, checks small instances with TLC and proves
the central properties with TLAPS for every instance.

## 1. Inventory

| Component | State | Operations | Hard behaviour |
|---|---|---|---|
| Deduplication window (`server.rs` 26-82, `client.rs` 29-81) | numbers seen, lower and upper edge, started | `is_duplicate` | sliding at the edges, reordering, window opened by whichever number arrives first |
| Rust server (`server.rs`) | `sessions`, `client_paths`, `tcp_conn_to_session`, per session: window, response counter, last activity, cancel token | a task per UDP listener and per TCP connection, the accept loop, a response handler per session, the sweeper, `stop` | copies of a packet handled concurrently; a session expiring under a packet or a response that is being handled; clean-up of connections; every task ending |
| Rust client (`client.rs`) | `udp_sessions`, `udp_session_addrs`, `tcp_sessions`, `session_id_counter`, per session: number, window, last activity; per connection: last activity, cancel token | one listener task for all sources, a receiver per UDP server, a reader per TCP connection, the sweeper, `stop` | two maps that must agree; responses on several paths; connections that outlive a session; clean-up by key; ids that wrap |
| Packet codec (`protocol.rs`, `packet.go`) and framing | none | encode, decode, read a frame | length of a TCP frame is cast to `u16` |
| Configuration, entry points (`config.rs`, `main.rs`, `config.go`, `main.go`) | none at run time | flags over YAML, parse, defaults, checks | windows are per server, so a client must not use two |
| The relay as a whole | both programs, datagrams and streams in flight | as above, and the network; expiry on one side, restart of one program | windows of one side that outlive what they are about on the other |
| Go server (`server.go`) | as the Rust server, with mutexes, deadlines and a `WaitGroup` | as the Rust server | `Stop` waits for goroutines that read from connections nobody closes; sessions created while it runs; a lower edge of the window that could wrap; in-place update of a path |
| Go client (`client.go`) | as the Rust client, with mutexes, deadlines and a `WaitGroup` | as the Rust client | a map's mutex held while waiting for a session that is in a blocked write; read deadlines inside a frame |

Interaction: the client and the server exchange datagrams and frames only. Inside
each of them tasks share maps behind `tokio::sync::RwLock`s and talk through
cancellation tokens (a session's token on the server is a child of the server's;
a connection's token on the client is not, so its reader waits for two).

What makes each correct:

* window: a number passes once; one that never passed is refused only if it comes
  before the first or lies a window behind the newest;
* server: a number of a session reaches the target at most once; an id has one
  socket; responses stay in their session and carry distinct numbers; idle
  sessions, and only those, are removed; whatever is cancelled ends;
* client: the two session maps agree; ids are distinct and never 0; a response
  reaches the source of its session and nobody else, once; a source has one
  live connection per TCP server; whatever is cancelled ends;
* configuration: a client that starts uses one server host; a server that starts has
  a window of at least 1 and a timeout above 0;
* relay: a packet passes once in its target session, and an id has one target session
  among all servers; what is refused without having passed was overtaken, or
  was numbered by a session that is gone;
* Go client: `Stop` returns, and every connection is closed when it has;
* Go server: the same, as far as its clients let it; a target socket that is open is
  the one its id leads to; its window is the Rust one.

## 2. Modules

| Module | Contents |
|---|---|
| `DedupWindow` | the window as a record: `New`, `IsDuplicate`, `Mark` (built from `Open`, `Insert`, `Slide`); `GoMark`, the same in the Go server's arithmetic |
| `LateFilter` | abstract specification: what a window promises, without a window |
| `DedupFilter` | one window offered numbers in any order; `IInv`, and `LateFilter` as its abstraction under the identity mapping of `accepted`, `first`, `answer` |
| `DedupWindowProofs`, `DedupFilterProofs` | lemmas on the operators, theorems on the filter |
| `RustServer` | the server, uses `DedupWindow` per session |
| `TargetSessions` | abstract specification: what the server promises the target, without tasks |
| `RustServerProofs` | its inductive invariant; types, `AtMostOnce`, `OneTargetSocket`, and that it implements `TargetSessions` |
| `RustServerRouting` | four more invariants, over `IInv`: where responses go and how they are numbered, connections that ended, idle sessions |
| `MCRustServer` | `RustServer` with a symmetry set of its session ids |
| `RustClient` | the client, uses `DedupWindow` per session for responses |
| `SourceSessions` | abstract specification: what the client promises sources and servers, without tasks |
| `RustClientProofs` | types, and three inductive invariants over them: sessions and maps, responses and connections, windows; that the client implements `SourceSessions` |
| `MCRustClient` | `RustClient` with a symmetry set of its sources |
| `Codec` | packets and frames: `encode_packet`, `decode_packet`, `Frame`, `FirstFrame` |
| `Config` | `load` with everything it calls |
| `LossyRelay` | abstract specification: what the relay promises the source and the target |
| `Relay` | client, network, servers and target for one source; uses `DedupWindow`, `Codec`, `Config` |
| `RelayProofs` | what an accepted configuration guarantees; `RelayInv`; types, streams, paths, what a refusal means, and that the relay implements `LossyRelay` |
| `MCRelay` | configurations and packets for `Relay` |
| `GoClientTcp` | the Go client's TCP side: goroutines, `RWMutex`, session mutexes, `Stop` |
| `GoClientTcpProofs` | types, `ReturnedClosed` |
| `GoServer` | the Go server: goroutines, maps, `Stop` with its `WaitGroup`; uses `DedupWindow` |
| `GoServerProofs` | types, target sockets and windows, `ReturnedClosed` |

### How state and steps correspond to the code

Variables have the names of the fields they stand for. Objects behind an `Arc`
(sessions of the server; UDP sessions and connections of the client) are numbered
in the order of creation, and a map leads to a number, 0 for an absent entry: a
task can hold a session that is no longer in the map, as an `Arc` does. Each task
is a record whose `pc` says between which two await points it is and whose other
fields are the locals it keeps.

A step is what a task does between two await points: a critical section, one
socket operation. Steps that change nothing another task can see are joined to
the next one (decoding; the client's sequence number, which only its listener
reads; the client's UDP sends). A lock that is held over an await is modelled by
the steps it excludes:

* server: the sweeper holds `sessions` for writing from the scan to the last
  removal (`SessionsWriteLocked`); it waits for `client_paths` in between. A handler
  holds it for reading while it waits for the lock of `last_activity`
  (`SessionsReadLocked`);
* client: the listener and the sweeper hold `udp_sessions` while they change
  `udp_session_addrs` (`UdpWriteLocked`); the listener holds `tcp_sessions` while it
  connects, the sweeper from scan to removal (`TcpWriteLocked`).

`*session.last_activity.write().await = Instant::now()` reads the clock before it waits for
the lock. In `RustServer` these are two steps (`Touch` and `Stamp`, `RespTouch` and
`RespStamp`), since `OnlyIdleRemoved` depends on it: what is written may be older than what it
replaces, and than the sweep that has listed the session. In `RustClient` they are one, to keep its
runs small: none of its properties looks at why a session or a connection is
expired, and it may expire between any two steps of the others all the same.

| Code | Actions of `RustServer` |
|---|---|
| `handle_udp_listener`, `handle_udp_packet` | `RecvUdp`, then `PacketStep` with `AddPath` for `add_udp_path` |
| `handle_tcp_listener`, `handle_tcp_conn` | `AcceptTcp`, `ReadLength`, `ReadData`, `DecodeFails`, `TcpClose`, `ConnExit` |
| `get_or_create_session` | `Lookup`, `CreateFindsOne`, `Create`, `CreateFails` |
| activity, window, target send | `Touch`, `Stamp`, `Dedup`, `Forward`, `ForwardFails` |
| `add_tcp_path`, `cleanup_tcp_conn` | `Track` and `AddPath`; `Untrack` and `Unpath` |
| `handle_target_response` | `RecvTarget`, `HandlerError`, `HandlerExit` |
| `send_response_to_all_paths` | `RespTouch`, `RespStamp`, `RespSeq`, `RespDropped`, `RespPaths`, `RespSend` |
| `session_cleanup_loop` | `SweepTick`, `SweepScan`, `SweepRemove`, `SweepPaths` |

| Code | Actions of `RustClient` |
|---|---|
| `handle_listener`, `handle_packet` | `RecvPacket`, `TakeSeq` |
| `get_or_create_udp_session` | `Lookup`, `Create` (with `NextId`), `StoreReverse` |
| `handle_tcp_transport`, `get_or_create_tcp_session`, `send_tcp_frame` | `LookupTcp`, `Connect`, `ConnectFails`, `TouchTcp`, `SendTcp`, `SendTcpFails` |
| `handle_udp_server_response`, `process_udp_response` | `RecvResponse`, `LookupSession`, `Dedup`, `TouchResponse`, `Forward`, `ForwardFails` |
| `handle_tcp_server_response`, `process_tcp_response` | `ReadLength`, `ReadData`, `DecodeFails`, then as above; `ReaderEof`, `CleanupTcp`, `ReceiverExit` |
| `session_cleanup_loop` | `SweepTick`, `SweepScan`, `SweepRemove`, `SweepAddr`, `SweepTcpScan`, `SweepTcpRemove` |

`select!` draws among its ready branches at random, so a task that was told to
stop may still take a packet first: the exits are actions of their own, not
guards on the others. The data of a frame is read outside `select!` in both
programs: in `body` a task does not notice that it was cancelled.

The environment is the most general one. Any packet may reach the server at any
time on any listener or connection, and any response for a session id that was
ever made the client: this covers loss, duplication, delay and reordering.
Over a connection the client receives only ids it has sent on it. Sends to
the target and to sources, connection attempts and creation of target sockets may
fail. `conn_id` on the server is the address of the connection's writer: it is
given out again once no path, and no handler's copy of the paths, holds the writer
(`ConnIdFree`).

### The relay

`Relay` asks what goes wrong between the programs, not inside them: a packet or a
response is handled in one step, which is what the two models above justify for the
window and the maps it touches. What is sent goes through `encode_packet` and
`Frame`, what is received through `FirstFrame` and `decode_packet`, with bytes of
`Base` values and fields of a few bytes. The programs start with what `load` accepts of
`ClientArgs`, `ClientYaml`, `ServerArgs` and `ServerYaml`.

| Code | Actions of `Relay` |
|---|---|
| `handle_packet`, `get_or_create_udp_session`, `handle_udp_transport`, `handle_tcp_transport` | `SourcePacket`, `SourceOpens`, with `SendPacket`, `SendUdp`, `SendTcp` |
| `handle_udp_packet`, `handle_tcp_packet`, `cleanup_tcp_conn` | `RecvUdp`, `RecvTcp`, `DropTcp`, with `HandlePacket`; `ServerCloses` |
| `send_response_to_all_paths` | `Respond` |
| `process_udp_response`, `process_tcp_response`, `cleanup_tcp_session` | `RecvUdpResponse`, `RecvTcpResponse`, `ClientCloses` |
| `cleanup_expired_sessions` of both | `SourceExpires`, `ConnExpires`, `TargetExpires` |
| `Server::new`, `Client::new` | `ServerRestarts`, `ClientRestarts`: nothing is persisted, the maps are empty and the client has new sockets |

A datagram stays in `net_up` or `net_down` once it is sent: it may arrive never, late
or again. A connection delivers in order what was written until one end closes;
what is then in flight towards the closed end is lost. The payload of a packet, and of a response, is its
number, repeated as often as its length in `PayloadLen` and `ResponseLen` says, so that `passed`, `refused` and `returned` can be about packets and
not about sequence numbers, which repeat.

`LossyRelay` is the abstract specification: a packet passes at the one target session
its client session has, once; a response belongs to a target session and is returned once.
It mentions no path, window or number, and loses what it likes. `Promise` is
the mapping: an id's target sessions at all hosts together are its `open`
sessions, so that the address check of the configuration is part of
what makes the refinement hold (a mutant without it breaks it).

### The Go client

`GoClientTcp` has one source and one TCP endpoint: the goroutines are the listener, the
reader of each connection, the sweeper and `Stop`. `tcpSessionsMu` is a `RWMutex`
whose waiting writers keep new readers out; critical sections that cannot
block are one step (`LockAndUnlock`), the others keep the lock from step to step.
Frames to the server are counted; a response is three units (two bytes of length, the packet), so
that a deadline can expire between any two.

| Code | Actions of `GoClientTcp` |
|---|---|
| `handleListener`, `handleTCPTransport`, `getOrCreateTCPSession`, `sendTCPFrame` | `LRecv`, `LExit`, `LLookup`, `LLock`, `LDial`, `LDialFails`, `LMutex`, `LWrite`, `LWriteFails` |
| `handleTCPServerResponse` | `RLoop`, `RLength`, `RLength2`, `RPacket`, `RAstray`, `RDeadline`, `RError`, `RTouch`, `RTouched` |
| `cleanupTCPSession` | `RCleanup`, `RClose` |
| `sessionCleanupLoop`, `cleanupExpiredSessions` | `SweepTick`, `SweepLock`, `Sweep`, `SweepExit` |
| `Stop` | `StopCancel`, `StopListener`, `StopClose`, `StopReturn` |

### The Go server

`GoServer` has a goroutine for the UDP listener and one for each connection
(`task`), one for each session's responses (`handler`), the accept loop, the
sweeper and `Stop`. Each map has its own mutex, and no critical section waits for
the network except the dial in `getOrCreateSession`, which ends by itself; so each is
one step. The sweeper keeps `sessionsMu` from one removal to the next
(`SessionsFree`). Which sessions are idle is left open: any may expire at any time. A
goroutine looks at its context only between two rounds of its loop, where the
actions send it on with `Rest` or `Round`.

| Code | Actions of `GoServer` |
|---|---|
| `handleUDPListener`, `handleTCPListener`, `handleTCPConn` | `Read`, `DecodeFails`, `ReadFails`, `BadFrame`, `Accept`, `AcceptFails` |
| `getOrCreateSession` | `Lookup`, `CreateFindsOne`, `Create`, `CreateFails` |
| `handleUDPPacket`, `handleTCPPacket` | the above, then `Dedup`, `Forward` |
| `addUDPPath`, `addTCPPath`, `cleanupTCPConn` | `AddPath`; `Track`, `AddPath`; `Untrack`, `Unpath`, `Forget` |
| `handleTargetResponse` | `HandlerRead`, `HandlerDeadline`, `HandlerError`, `HandlerNumber`, `HandlerPaths`, `HandlerSend` |
| `sessionCleanupLoop`, `cleanupExpiredSessions` | `SweepScan`, `SweepRemove`, `SweepPaths`, `SweepExit` |
| `Stop` | `StopCancel`, `StopListeners`, `StopSessions`, `StopPaths`, `StopConns`, `StopReturn` |

`Stop` deletes what is noted of the connections and closes none of them: each is
closed by its own goroutine, which waits in a read until its client hangs up.

## 3. Runs

| Run | Instance | Shows |
|---|---|---|
| `dedup_filter` | numbers 0..7, size 3 | `IInv`, the abstraction, and that the lower edge never moves back, for every sequence of calls; that the Go window does the same |
| `rust_server_copies` | 2 interchangeable ids, a listener, a connection, 1 number, no time | first packets and copies of them on both paths at once; responses; the connection closing at any moment and its id given out again; `TargetSessions` is implemented |
| `rust_server_idle` | 1 id, a listener, 2 sessions, 2 ticks, timeout 1 | expiry at any moment and the session that follows; liveness |
| `rust_server_shutdown` | 1 id, a listener that receives nothing, a connection, 1 tick, timeout 0 | types; `stop` at any moment of packets over the connection, responses, and sweeps that remove a session |
| `rust_client_paths` | 2 sources, a UDP and a TCP server, 2 sessions, 1 connection, 1 tick, timeout 0, first id wraps | creation, expiry and responses on both paths; `SourceSessions` is implemented (the types are left to the next run and to the proof) |
| `rust_client_conns` | 1 source, 1 session, 2 connections of one key, `stop` | connections swept, failing, and cleaned up by key; liveness; `SourceSessions` is implemented where a connection follows another |
| `relay` | 1 source, one host with a UDP and a TCP endpoint or two hosts (refused), 3 packets of different lengths, 3 responses, 2 client sessions, 3 target sessions, 2 faults | frames are read as they were sent, in both directions; what is refused was overtaken or numbered by a session that is gone; `LossyRelay` is implemented |
| `go_client_tcp` | 1 source, 2 packets, 2 connections, a response on the first | `Stop` at any moment returns, connections closed, unless a server that does not read keeps the client jammed |
| `go_server` | 1 id, a listener, a connection, 1 session, 1 response | expiry, responses and `Stop` at any moment: which target sockets stay open, `Stop` returns once the clients have hung up, connections closed |

Three runs show that the code does not keep a sentence of the specification; the
properties are at the end of `RustServer` and `RustClient`, and `PROJECT.json`
quotes the sentence of each:

| Run | What happens |
|---|---|
| `rust_server_orphan` | a packet finds its session, the sweeper removes the session and its paths, the packet registers its path: it stays until a later session of the same id expires, if there ever is one |
| `rust_server_deaf` | a read error on the target socket ends the response handler, and the session stays in use without one |
| `rust_client_foreign` | a late response over TCP is taken for one of the source's next session |

Five more sentences are not kept, each visible in one place of the code and not given a
run. `spec.md` 226-228 has the server add a connection to the session's paths
when it receives a packet; the code does so only for packets that pass the window (`server.rs` 590), so that a connection
whose copies always come second is never a path. `spec.md` 214-216 has a TCP
connection's activity follow the responses; the client renews it when it sends only
(`client.rs` 630, 710), so that a connection that only receives is swept.
`spec.md` 26-30 has the client forward the responses that arrive for a session; but a server
that restarts, or expires a session, numbers responses from 0 again (`server.rs` 313), and a
client whose window moved on refuses them as ones it has returned. A request is protected by
the random first number (`client.rs` 286-289), a response by nothing; `UnheardExplained`
lets exactly this through. `spec.md` 187-193 has a
server that is told to stop close all connections and exit; the Go `Stop` closes
listeners and target sockets and then waits (`server.go` 688) for goroutines that read from connections
of clients that stay. The premise `<>[]HungUp` of `StopReturns` stands for this: without it
TLC finds the server waiting for good. And `spec.md` 237-240 has a shutdown close all sessions and their
sockets and clear all maps; but a goroutine of the Go server that is between its lookup and its second
look (`server.go` 259-297) when `Stop` closes the sessions creates one afterwards. Its handler ends at once, since
the context is cancelled; its entry in the map stays, and its socket until the process exits, which `main.go` lets happen after
`Stop`. `SocketsClosed` is what does hold: `stoppedAt` notes how many sessions there were when
`Stop` closed them, and only later ones may be open.

### Bounds, and why they suffice

`MaxSessions`, `MaxConns`, `MaxTime` and `MaxResponses` end what would grow for ever;
`Stoppable` keeps `stop` out of the runs that are not about it; `FirstCounters` are
the values the random id counter starts at. Each is a guard of one action
(`Create`, `Connect`, `Tick`, `MayRespond`, `Stop`). The hazards need few actors: two
tasks racing for a session, a session and its successor, a connection and the one
that follows it under the same key, one tick more than the timeout. In
`rust_client_paths` the counter starts at its greatest value, so that the first id
is the one that wraps. `IdMod` is larger than the number of sessions: a
behaviour in which 2^64 ids are used up is not considered. `SeqMod` is 1 where
a request's number plays no role. One number (`Seqs`, `RespSeqs`) and a window of
size 1 suffice where the question is whether copies of one packet race;
reordering and sliding are the subject of `dedup_filter`, and the proofs hold for
every set of numbers and every size. `MaxTargets` and `MaxFaults` bound the servers'
sessions and the expiries, breaks and restarts.

In `relay` three packets are enough for one to be overtaken by another and for a session to
be followed by the next: the first, with its header, is too long for a datagram and fits a frame, the second
fits neither, the third fits both. Of the three responses the second is too long for a datagram with its header and goes
over TCP only; all fit a frame, since the target sends datagrams (`server.rs` 449-450 casts
the length and does not look: 65507 + 12 is below 65536), which `RelayAssumption` says.
Two faults are enough for a session that expires here and is
opened again there, or a restart during it; `Draws` is the number at which the modulus
bites. Restarts of a program that has done nothing yet are left out
(the guards of `ServerRestarts` and `ClientRestarts`). The window, of two numbers, never slides past a packet that is still on its
way in these bounds: refusal of a late packet comes from packets before the first one seen, and sliding stays with
`dedup_filter`. Numbers do not wrap: the initial number leaves the upper
half of the range free and `RelayAssumption` keeps the packets below it.

In `go_client_tcp` two connections are enough for one that replaces the other, or
is dialed while `Stop` runs; only the first (`Answered`) carries responses, since a reader that touches sessions is
needed once. `UpCap`, what a connection takes when the server does not read, is 1. In
`go_server` one session suffices for a packet, a response, expiry and `Stop` to meet; with it the id
has had its session, and a later packet finds none and fails to create one. A session created after `Stop` closed the others is within these bounds, as the first one. In `rust_client_conns` `RespSeqs` is empty:
the readers see lengths and ends of streams only, since the question is about
connections.

Deadlock is checked in the runs of `DedupFilter`, `RustServer` and `RustClient`; the other three models stop by
themselves when their bounds are reached or `Stop` has returned. `Terminated` lets a system whose tasks have all
returned stay as it is; in the client it does the same for a listener that waits
beyond `MaxSessions` (`AtBound`).

### Fairness

Tokio runs a task that can run and grants its locks in the order of the requests,
so a task's internal steps are fair: weakly in `RustServer`, where no guard of such a
step is disabled again and again while the task waits, strongly in `RustClient`,
where lock waits are. A `select!` draws among ready branches, so the exits are strongly
fair. The server's sends to UDP paths and, in the client, an attempt to connect end
by themselves. No fairness is assumed of clients, sources, servers,
the target, the clock, the arrival of data, or a write to a TCP connection, whose
peer may never read; `InStreamWrite`, and `tsend` and `body` in `ToldTasksEnd`, say so in the
properties.

In `GoClientTcp` every goroutine is strongly fair: the Go scheduler runs it, a mutex does
not pass over a waiter for ever, a read ends with its deadline of one second at the
latest, and `net.Dial` ends. Nothing is assumed of the server: one that does not read lets the listener
stay in `Write` with the session's mutex. If the sweeper then waits for that
mutex with `tcpSessionsMu` held, `Stop` cannot get at the connection to close it. `StopReturns` and
`CancelledReaderReturns` are stated for behaviours in which this `Jammed` state does not last;
without that premise TLC finds the client stuck for good.

In `GoServer` every goroutine is strongly fair for the same reasons; a handler's read
of the target ends with its deadline or because the socket was closed, and nothing
makes an error of the target happen (`HandlerProgress`). A write to a connection that is open at both ends
is assumed to end only in the premise of `CancelledHandlerReturns` (`InStreamWrite`). Clients
hang up only in the premise of `StopReturns`. `Relay` has no liveness: its network may lose
everything.

## 4. Proofs

All proofs are checked by TLAPS from no assumption other than the named
`ASSUME`s on constants: sequence numbers are naturals, window sizes at least 1,
bounds naturals, names of listeners and connections disjoint. Two of them are
limits and not a choice of names: `IdsAssumption` (`MaxSessions < IdMod`) leaves out
a client that makes 2^64 sessions, whose ids would come round, and `RelayAssumption` the same,
sessions that send more packets than the initial number leaves room for, and 2^32 or more responses. `OptionsAssumption` says that the
client is started as one and a server as one. `BigEndian`, in `Codec`, is about the standard library: the bytes of
a number that fits its field give the number back; TLC evaluates it for the fields of the run `relay`. The other bounds
(`MaxSessions`, `MaxConns`, `MaxTime`...) are any naturals in the theorems.

**The window.** `MarkWellFormed`, `MarkRecords` and `DuplicateStable` say of
`is_duplicate`: what a window holds lies between its edges, a number it was called with is
a duplicate from then on, and a duplicate stays one. The last is where sliding
could go wrong: a number that is dropped lies below the new lower edge.
It rests on `SlideAdvances`: the window slides only when it holds more than `size`
numbers, so by `IntervalBound` (an interval has as many numbers as its edges say)
the new lower edge is not below the old one. `IInvHolds` and
`WindowImplementsLateFilter` are about the window in use: the invariant
says that the window remembers exactly the accepted numbers at or above its lower
edge (`Remembers`) and how far the edge may move (`Span`); with both, a number that is refused is either accepted
before or too late in the abstract sense.

`GoMarkSame` rests on the same lemma: when the Go window slides, its newest number is at
least its size, so `maxSeq - size + 1` does not wrap; `GoWindowIsTheSame` states it for every state
a window in use can reach.

**The server.** `IInv` is inductive for every number of ids, tasks, sessions and
numbers. `AtMostOnce` alone is not inductive: it says nothing of a packet between
the window and the target. `PassedOnce` does: a task past the window holds a number
that the window has recorded and that was not sent, and no two tasks hold the same
number of the same session; `ForwardedOnce` says that what was sent is
recorded. `Dedup` preserves the first because a recorded number is a duplicate
(so the second copy stops) and stays one while other numbers pass
(`DuplicateStable`); `Forward` exchanges the first for the second.
`OneTargetSocket` needs `SessionOwner`: the session an id leads to was made
for it; `Create` is guarded by the second look at the map, and `SweepRemove` cancels
what it removes.

`ResponseRouting` is in a module of its own, with `RoutingInv` as the invariant. It
follows a path from the packet that brings it: a task still handling a packet has
the id and the address of one that arrived (`PacketHeard`), so the path it registers
is one heard for that id (`PathsHeard`), and so is what a handler copies from
there. Removals, by the sweeper and by connections that end, only shrink what is
registered; a handler's copy outlives them, which is why `heard` keeps what is gone.
The run `rust_server_copies` checks the property, and `AtMostOnce` and `ImplementsTargetSessions` with it, with two ids and
without expiry (`MaxTime = 0`); the theorems cover expiry as well.

**The abstract server.** `ServerImplementsTargetSessions` uses `IInv`: `Create`
opens a session that was not opened before because sessions are numbered in
the order of creation; `Forward` sends a number for the first time because of `PassedOnce`;
`SweepRemove` closes, or does nothing if the id has lost its session. Every other
action leaves the three abstract variables alone, one lemma per kind of task.

**What the server forgets and numbers.** Three properties needed invariants of their own, in
`RustServerRouting`. `ResponsesNumberedApart` is about every number ever drawn from a session's counter
(`numbered`), whichever handler drew it: that of an expired session draws from the counter of a later session of the same
id. It rests on `NumberedBelow`, that the counter has left all of them behind; since `fetch_add` is one step, the
number drawn next is new. `EndedConnForgotten` rests on
`ForgottenFirst`: `Untrack` comes before the paths are removed, and the connection's task, which alone notes
it for an id, handles no packet after that. `SweepRemovesIdle` is about the steps of the sweeper, between
which packets go on. A session that is removed was found idle by the scan, and has not been
found in the map by anybody since (`idle`): `ListedIdle` says this of the list while it is worked off, and holds because the
sweeper keeps `sessions` locked and all who look a session up need the lock. That is all that holds. A task that
found the session before the scan goes on using it, and the time it then writes to `last_activity` does not save it:
it was read before the lock was awaited and may be older than the sweep, or newer and too late. The packet still
reaches the target, the session's next response finds no session.

**The client.** There are layers. Over the types, `SessionInv` speaks
of sessions and maps. `ReverseMapAgrees` says nothing while the listener or the sweeper is between the two
updates; `MapsInLine` says what holds there too: which entry is missing, or left
over (`LeadsTo`). It needs `SessionOwner` (an entry leads to a session made for its source) and `OneWriter`:
nobody else touches the entries in question, since the lock of `udp_sessions` is held. `IdsCounted` is why ids are distinct
although the counter wraps: they are the last values of the counter, in order (`Back`),
and `MaxSessions < IdMod` keeps it from coming round; 0 is stepped over.
`RoutingInv`, over it, says of every place that keeps a session id and a source, the reverse map, the ids sent on a
connection, the locals of a receiver, that some session with this id was made for this source. Sessions are never renamed, so this stays true when the
session expires, and `ResponseToOwner` follows with `IdsDistinct`. `OneConnPerKey` is inductive with
`ConnOwner`: `CleanupTcp` goes by key and may remove a newer connection
than the reader's own, but cancels whatever it removes. `JudgedBySource` is the part of `ResponseToOwner` about
the window: a receiver looks a session up by the source, uses it later, and it is still one of that source's. `ResponseInv`
is the argument of `AtMostOnce` again: a receiver past the window holds a recorded number, and no two hold the same.

**The abstract client.** `ClientImplementsSourceSessions` brings these together. Seven actions are steps of
`SourceSessions`, all others are stutters. `Create` opens a session: the listener still finds none in the map
(`OneWriter`), and the id is new because `IdsDistinct` holds after the step. `SweepRemove` closes one.
`Connect` dials: by `ConnOwner` the map has no connection under the key, so by `OneConnPerKey` every earlier
one was told to close. `CleanupTcp` and `SweepTcpRemove` tell connections to close. `SendTcp` writes an id to a connection,
perhaps one that was told to close since it was looked up, but one of the session's own source
(`ConnOwner`, `SessionOwner`). `Forward` returns a number for the first time (`PassedOnce`). In the mapping (`Promise`) the sessions and connections there were are the numbers up to `created` and `opened`, and those that go on are the
connections not cancelled. Neither the maps of connections and ids nor the two locks occur in the
abstract specification.

**The Go server.** `SocketInv` carries `SocketsClosed` together with the types and with `WindowsOK`.
That an open socket is the one its id leads to is a matter of the second look at the map in `Create` and of the
sweeper closing what it removes; both are steps under `sessionsMu`, and no goroutine's stale session
can put an entry back. That `Stop` leaves open only what is created after it closed the sessions follows from their
being numbered in order: what is opened later has a number above `stoppedAt`. `GoWindowsAgree` combines `WindowsOK` with `GoMarkSame`: in no reachable state does the
unsigned subtraction of the Go window wrap. `GoReturnedClosed` needs `ClosedInv`: a connection is open only while a
goroutine serves it (`OpenServed`), and a goroutine that has returned does not come back (`AllReturned`), although
the acceptor may start others until the listener is closed.

**The Go client.** `GoClientReturnedClosed` is not obvious, since a reader's clean-up closes whatever is in the map
under its key, and a connection dialed during `Stop` is closed by nobody at first. `OpenHasCloser` says that
an open connection is in the map, or in the hand of a reader about to close it; `CleanedUp`, that a reader
which has been through the clean-up has not left its own connection in the map; `DialsAlone`, that
the listener, which looked before it waited for the lock, still finds no session when it has it.
When all readers have returned, an open connection would have to be in the map with its reader cleaned up.

**The relay.** `RelayInv` has three parts over the types. `Carried` is about what is on the way: every
datagram is the encoding of a packet that was sent or of a response that was given (`InFlight`), and a stream is a chain of whole frames
of such packets, those of one session before those of the next (`StreamsOK`); cutting the first frame off a chain
leaves a chain, and appending a frame to one makes one. That decoding gives back what was encoded follows from
`BigEndian` and from lemmas about sequences that are put together and cut. `Remembered` is about who knows what: nothing is
passed or returned in a session before it exists (`Unborn`), an id has target sessions at one
server at most (`OneOwner`), and what has passed, or was returned, is a duplicate to the window of its session
(`PassedRecorded`, `ReturnedRecorded`); the window's own lemmas keep this. `PathsServed`
says that a path over a connection is of no session newer than the last it served; closing
the connection removes the path of that one, and the order of sessions in a stream is why no older one comes back.
`FramesReadIntact` and `DeadPathsOld` follow from it: the first frame of a chain is whole, is an encoding of what was sent on the connection, and
decodes to it.

`RelayImplementsPromise` goes through the steps. A packet of the source is `Send`. The handling of a packet is `Pass` if
the window lets it through and the target takes it, and a stutter otherwise, and may open a target session: it is the only one of its id
because all servers of the client are at one host (`ClientServersShareHost`), and the one session is new because target
sessions are numbered in order. `Respond` is `Answer`, a response the window lets through is `Return`,
in whatever session the source has: over TCP nothing looks at the id of a response. An expiry and
a restart of a server are `Close`; what breaks a connection, and a restart of the client, is a stutter.

Neither of these says why a packet is refused. A window compares numbers, `RefusedOnlyLate` speaks of the order of
sending, and `Explained`, inductive over `RelayInv`, connects the two. A session's numbers follow each other
and do not wrap, so that two of them differ as their places in the session do (`Consecutive`, by counting
what the session sent). What passed at a target session is of one client session (`OneOrigin`): a
server has a target session per id, and ids are distinct. The window holds numbers of packets that passed, and its lower edge is the first that
passed, or a window behind one that did (`WindowsExplained`): the two ways `is_duplicate` sets it. `RefusalsOnlyLate` then
distinguishes why the window refused. A number it holds would be that of another packet that passed, in the same place of the same session: there is none. A number
below the edge is below that of a packet that passed, which was therefore sent later, or a window below one.
For `UnheardIsExplained` the numbers that count are those the
target sessions gave (`AnswersNumbered`), and the window of responses holds numbers of what was returned
(`ResponsesHeld`) only; that those may be of another target session is the case described after the findings.

**The configuration.** `ClientServersShareHost` and `ServerDefaults` follow the branches of `load`. The
first is used in the refinement above; the second gives what `RustServer` and `Relay` assume of their window's size.

**Only model-checked.** The liveness properties (`CancelledHandlerReturns`, `IdleIsSwept`, `StopDrains`,
`ToldTasksEnd`, `StopReturns`, `CancelledReaderReturns`) are out of the prover's reach. So is `BigEndian`
for fields of any width, an induction over the bytes. Every invariant and every action property that a passing run checks
is a theorem.

## 5. Not modelled

Logging, sizes of buffers, the text of addresses and durations, and reading the configuration
file: no property here depends on them. `main.rs` turns flags into `Args`, starts one of
the programs and calls `stop` when interrupted, after which it returns without
waiting for the tasks; the models look at the tasks, not at the process. Session
numbers above the first half of the 32-bit range, and their wrap, are not
considered.

Of the Go program: a start that fails half-way, the address of a UDP path, which is replaced
in place, and the numbers of responses in the server; the UDP sessions and receivers of the client;
its codec and configuration, which repeat the Rust ones. In `Relay`, several sources and the interleaving of
tasks, which are the matter of `RustClient` and `RustServer`.

Two sentences of `spec.md` are stricter than the code and its unit tests intend,
and are not listed as findings: a packet that "has not been seen before" (46-52) is
refused when it comes before the first one seen (`server.rs` 62-64), and the
"number of sequence numbers to track" (157) bounds the span of the window only
when it slides. The abstract filter states what the code keeps instead.

## 6. Plan

Done: the window, the Rust server, the Rust client, codec, configuration, the relay,
the Go server, the Go client's TCP side; proofs of the window and the configuration, of every safety property of
the Rust server, the Rust client, the Go server and the Go client that a run checks, of those of the relay, and
of the refinements of the window, the server, the client and the relay. What may follow: the UDP side of the Go
client, and the steps of several sources in `Relay`.
