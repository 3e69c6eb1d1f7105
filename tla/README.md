# tunshell in TLA+

Models, model-checking runs and machine-checked proofs for the tunshell client
(`src/tunshell-client`), the relay server (`src/tunshell-server`) and the message
streams they share (`src/tunshell-shared`).

Two hosts start a client each, with the two keys of one session. Both clients connect
to the relay server, which pairs them. They try to reach each other directly, by TCP and
by a reliable byte stream of their own over UDP; if neither works the server relays. Over
whatever stream they get, encrypted end to end, one client serves a shell and the other
shows it, and TCP connections and UDP datagrams may be forwarded through the same session.

All paths below are relative to the repository, `C/` stands for
`src/tunshell-client/src/`, `S/` for `src/tunshell-server/src/relay/server/`.

## 1. The system

| component | source | state | operations | modelled in |
|---|---|---|---|---|
| UDP connection | `C/p2p/udp/{connection,state,orchestrator,sender,receiver,resender,congestion,packet,seq_number}.rs` | sequence and acknowledgement numbers, two windows, packets received ahead, reassembled payloads, packets sent and not acknowledged, a channel of events, packets waiting for the window | read, write, shutdown; send loop, receive loop, keep-alive, receive timeout, one resend timer per packet | `UdpConnection`, `SeqNumber` |
| UDP negotiation | `C/p2p/udp/negotiator.rs`, `state.rs` | the connection state and its first numbers | hello, second hello, sync, answer, failure, timeout | `UdpNegotiation` |
| UDP lifecycle | `C/p2p/udp/{orchestrator,connection}.rs` | who holds the mutex, wakers, terminator channels | poll_read, poll_shutdown, drop, try_disconnect, end of either loop | `UdpLifecycle` |
| Relay server | `S/{mod,connection,relay,message_stream,session_validation}.rs` | connections being accepted, waiting connections by key, pairs | accept, key, wait, pair, direct attempt, relay loop, expiry, goodbye | `RelayServer` |
| Client session | `C/client.rs`, `C/stream/relay_stream.rs` | where `start_session` is | send key, wait, bind, attempt, relay, close | `RelaySession` |
| Direct connection | `C/p2p/tcp.rs`, `C/client.rs` | sockets and backlogs of both hosts | connect, accept, timeout, choose a stream | `DirectConnection` |
| Joining | `C/client.rs`, `C/server/{dual_stream,tcp_stream,ring_tls_stream}.rs`, `S/{tls,ws,mod,session_validation}.rs`, `db/session.rs`, `api/routes/create_session.rs` of the server | backlog, the one handshake under way, the listeners' channels, ping tasks, the stored session | connect by TLS, else by websocket; accept, handshake, queue, key, answer, stop | `Joining` |
| Encrypted stream | `C/stream/aes_stream.rs`, `src/tunshell-shared/src/{message_stream,message}.rs` | cipher in progress, frame that waits, bytes that wait, on either side | poll_write, poll_flush, poll_shutdown, poll_read, poll_next | `EncryptedStream` |
| Shell session | `C/shell/client/mod.rs`, `C/shell/server/{mod,pty}.rs` | phases of both sides, two bounded channels, two tasks, terminal, program, exit status | authenticate, start, stdin, stdout, exit, drop | `ShellSession` |
| Fallback shell | `C/shell/server/fallback/` | line, cursor, history; two byte channels; the process of a command and its pipes; the exit code | type, parse keys, edit and redraw, run, feed, kill, builtins, exit | `LineEditor`, `FallbackShell` |
| Remote PTY | `C/shell/{server,client}/remote_pty.rs` | the file bash is saved in, the socket's name, bash; write halves of a unix socket's connections, read channel; the client's demuxer | download, save, bind, spawn; accept, read, data, exit, connect, payload, close, answer | `RemotePtyStart`, `RemotePty` |
| Port forwarding | `C/shell/network.rs` | connection ids, pending connections with writes that wait, open halves; a UDP binding's last peer and datagrams that wait; the channels to the shell's loop | accept, connect, result, send, close, read; set-up, receive, send to | `PortForwarding`, `UdpForwarding` |
| Others | terminal adapters, crypto back ends, bytes of the TLS and websocket adapters, HTTP layer, command line, website | | | not modelled, see 8 |

How they interact. A client gets to the server, and its key to the server's loop, in
`Joining`; from there `client.rs` talks to `S/connection.rs` in messages over TLS
(`RelayServer`'s channels `toServer` and `toClient`); when the pair reaches
`AttemptDirectConnect` it runs `DirectConnection`, whose UDP branch is `UdpNegotiation`
followed by `UdpConnection`. The stream that comes out is wrapped by `EncryptedStream`
and carries `ShellSession` with a PTY or with `FallbackShell`, or `RemotePty`, and
`UdpForwarding` with `PortForwarding`. Each layer is checked against what the
one below promises: an ordered stream that may end (`ReliableStream` for UDP,
`RelayedInOrder` for the relay).

What is hard. A UDP connection is six kinds of tasks around one mutex and one channel,
over a network that loses and reorders. Negotiations are symmetric exchanges where each
side may fail alone. The relay's accept, pair and relay tasks race with clients that
leave. The shell has two blocking threads, an event loop and a process, coupled by
bounded channels and an unlocked flag; its fallback is a line editor whose keys, redraws
and line ends are cut up by payloads and channels at any byte. The list of hazards, each with its line and the
properties that would notice, is in `PROJECT.json`.

## 2. Modules

```
SeqNumber  <-- UdpConnection <-- MCUdpConnection <-- MCUdpStages
   ^              ^                                       refines ReliableStream
   |              +-- UdpConnection_proofs <-- UdpStream_proofs
   +-- UdpNegotiation  (MCUdpStages)                      ends where UdpConnection's Init starts
             ^-- UdpStages_proofs
             v
UdpLifecycle  (MCUdpStages)                             below UdpConnection: locks and wakers
Joining  (MCStreams)                                    ends where RelayServer starts
RelayServer <-- RelaySession <-- MCRelaySession         server composed with its clients
                     ^-- RelaySession_proofs
DirectConnection                                        what "attempting" means in RelaySession
EncryptedStream <-- MCStreams                           between the tunnel and what follows
     ^-- EncryptedStream_proofs
PortForwarding <-- UdpForwarding                        TCP connections, then datagrams
     ^-- Forwarding_proofs
ShellSession <-- FallbackShell <-- MCFallbackShell      the session with another shell
                   ^   +--> LineEditor                  pure: keys, line, terminal
                   +-- ShellSession_proofs
RemotePty <------ MCRemotePty
RemotePtyStart <----+                                   ends where RemotePty's Init starts
     ^-- RemotePty_proofs (both)
```

An arrow is an EXTENDS, a module in parentheses an INSTANCE in that module. Most MC modules
only give small values to constants. A module whose name ends in `_proofs` holds theorems
about the modules it extends and is used by no other model. `MCUdpStages`, `MCStreams` and `MCRemotePty` put
models side by side that follow each other in the system: a behaviour is one of either
model while the other stays in its initial state, so one run answers for both; they do
not pass state from one to the other. The names of variables and actions
are the code's names for fields, functions and `select!` branches wherever it has one;
`PROJECT.json` maps every definition to its lines. An operator whose comment begins with
"Mutant" is not part of a specification: it is a plausible mistake in the definition
that follows it, kept to show that a property would catch it.

### UdpConnection

One variable per field of `UdpConnectionVars` that the protocol reads, for each of the two
peers; `running` is the `State` of `UdpConnection`; the tasks are `posting` (a writer or
timer that has made its packet under the mutex and not yet sent the event), `events` (the
channel of `SendEvent`s), `updating` (the update that `wait_for_next_packet` holds back),
`waiting` (the futures of `wait_for_next_sendable_packet`), `resending` (a timer between
its two uses of the lock). A step is what one task does between two awaits or while it
holds the mutex.

| action | code |
|---|---|
| `Write`, `Read`, `Shutdown`, `Post` | `poll_write`, `poll_read`, `poll_shutdown` in `connection.rs`, and the sending of the event after the lock |
| `TakeUpdate`, `TakePacket`, `TakeClose`, `MakeUpdatePacket`, `SendPacket`, `KeepAlive` | `sender.rs`, `handle_send_packet` and `handle_keep_alive` of `orchestrator.rs` |
| `Receive`, `RecvTimeout` | `receiver.rs`, `congestion.rs`, `handle_recv_packet`, `handle_recv_timeout` |
| `ResendTimer`, `ScheduleResend` | the task that `resender.rs` spawns for every packet kept |
| `Lose`, and the copy `Receive` may leave | the network |

Bytes are numbered by position so that loss, repetition and reordering show. The network
is a set of datagrams for each peer: any of them may arrive next. Sequence numbers count
modulo `SeqModulus`, 2^32 in the code. Time is left out; a timer may fire whenever it is
armed, but one that fires while its packet or acknowledgement is still under way counts
as a fault, and the keep-alive (30 s in the code) fires only when nothing is under way.

### UdpNegotiation, UdpLifecycle

`UdpNegotiation` is `do_connect`: one state of `UdpConnectionState` per peer, plus
"Panicked" where an assertion of `state.rs` fails. It goes on into the first packets of the
established connection, because a repeated sync packet ends it.
`UdpLifecycle` looks at one side of an established connection and takes everything else as
arbitrary: who holds the mutex (`try_lock` fails while anybody does), which wakers are
registered, and which loop has ended.

### RelayServer, RelaySession, DirectConnection

`RelayServer` has a task per connection (`accepting`), the server's loop, which alone
changes `waiting` and starts pairs, and a task per pair, whose `stage` is the await it is
at. Channels are sequences; `Eof` ends them. `RelaySession` adds the clients; two of them
may present the same key, any may fail at any time. `DirectConnection` is what happens
between `AttemptDirectConnect` and the two answers.

### Joining, EncryptedStream

`Joining` has a client that tries TLS and then a websocket (`ServerStream::connect`), hosts
that connect to either listener and say nothing, the TLS listener's task with one handshake at a time and its
bounded channel, the websocket listener, the pings that hold a dropped websocket, a task per
connection that waits for its key, the server's loop and its stop. A socket's `place` says who
holds it at the server.

`EncryptedStream` follows the nested `poll_write`s and `poll_read`s: the tunnel's stream may
take or give any part of a buffer, be pending, end or fail anywhere, the cipher may be
pending. A message is its number and its length, cut into units when it is a frame or a
decrypted buffer, so that a piece, a repetition and a hole show. Of the stream's other direction it
has what this one shares with it: the `closed` flag of a `MessageStream`. A write error of the
reader's own stream (`OwnWriteFails`) ends its reads, and an end of the writer's own reads
(`ReadHalfEnds`) fails its writes. A frame has fewer units than bytes; lengths decide
only whether the message serialises and whether its frame does.

### ShellSession, LineEditor, FallbackShell

`ShellSession` has the client and the server of a session, the blocking reader and writer of
`pty.rs`, their channels, the terminal and the program. `exit_shell` is called by reader, writer and
the drop; each looks at the status without the lock, takes the lock, waits (or tries to wait, and
kills) and sets the status, in steps between which the others go on. `LineEditor` is what is pure in the
fallback shell: how bytes become keys (`input_stream.rs`), what a key does to line, cursor and
history and what is written to redraw (`interpreter.rs`), how line ends are converted
(`output_stream.rs`), and what a terminal shows of it: a tab, a control character or a character of
two bytes does not take one column for each byte (`NotOneColumn`), while the editor
counts bytes. `FallbackShell` keeps the client
and the server's frame of `ShellSession` and puts the fallback shell in the place of the
PTY: the interpreter's task, the two byte channels, whose lock is only held between
awaits, and the process of a command with three pipes. The tunnel is bounded there (`ClientFree`,
`ServerFree`): a loop that awaits `stream.write` inside a branch of its `select!` reads nothing
until the message is out.

### RemotePtyStart, RemotePty

`RemotePtyStart` has targets that share a directory and therefore the file `bash-rpty`; each
may be killed at any step and started again. `RemotePty` has the server's loop with a
reader task per connection, the client's loop with its `ChannelDemuxer` and a `streamed_to`
task per connection, and the tunnel between them; the programs that connect and the library
that serves the terminal (`remote_pty_master`) may do anything the sockets and channels allow.

### PortForwarding, UdpForwarding

`PortForwarding` has a `NetworkPeer` on each side with the same id spaces and hash maps as
the code, and the applications at both ends. `UdpForwarding` adds a UDP binding and what
lies between the peers: a bounded channel each way between a `NetworkPeer` and the shell's
loop on its side, and a bounded tunnel. A `NetworkPeer` and a loop each wait inside their
`select!` arm for room. A session of the run forwards TCP or UDP.

## 3. The runs

Twelve runs; every property of a passing run has a mutant of the code that violates it.

| run | instance | what it shows |
|---|---|---|
| `udp_safe` | 2 bytes one way in packets of up to 2, with 2 faults and a receive timeout; or 1 byte each way, one end shutting down, the other timing out; window 8, sequence numbers that pass the wrap-around (modulus 32, starting at 27, so that a packet may straddle it) | `ImplementsStream`: each step is one of the abstract stream or invisible. `NoByteForgotten`: until received, a byte is in a packet some task still holds, and the counters of a direction stay ordered. `SentPacketsFit`: no packet is refused for lying beyond the window, and kept packets wait for a gap, except behind a copy of a packet that straddles the wrap-around (see section 6). `TransitWindowBounded`, `TypeOK` |
| `udp_stages` | opening: two random numbers, one of which wraps, 2 faults; transferring: 2 bytes one way, 1 fault; ending: three failing `try_lock`s | `ConnectedPeersAgree`: two connected peers are exactly in `Init` of `UdpConnection`. `HalfOpenEnds`: the half open connection a lost sync packet leaves ends. `WrittenIsDelivered`: what is written arrives, or the connection ends. `EndedIsDisconnected`: a connection whose loops have ended is disconnected unless two attempts met a taken mutex. `LoopsEndTogether` |
| `udp_stall` (violation) | 3 bytes in packets of 1, a window of 7 | finding 1 of section 6 |
| `relay_session` | three clients, two with the same key, two payloads one way | `NeverBothWaiting`, `PairsAreSessions`, `StreamsAgree`, `RelayedInOrder`, `PeerFailureIsNoticed`, `AcceptedIsNotForgotten` |
| `relay_fallback` (violation) | two clients, nobody fails or leaves | finding 2 of section 6 |
| `direct` (violation) | two hosts that can both be reached | finding 3 of section 6 |
| `forwarding` | TCP: listeners on both sides, one connection each, two payloads; UDP: two applications, three datagrams each way of which one is too large, channels and tunnel of one message | `ForwardedInOrder`: bytes keep their order, and none is lost when both halves of a connection end in order. `NothingIsLeftBehind`: an accepted connection is always about to be decided, and no half of a finished one stays. `DatagramsInOrder`: what was read is sent on once, on its way in one place, or waiting. `DatagramsAreForwarded`: it is sent on, unless channels or tunnel are full both ways |
| `streams` | one client and a silent host on each listener, channels of one connection; two messages of a length that fits, one whose frame does not, one that does not serialise, twice pending, failures of the streams below and of the other direction | `EveryConnectionIsDecided`: whatever its host does a connection is handed to the relay or closed, and a client that sent its key hears of it. `ReceivedInOrder`, `FlushedIsSent`: whole messages in order, and a flush that succeeds leaves nothing. `CleanEndIsComplete`: an end without an error comes after all that is in the tunnel, unless the reader's own stream has failed to write. `WritesAndReadsReturn` |
| `encrypted_once` (violation) | three messages that fit, twice pending | finding 4 of section 6 |
| `shell_session` | four payloads typed, two bytes of output, channels of 1 and 2 places, a terminal of 1 | `StreamsInOrder`: input and output keep their order and an exit code comes after all output. `StatusIsFinal`: until the shell is dropped its exit status is not replaced, whoever looks and locks in which order. `EndIsNoticed`, `ExitIsReported`, `ProgramEndsWithSession` |
| `fallback_shell` | lines edited over a history of one line by three keys, commands that write or do not read, keys and characters cut in two by payloads, a tunnel that holds one message each way, clients that leave, also while a program runs | `DisplayAgrees`: at the prompt the terminal shows the line that is edited with the cursor where the editor has it, as long as every byte typed takes one column and no program has written an escape sequence or control character. `KeysAreWhole`, `OutputIsConverted`: keys and line ends survive any cut. `KeyIsTaken`: a key is taken unless the interpreter waits for a process or has died, or the tunnel is full both ways (`TunnelStuck`). `SessionEnds` |
| `remote_pty` | starting: two targets in one directory; streaming: two connections, two payloads each way | `BashIsWhole`: no target executes half a bash because another one writes the file. `SocketsAreRemoved`. `StreamsInOrder`: each end is given what the other wrote to the same connection. `NoIdIsUnknown`: the demuxer never meets an id that is taken or unknown, and the server fails on data only for a connection its program has closed. `SessionEndsTogether` |

### Bounds

Every bound is a constant, marked "bound" where it is declared.

- *UDP*. `Bounds` holds what an environment may do; a behaviour starts with one of them. Packets of at most two bytes and a window of four packets' worth are the smallest
  that give several packets in flight, a packet that straddles the wrap-around, a window
  that closes and reopens, and a shrinking congestion window. Two faults give a lost packet
  with a lost or late resend, and the duplicate of a packet already acknowledged.
  `ResendLimit` is 2 (10 in the code), so the limit itself is reached. Window plus
  traffic stay far below half the modulus, as in the code they stay below 2^31.
  `DirectConnection`'s hosts, the negotiation's peers and a session's participants are two
  in the code as well.
- *Relay*. Three connections with two keys give a session joined twice, a
  successor that takes the place of a client that left, and two pairs one after the
  other. Two payloads from the participants of one side are enough to be
  delivered to the wrong client, dropped, repeated or swapped; the relay's loop treats the
  two directions alike. `relay_fallback` sends none.
- *Shell*. A terminal of one place, channels of one and two places and four payloads are
  the smallest with which every buffer between client and program is full at once, so
  that `shell.write` blocks the loop; two bytes of output fill the reader's channel, and
  one of them stays in `recv_buff` when both are taken at once (three, with which the reader
  waits for room, were checked once, 596056 distinct states).
- *Remote PTY*. Two connections can be mixed up; two payloads to one can be swapped, and
  one to each can overtake a close.
  Two targets of one directory are a writer and a reader of its file in every order; the
  same holds of three (checked once, 4.9 million states) and, by the proof, of any number.
- *Encrypted stream*. Two pending polls fall at every combination of cipher, frame, flush and
  read; two messages are one that is refused and one that is sent after or before it (three were checked
  once, 555788 distinct states); frames and decrypted messages of three and two units read two at a time give
  every cut. The lengths are one that fits, one the frame cannot hold, one no message can.
- *Joining*. One client, which uses both of its transports, and a host that says nothing to one
  of the listeners or to both compete for the one handshake and the one place in each channel.
- *Fallback shell*. A history of one line and keys that insert, delete and move reach
  every case of `refresh_line`; a payload boundary at each byte of the two key sequences
  and of two-byte characters is in `Cuts`. The clients that may leave at any step are those that type a `Cuts` script
  or one of `LeftAlone`, where a program writes, is fed or does not end, or the shell exits. `MaxInFlight` is one
  message each way, so that `Fills` and `Talks` fill the tunnel. The client and the server's frame are
  those of `shell_session`, with channels of one place.
- *Forwarding*. Two payloads may be pending before a connection is decided. Channels and
  tunnel of one message fill up with the three datagrams each side may read: one is
  carried, one queued, one offered.

### Fairness

`MCUdpStages`, `MCStreams` and `MCRemotePty` state the fairness of the models they hold, or less: of the relay
server's tasks in `MCStreams`, only that one of them goes on while any can.

- `UdpConnection`: weak fairness of each task of the runtime, and of the network for a
  datagram it keeps. The keep-alive is enabled only between other steps, hence strong; the
  code's interval timer fires whatever else happens. Nobody has to write or shut down.
- `UdpNegotiation`: sends return and every wait ends, by a message or its timeout.
- `UdpLifecycle`: strong fairness where a lock must be taken (`std::sync::Mutex` held for
  short sections by threads that release it), weak otherwise. That a loop is stopped by
  its terminator is fair, that anything arrives is not.
- `RelaySession`: clients read what is there, and the server goes on while any of its tasks
  or loop can. A behaviour has finitely many steps of the server and of reading clients
  (everything they do is bounded by the messages and connections there are), so this is as
  strong as fairness of every task. No timer has to expire: what the run shows does not
  depend on them.
- `EncryptedStream`: a write or a read that was started is polled again when it is woken.
- `Joining`: the client goes on with what it waits for until a timeout or an answer; the
  listeners, the loop, and the task of each connection run. A host need not say anything.
- `UdpForwarding`: the `NetworkPeer`s and the loops run. No datagram has to come.
- `FallbackShell`: the interpreter's two waits, the server's and the client's loops run, and the client
  notices the server's end. Nobody has to type; a process need not read, write or end.
- `RemotePtyStart`: none, its properties are of safety.
- `RemotePty`: the two loops run. No program has to write, close or exit and the library need
  not answer; `select!` chooses at random, so that no branch is passed over for ever.
- `ShellSession`: every task runs. The user need not type, the program need not read,
  write or exit, except that one which has closed its terminal exits in the end. The
  client's failure is fair only where it is a timeout or the end of the tunnel.

## 4. What is proved

TLAPS checks the proofs for every value of the constants that meets the named
assumptions; they state only what the types and configuration defaults of the code
guarantee:

- `SeqModulusAssumption`: at least four sequence numbers;
- `PeersAssumption`: exactly two peers, first numbers in range;
- `SizeAssumption`: a packet has room for its header and a byte, and both initial windows
  for one packet;
- `NegotiationConstants` (an assumption of the theorems themselves): two peers, one of them the
  master, first numbers in range;
- `ServerAssumption`: the keys of sessions come in pairs, each the other of its other;
- `NobodyAssumption`: the model's placeholder for "no peer yet" (`None` in the code) is no connection;
- `ShellAssumption`: channels, buffers and the terminal have at least one place;
- `ForwardingAssumption`: two different sides, of which any may listen and write, and any number of
  connections and payloads;
- `StreamAssumption`: a frame, a decrypted message and a read have at least one unit;
- `BoundsAssumption` (`RemotePty`): any number of connections and payloads;
- `FallbackAssumption`: what is typed and what a process writes are bytes, and a byte is none of the
  symbols the model has for the two cursor movements and the prompt; a pipe and the tunnel have
  at least one place.

Three theorems have a hypothesis of their own, one of two, that bounds what the environment does:

- `NumbersSuffice`, for `LedgersBalance` and `StreamIsReliable`: each direction writes fewer bytes than
  a third of the sequence numbers (less two). The model's network may keep a datagram for ever and
  deliver it once its number is in use again, so that without such a bound the statement is
  false, of the model as of the code. A real network forgets datagrams long before 2^32 bytes have passed.
- `NumbersInHalf`, for `NothingForgotten`: the same of half of the numbers. A comparison of numbers
  decides for at most half of the circle, and an old acknowledgement must still compare as old.

| theorem | says | argument |
|---|---|---|
| `SeqOrderTotal` | `partial_cmp` answers consistently both ways round, for every two numbers of every modulus | linear arithmetic about half the range |
| `SeqGtAsHandedOut` | a number handed out later is greater while fewer than half the numbers lie between | wrapping subtracts the modulus at most once (`WrapsOnce`) |
| `TypesAndWindows` | `Spec => []IInv`, `IInv == TypeOK /\ TransitWindowBounded` | see below |
| `TypeCorrect`, `TransitWindowStaysBounded` | the two parts, as checked by `udp_safe` | from `TypesAndWindows` |
| `OneWaits` | `Spec => []ReapedOnce`: at most one of reader, writer and drop holds the PTY shell, and a status is that of a program that has exited, except after the drop | see below (`StatusInv`) |
| `StatusStaysFinal` | `Spec => StatusIsFinal`: until the shell is dropped the exit status is not replaced | from `OneWaits` |
| `PoolsAreSound` | `Spec => []PoolsInv` for any connections, keys and payloads | see below |
| `NobodyWaitsInVain`, `PairsStaySessions` | `NeverBothWaiting` and `PairsAreSessions`, as checked by `relay_session` | from `PoolsAreSound` |
| `StreamsAreSound` | `Spec => []StreamsInv` of `RelaySession` | see below |
| `JoinedUseOneStream` | `StreamsAgree`, as checked by `relay_session` | from `StreamsAreSound` |
| `WholeBash` | `Spec => []BashIsWhole` of `RemotePtyStart`, for any number of targets | `FileInv`, see below |
| `NoSocketStays` | `Spec => []SocketsAreRemoved` | inductive: a step that leaves the stages which remove the socket removes it or counts the target as one that could not |
| `NegotiationHolds` | `Spec => []NegotiationInv` of `UdpNegotiation`, for any first numbers, losses, copies and failed sends | see below |
| `ConnectedPeersStartAlike` | `Spec => []ConnectedPeersAgree`: the invariant that `udp_stages` checks, as `UdpNegotiation` defines it | from `NegotiationHolds` |
| `LedgersBalance` | `NumbersSuffice => (Spec => []StreamInv)` of `UdpConnection`, for any loss, repetition and order | see below |
| `StreamIsReliable` | `NumbersSuffice => (Spec => ImplementsStream)`: the refinement that `udp_safe` checks | initially nothing is written or read; each action reads what the ledger says comes next, or is invisible |
| `NothingForgotten` | `NumbersInHalf => (Spec => []NoByteForgotten)` | from `LedgersBalance` and `Covered`, see below |
| `ConnectionsAlways` | `ForwardingSpec => []ConnectionsInv`, for any number of TCP connections | see below |
| `TcpForwardedInOrder`, `TcpNothingIsLeftBehind` | `ForwardedInOrder` and `NothingIsLeftBehind`, as checked by `forwarding` | from `ConnectionsAlways` |
| `DatagramsHold` | `ForwardingSpec => []UdpInv`, for any number of datagrams and applications and any sizes of channels and tunnel | see below |
| `DatagramsStayInOrder` | `DatagramsInOrder`, as checked by `forwarding` | from `DatagramsHold` |
| `PayloadsAddUp` | `Spec => []RelayInv` of `RelaySession` | see below |
| `RelayedAsWritten` | `RelayedInOrder`, as checked by `relay_session` | from `PayloadsAddUp` |
| `LayersAgree` | `Spec => []StreamInv` of `EncryptedStream`, for any messages and sizes | see below |
| `MessagesInOrder`, `FlushesAreSent`, `CleanEndsAreComplete` | `ReceivedInOrder`, `FlushedIsSent` and `CleanEndIsComplete`, as checked by `streams` | from `LayersAgree` |
| `SessionHolds` | `Spec => []SessionInv` of `ShellSession`, for any sizes | see below |
| `StreamsStayInOrder`, `SessionTypes` | `StreamsInOrder`, as checked by `shell_session`, and `TypeOK` | from `SessionHolds` |
| `KeysStayWhole`, `OutputStaysConverted` | `FallbackSpec => []KeysAreWhole` and `[]OutputIsConverted`, as checked by `fallback_shell`, for any scripts, programs and sizes | `FallbackInv`, see below |
| `DisplayAlwaysAgrees` | `FallbackSpec => []DisplayAgrees`, as checked by `fallback_shell` | `DisplayIn` beside `FallbackInv`, see below |
| `PtyHolds` | `Spec => []PtyInv` of `RemotePty`, for any connections and payloads | see below |
| `EachStreamInOrder`, `IdsAreKnown` | `StreamsInOrder` and `NoIdIsUnknown`, as checked by `remote_pty` | from `PtyHolds` |
| `EndsDisconnected` | `Spec => []EndedIsDisconnected`, for any number of collisions | inductive with: disconnected, or at least as many collisions as loops have ended (`LifecycleInv`) |

Why `IInv` has both parts. `increase_transit_window_after_send` computes
`MAX_PACKET_SIZE / (transit_window / MAX_PACKET_SIZE)`: the result has a type only if the
inner quotient is not zero, that is, if the window holds a packet. That the window does is kept
by `decrease_transit_window_after_drop` only because it stops at one packet, which
is arithmetic on numbers whose type is the other part. The upper bound is the fixed
point of the growth: from `MaxPacketSize * (MaxPacketSize + 1)` on the outer quotient is zero.
The proof of a step has a lemma for each action; the ones about receiving rest on lemmas
about `InsertInOrder`, `Reassembled`, `Bytes` and `RecvWindowOf`.

Why `PoolsInv` has five. `NeverBothWaiting` is kept when the loop accepts a client only
because a waiting connection is found under its own key (`WaitingOK`): the code looks for
the peer under the peer's key. `PairsAreSessions` is kept only because a connection is
handled once (`Handled`): the one that is accepted now is in no pair yet, and the one it is
paired with leaves `waiting` in the same step. `PairOK` carries the keys of a pair's two
connections through every stage of its task; a lemma for each kind of step says
which pools it leaves alone.

Why `StreamsInv`. One client may have taken the direct connection while the other one's
answer says that it failed, and either may be gone when the server decides. That they never
end up with different streams rests on the order in which the server asks: `PairsOK` says for
each stage of a pair what is on its way to and from each client (nothing, one
request, one answer, or an answer already read), so that who is directly connected has said so
(`Says`) and a pair that starts relaying has asked for everything else before. `ToldOK` says what
stays true when the pair is gone and its clients are not: each was told of the other
alone, and not one may still succeed directly while the other is or will be relayed. `EndedOK` keeps
what is said of a client that quits from being disturbed by what the server still sends it. The proof
has a lemma for each kind of step: those of a client (`Continues`), and those of the server that ask
nobody for anything (`Calm`); only the three that do ask are treated one by one.

Why `NegotiationInv`. Two connected peers agree because of what their sync packets
said, and those may have been on their way for any time. `SyncsAreCurrent` says that a sync
packet still tells its sender's number: a peer that has sent one is `Settled`, and takes no
other number even when it hears a second hello. `OwnSyncCounts` and `ConnectedKnow` are the two
halves of the agreement, what a peer knows of itself and what it has heard of the other, each of
one peer whatever the other one does.

Why `FileInv`. The file is whole when nobody writes it only because whoever truncates it
writes both chunks afterwards: while a chunk is missing, some target has yet to write it
(`FileFills`), and each of them has the whole body (`BodiesAreWhole`), since a download of another
length is refused. Nobody opens what is executed, and nothing that is open for writing is executed
(`ExecutedIsClosed`), so a bash that started whole stays whole.

Why a ledger. That the UDP connection is a reliable stream cannot be said of the packets alone:
they are lost, copied, merged into buffers and made again. The ledger `B` of a direction counts,
for each sequence number, the bytes numbered up to it. Every packet, in whatever set, queue or
datagram, carries the bytes that the ledger gives to its number (`Sent`), and the receiver has
reassembled what the ledger counts up to the number it acknowledges (`Got`). Two packets with one number
then hold the same bytes, so it does not matter which of them arrives. A number means this
only while it is used once, hence `Budget`: of the numbers used one is the sync packet's, one goes to each byte,
one more to each packet that carries bytes, and one to each close packet; a close packet needs
an application that closes, which it does once, or a packet resent too often, which is a token that is used up
(`Tokens` counts the packets and events that may still become one). `NoByteForgotten` adds
`Covered`: a byte that has not arrived is in a packet its writer still answers for, unless the connection is being closed.

Why `ConnectionsInv`. All TCP connections share one stream, so what is on its way for one of them
is a subsequence of the messages (`Part`), and the proof takes the connections apart before it says
anything of them. Each is at one of six stages (`Stage`): not used, asked for, refused, failed,
answered, live. When live, what is on its way to a side is the payloads after the ones that were
handled and then perhaps the close (`Forwards`). A step is about one connection (`About`): it takes the
first message of its part, or adds one at the end, and leaves every other part alone. The
invariant also shows that nothing ever waits in `tcp_pending_writes`: the side that connects answers before
it reads, so its first payload comes after the answer. The early return of
`activate_tcp_connection` (`ActivateFails`) is therefore never taken. That the forwarding of UDP
does not disturb the connections is part of the same proof.

Why `UdpInv`. A datagram passes seven places, and `DatagramsInOrder` speaks of all of them at once
only while both sides run; it says nothing a step could use when one has ended. `Path` gives each
place its own stretch of what was read and claims a stretch only if the task that holds it is alive, so
a step changes one boundary, and the end of a task drops a claim instead of breaking the rest. What is
sent from the socket stays the beginning because the far NetworkPeer takes nothing past a hole. Three facts
are needed beside it: nothing waits in `pending_payloads` once somebody is known (`UdpTypes`), or a
datagram would be sent before older ones; the socket holds what comes next (`Arriving`); and a side without
its binding puts only notices on the way (`Silent`), so that its far side has nothing to send.

Why `RelayInv`. A payload is in one of four places: in the channel from its writer, in the channel to the
client that was told of the writer, read by that client, or dropped with a pair that is
gone. `Flows` says that in this order they are consecutive stretches of the writer's numbers
(`Upload`, `Download`). That the second channel belongs to the right client rests on `StreamsInv`; that nobody
is sent a payload of somebody he was not told of, on `Tells` and `Untold`: both clients of a pair are
told of each other before anything else.

Why `StreamInv` of `EncryptedStream`. What the writer has produced, in the tunnel or still in `ms_buff`
(`Line`), is a sequence of frames whose messages never go back and leave out only
those that are refused (`Framed`, `Follows`, `SentTo`). A message may be there twice: finding 4. The
reader has taken whole frames (`Taken`), and of what it took one message at most lies in the layers above and has not been
received (`HeldInv`). A stream that was closed within a flush keeps something in `ms_buff`; this
is why an end within a frame is told from a clean one (`EndInv`). A read half that ends because its own
stream failed to write has its own case: what it received is still all that the layers above held,
and what the tunnel holds beyond is not claimed.

Why `StatusInv`. A task may look, find no status and come to the lock when another one has reaped the
program and set it. What then keeps the status is not the look but the library: a wait for a child
that was reaped returns the code it remembers. So `ReapedOnce` says of every status, and of what each
task is about to set, that it is the program's, unless the shell was dropped; the drop kills, and records
a failure if the program has not ended by itself. `DropTime` keeps the drop apart from a running loop,
and `NotStarted` says that nobody looks before the shell is there.

Why `SessionInv`. What the program wrote is, in this order, displayed, in the tunnel, in `recv_buff`, in
the reader's channel, its chunk and the terminal, as consecutive stretches (`OutputAt`), with two exceptions the
code makes: a client that has failed displays nothing more, and a reader that
ends after the shell was dropped loses its chunk (`Whole`). The exit code comes last because the reader turns to the
exit status only when the terminal is closed and drained (`ExitOK`), and the loop reports it only when the
reader has ended and the buffers are empty (`ReportOK`). The input is followed the same way as long as
the writer feeds the terminal (`InputAt`).

Why `PtyInv`. All connections share the tunnel and the channels on either side of it. `Flow` says that
the messages of one connection in a queue are consecutive numbers; `Downward` and `Upward` put these together
from the socket to the library and back. `ToldOK` says that the client can hear what is in the tunnel in
its order: nothing about an id before its connect or after its close. `LiveOK` says that a
running server keeps a connection until it has told of its end, so an id it does not keep was
closed, which is what `NoIdIsUnknown` is about.

Why `FallbackInv`, and more for the display. The three properties compare histories of bytes through
functions over sequences (parse, convert, draw), so the work lies in how these functions
behave on a cut sequence. *Keys*: `parse` keeps an unfinished escape sequence; from any position on the keys
of a prefix, then those of what is kept and what follows, are those of the whole (`Joint`).
*Output*: `Converted` on what is written in pieces is the conversion of the whole when each
piece is told the last byte before it (`ConvertedConcat`). What is shown, in the
tunnel and in the channel is then always that conversion (`Flowing`); no output is
lost to a client that waits for an answer, because such a client meets nothing but an answer (`Handshake`).
*Display*: what is drawn counts bytes, hence only while each byte typed takes one column; `handled` and
`written` only grow (`HandledGrows`), so a step that ends in such a state began in one. At the prompt the
screen that all the output will make is `Tidy`: the line, then blanks, the cursor at the editor's. Each redraw keeps this for each key and state of the
editor, every prompt is drawn on a row that a line end has cleared, and away from the prompt the
line is empty (`DisplayIn`, claimed under `OneColumn`).

On recursion and folds. The library's induction theorems cannot be used here, but induction over the
natural numbers as a set can: a set of numbers has a smallest element (`Smallest`, from
well-foundedness), and a smallest counterexample leads to a contradiction. That way the proofs give
`FlattenSeq`, and the recursive functions of `LineEditor`, their value: a function that satisfies the
defining equation exists, and any two agree.

TLC found these invariants true before they were proved, on the instances of the
runs or smaller ones (for example with 106612 distinct states for `RelayInv`, 555788 for `StreamInv` of
`EncryptedStream`, 52626 for `StatusInv`, 933165 for `PtyInv`, 85920 for `UdpInv`).

## 5. What is only model-checked

- Liveness (`WrittenIsDelivered`, `HalfOpenEnds`, `LoopsEndTogether`,
  `PeerFailureIsNoticed`, `AcceptedIsNotForgotten`, `DatagramsAreForwarded`,
  `WritesAndReadsReturn`, `EveryConnectionIsDecided`, `EndIsNoticed`, `ExitIsReported`,
  `ProgramEndsWithSession`, `KeyIsTaken`, `SessionEnds`, `SessionEndsTogether`):
  fairness is out of the proof system's reach.
- `SentPacketsFit`. Its second half says that kept packets wait for a gap, except behind a copy of a packet
  that straddles the wrap-around. Without the exception it is false (see section
  6). The first half would need a bound on the peer's window in terms of the numbers in use.
- `ConnectedPeersAgree` of `MCUdpStages` is that of `UdpNegotiation` under an INSTANCE. The theorem
  `ConnectedPeersStartAlike` is about the latter.
- What a recursive definition computes is proved only where a property needed it (the
  keys, conversion and drawing of `LineEditor`).

`PortForwarding` and `RelaySession` state their types (`TypeOK`) for the reader; TLC finds
them true of the instances above, and the proofs carry what they need of them in their own
invariants. `SessionTypes` proves the one of `ShellSession`.

## 6. Findings

1. `udp_stall`, `C/p2p/udp/sender.rs:58`. A resend waits for the peer's window like a new
   packet. In the run the first of three one-byte packets is lost and the two after it are
   kept: with their headers they take six of the receiver's seven bytes, so the window it
   advertises then, counted from the acknowledged number, ends before the missing packet does.
   The resend is never sent, and only the missing packet would open the window.
   `resender.rs:91` says the packet is resent. With the code's own sizes (a window of 102400,
   packets of 576) the same happens when some 180 full packets follow a lost one.
2. `relay_fallback`, `S/relay.rs:170`. One client reports a successful direct attempt, the
   other a failed one, as half open attempts do: the server treats it as a protocol
   error and both clients fail, although `relay.rs:72` says the relay takes over when
   the direct connection fails.
3. `direct`, `C/p2p/tcp.rs:103`. Both clients listen and connect at once, and `select!` takes
   whichever socket is there first; nothing tells the two apart (`master_side` is ignored).
   Each may take the socket it opened itself, whose other end sits in the peer's
   listener and is dropped with it. Both then report success, the server steps back since
   "the clients will stream between themselves" (`S/relay.rs:44`), and each streams into
   a socket that nobody holds.
4. `encrypted_once`, `src/tunshell-shared/src/message_stream.rs:178`. `poll_write` appends
   the serialised message to `write_buff` whenever it is polled. When the tunnel's stream is pending,
   `AesStream` keeps the encrypted message (`aes_stream.rs:201`) and polls the write again:
   the frame is sent twice and decrypted twice, and the shell gets a message twice. The
   test at `aes_stream.rs:336` reads back what it wrote, over a cursor that is never pending.

Other places where code and comments part, or where the models show behaviour a reader
should know of; no run is kept for them:

- `seq_number.rs:19` puts the limit of the comparison at 2^31, line 36 at 2^31 - 1: numbers
  exactly 2^31 - 1 apart compare the wrong way round (`SeqGtAsHandedOut` has the real bound).
- `state.rs:66` says `sent_packets` holds packets that have not been acknowledged yet. A packet
  acknowledged between a timer's two uses of the lock (`resender.rs:75`, `:112`) is sent
  and stored again, until a later acknowledgement removes it.
- `congestion.rs:62` takes the window of any packet that arrives, although `state.rs:28` says it is that of the packet
  with the highest number. One that was overtaken brings back a larger, older window (its acknowledgement
  is ignored). The sender then sends more than a slow reader has room for, and the reader's
  buffer outgrows `recv_window`, "the amount of bytes permitted in the reassembled byte buffer"
  (`config.rs:28`): TLC finds it with a window of 5, six bytes one way and one back.
- `packet.rs:222`: `overlaps` compares raw numbers. A packet that straddles the wrap-around is not
  recognised when it comes a second time while it waits behind a gap. The copy is never reassembled, and since
  reassembly stops at the first kept packet that is not the next one (`receiver.rs:83`), nothing that comes after it
  is either, until the sender gives up; `state.rs:47` says what is kept waits for a gap. This is the exception in `SentPacketsFit`.
- `receiver.rs:109` triggers an acknowledgement which then waits for the sender's own
  window (`sender.rs:90`): two congested peers wait for each other's until the keep-alive,
  which does not ask the window (`WrittenIsDelivered` needs its strong fairness).
- `negotiator.rs:30`: when the very first hello cannot be sent, the error path calls
  `set_state_connect_failed`, whose assertion (`state.rs:129`) does not expect NEW
  ("Panicked" in `UdpNegotiation`).
- `connection.rs:319`: `poll_shutdown` registers its waker after it sent the event; if the
  send loop disconnects first nobody wakes it ("shutdown_pending" in `UdpLifecycle` may stay).
- `orchestrator.rs:225`: `try_disconnect` does nothing when the mutex is taken. One such miss is
  made up for by the other loop's end; two leave a connection without loops that still says it is
  connected (`EndedIsDisconnected`). A `poll_read` that has seen it connected and leaves its
  waker only after both loops ended is not woken either ("read_pending" may stay).
- `S/mod.rs:151` means to prevent joining twice with one key, but looks at waiting
  connections only: a third client is accepted once the first two are paired.
- `relay_stream.rs:93` and `C/server/websocket_stream.rs:71` repeat what was pending in the same
  way as finding 4; the `poll_flush` of the latter returns without flushing.
- `aes_stream.rs:233`: an error of the write that a flush makes is dropped. With a cipher that
  finishes later (the browser's), a message of 32734 to 32767 bytes is accepted and its
  frame fails in the flush: it vanishes and the flush succeeds.
- `message_stream.rs:95`: both halves of a stream share the `closed` flag, which a write error sets (line 189).
  The next read then ends, and `aes_stream.rs:124` makes it a clean end although the tunnel may hold more for
  it (`own_closed` in `CleanEndIsComplete`).
- `aes_stream.rs:90`: after an end or an error `decrypt` stays `Swapping`, and one more
  `poll_read` would panic; its callers never make it.
- `S/tls.rs:89` does one handshake at a time, for up to 5 s each: slow hosts push other clients
  over to the websocket, whose dropped streams are held until the next ping (30 s). A
  client waits for the answer to its key without a timeout, and one whose connection ends then
  does not try the websocket any more (`C/client.rs:78`).
- The fallback shell's interpreter can die: on a line of blanks, on input that is not UTF-8 or a
  character erased in part, on a key typed as a command ends (`interpreter.rs:399`), on a
  `cd` into a directory that is gone. Nobody notices and the session stays ("dead" in
  `KeyIsTaken`). Output still in the channel at `exit` may be lost (`shell.rs:75`), as may
  stderr that is left when stdout ends; type-ahead after an exit turns it into an error. An
  Escape is held until two more bytes come, `^C` is ignored while it waits for a
  process that has closed its stdout, and a dropped shell leaves interpreter and child
  running.
- `network.rs:447`: one failing `send_to` of datagrams that waited ends the whole `NetworkPeer`;
  the far side is not told and goes on sending. A datagram that makes a message too long
  (`message.rs:69`) ends the whole shell session. With the channels of one side full both ways
  its `NetworkPeer` and its loop wait for each other, with the tunnel full both ways the
  loops do (`LocalDeadlock`, `TunnelDeadlock`).
- `remote_pty.rs:617`: the last chunk may still be on its way when `write_all` has returned. Then
  executing the file fails and the shell falls back, or, where files cannot be executed, a copy
  of what is there so far is started; if that write fails nobody is told.
- `remote_pty.rs:723`: a target that is killed, or whose bash cannot be started, leaves its
  socket file, and a container whose next target has the same process id falls back to the
  built-in shell from then on. The download has no timeout.
- `shell/server/mod.rs:217` awaits `shell.write` in the loop: while the program does not read, the
  session does not notice that its client has left (`InputStuck` in `EndIsNoticed`).
- `network.rs:506`: `tcp_pending_writes` is kept for payloads that come before a connection is
  decided. None does: the far side answers before it reads its first payload
  (`ConnectionsAlways`), so nothing ever waits there, and the return at line 510 that would leave a read half
  behind is not taken.
- The fallback shell's editor counts bytes (`interpreter.rs:73`). A line feed, a tab, an escape, a control
  character or a character of several bytes goes into the line byte by byte, and the terminal no longer
  shows the line that is edited (`NotOneColumn` in `DisplayAgrees`). Backspace erases one byte of such a character; Enter
  then finds a line that is not UTF-8, which ends the interpreter.
- `shell/server/mod.rs:206` and `shell/client/mod.rs:165` await `stream.write` inside their `select!`. With the
  tunnel full both ways each loop waits for the other to read, and neither a key nor the exit of the shell gets
  through (`TunnelStuck` in `KeyIsTaken` and `SessionEnds`).
- `pty.rs:296` looks at the exit status without the lock. One of the three tasks that look may wait for a program
  that another has reaped. Before the drop both find the same status; after it the failure that a kill
  recorded may be replaced by the program's own code, which nobody reads any more (`StatusIsFinal`).
- `shell/server/remote_pty.rs:198`: data for a connection whose program has just closed it ends the
  whole session with "unknown connection id", or with a failed write (`NoIdIsUnknown` says
  this is the only way); and line 128 does not await the send of a forwarded message, which is
  therefore never sent.
- After `packet_resend_limit` resends a connection is closed although only
  acknowledgements were lost: a duplicate is refused (`receiver.rs:34`) and not acknowledged again.

## 7. Abstractions

- `is_connected` takes the mutex once and the body of `poll_read` or `poll_write` once more. In
  `UdpConnection` they are one step: a disconnect in between has the same effect as one right
  after, since nothing but the ended connection looks at what the call changes.
  `UdpLifecycle` has the two steps.
- `handle_send_packet` stores the packet and grows the window after the datagram is out. It is
  one step because the receive loop runs in the same task (`tokio::join!`) and there is no
  await in between: an acknowledgement cannot be handled before.
- `streamed_to` looks at `terminated` and sends in one step; a close in between has the effect of one
  right after the send.
- The loops of `RemotePty` never wait to write. Two full tunnels would stop both, as neither
  loop reads while it writes; and `write_all` in `handle_data` (`shell/server/remote_pty.rs:203`) keeps the
  server's loop from everything else while a program does not read its socket, also from the client's end.
  `SessionEndsTogether` is about sessions in which neither happens.
- `ShellSession` leaves out what the tunnel holds, `FallbackShell` has it. `DatagramsAreForwarded` is for
  sessions that carry datagrams only: a loop stuck in `shell.write` (`shell/server/mod.rs:217`) or a
  `NetworkPeer` in the `write_all` or connect of a TCP forward (`network.rs:342`, `:379`) is not in it.
- `FallbackShell` draws the bytes of `NotOneColumn` in one way a terminal may; no property depends on which.
- A read that spans several payloads is several `Read`s; a payload's bytes are numbers.
- `UdpNegotiation` has no addresses, so the port a NAT chose is out of the model.
- The relay's session store answers a key with yes or no at any time; a failing store is a no
  without a message.
- `EncryptedStream` has one direction of a tunnel; the nonce and the key are part of "encrypts".
- `Joining` ends when the loop has the connection and its key; what `RelayServer` says of
  accepting starts there. Session rows are written once and only get older.
- `FallbackShell` gives each command one byte as its line, so that history, editing and
  running can meet in a small instance. The byte channels are unbounded, as in the code.
- `RemotePtyStart` writes the file in two chunks; the kernel refuses to execute a file that is open for
  writing and to open one that is executed.
- In `UdpForwarding` one binding stands for those of a session: they share nothing but the channels.
- `ShellSession` assumes that only the program holds the terminal. A descendant that
  keeps it open keeps the reader reading, and the session then lasts as long as it does.
  A stream's failure is modelled as its end.

## 8. Not modelled

`rtt_estimator.rs` (durations only), the crypto back ends, what the TLS and websocket adapters
do with bytes (the libraries' behaviour), the HTTP layer and SQLite under `Joining`'s
session, reading of certificates and configuration, terminal adapters and message formats,
resizing of the terminal (one field passed on), the forwarded messages in the remote PTY's loop
(lost at line 128, see 6), command line, website and scripts.

## 9. Plan

Order of importance: the UDP connection, the relay, the shell session, forwarding, the rest.

1. Done: the modules and runs above; proofs of the UDP connection's types, windows,
   refinement of `ReliableStream` and kept bytes, of the comparison of its numbers, of its
   negotiation and end; of the relay's pools, the streams its clients agree on and what it relays; of
   the order of forwarded connections and datagrams, encrypted messages, shell input and output, remote PTY
   streams; of the final exit status, the remote PTY's bash and socket; of the fallback shell's keys,
   output and display.
2. Extend: the wakers of blocked writers in `UdpLifecycle`, resizing, and what
   `DirectConnection` says of sockets as part of the relay session's attempt.
3. Prove: the first half of `SentPacketsFit`.
