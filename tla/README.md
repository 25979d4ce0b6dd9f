# proxypen: a TLA+ verification project

proxypen tests SOCKS5 proxies and direct paths: it sends HTTP/1.1, HTTP/2 and
HTTP/3 probes, repeats them under load (`press`), and measures TCP and UDP
throughput, loss, jitter and latency between a bench client and a bench server
(`benchmark`, `server`). This directory models a command from its arguments to
its exit code and the parts that run concurrently or talk over a network, checks
them with TLC on small instances and proves every invariant checked, and the
refinement of the abstract bench run, with TLAPS for all instances. Line numbers
are those of the repository's `src/` directory.

## Inventory

| Component | State | Operations | Interacts with | What is hard | What makes it correct |
|---|---|---|---|---|---|
| press runner, `press.rs` | semaphore, two sample vectors, two counters, error list | spawn, acquire, probe, record, join, report | probes; tasks share memory | tasks interleave between shared-memory steps; panics; limits | permits conserved, every request in the report once, press() returns |
| latency statistics, `press.rs` | none | sort, `percentile`, `from_sorted_ms` | press runner | index at the ends | figures are those of the samples, in order |
| HTTP probes, `http1.rs` `http2.rs` `http3.rs` | one connection | connect, request, response, timeout | transport | HTTP/2 hands its connection to a task of its own | connection closed with the probe; a truncated answer is not a success |
| bench client, `bench/client.rs` | plan list, outcomes | plan loop, four data phases, close | server, over a control and a data path | each end waits for the other | tests in order, one outcome each, the run ends |
| bench server, `bench/server.rs` | session task per control connection | handshake, request loop, four data phases | client | waits without deadlines, client disappears | sessions end with their client |
| control protocol, `bench/protocol.rs` | none | four untagged message types | both ends | no resynchronisation | each read finds the type it expects |
| UDP statistics, `bench/stats.rs` | counters, seen set, jitter | `record`, `into_report` | receiver loops | loss, duplicates, reordering | figures are those of the arrivals |
| pacer, `bench/pacer.rs` | start instant | packets due now, sleep until packet n | sender loops | late wake-ups, rounding | never ahead of the rate |
| in-process server, `bench/client.rs` 207-227 | shutdown channel | start, accept, stop | server | stop while a session runs or a connection waits | stopped with the run |
| transport, `transport.rs` `direct.rs` | none | connect, open UDP socket, bind | SOCKS5, sockets | every socket of a command, of either family | bound and routed as the arguments say |
| SOCKS5, `socks/` | control stream | authenticate, CONNECT, UDP ASSOCIATE | proxy | length bytes, unspecified relay address, a proxy that stops at any message | a tunnel is one the proxy granted, for what was asked |
| SOCKS5 UDP socket, `udp_socket.rs` | relay socket | wrap, unwrap | QUIC, bench, DNS | malformed datagrams, headers of three lengths | the payload and nothing else is handed up |
| DNS client, `dns.rs` | none | query, decode | transport | lost or foreign answers | an address from the answer to this query |
| HTTP test server, `http_server.rs` | three listeners, a task per connection and request | accept, respond | probes | a listener fails, a request arrives in pieces, a path cuts | the others go on, a success is the whole response |
| command line, `main.rs` `config.rs` `lib.rs` | resolved address, results | build, resolve, probe, exit code | all | who resolves a name, commands that wait | the documented resolver, an end, the exit code |
| TLS configuration, `tls.rs` | none | - | library | - | not modelled |

`PROJECT.json` lists what is hard to test, at its line, under `hazards`, with
the properties that cover it.

## Modules

| Module | Models | Used by |
|---|---|---|
| `LatencyStats` | `percentile`, `from_sorted_ms`, the sort; a reference definition by counting | `Press`, `MCLatencyStats` |
| `Press` | `press()` and the life of its tasks | `MCPress`, `PressProofs` |
| `UdpStats` | `UdpStats::record` and the pacer's two formulas | `UdpFlow` |
| `UdpFlow` | one UDP test: paced sender, datagram network, receiver | `MCUdpFlow`, `UdpFlowProofs` |
| `BenchRun` | abstract specification of a benchmark run | `BenchSession` (refinement) |
| `BenchSession` | client, server session, control connection and data path of a run | `MCBenchSession`, `BenchSessionProofs` |
| `SocksUdp` | the SOCKS5 UDP header and the two sockets that hide it | `DnsMessage` |
| `DnsMessage` | a DNS query and the walk over its answer, as bytes; a reference definition | `Probe` |
| `SocksClient` | one SOCKS5 session, client and proxy | `Probe` |
| `Probe` | a `test`, `press` or `benchmark` command: transport, resolution, sockets, probes, exit code | `MCProbe`, `ProbeProofs` |
| `HttpServer` | `serve-http` and a probe of each protocol | `MCHttpServer`, `HttpServerProofs` |
| `SumsAndQueues` | no code: lemmas on minima, finite sums, collections by value, short queues | the proof modules but `HttpServerProofs` |
| `LatencyFacts` | lemmas and theorems about `LatencyStats`, for every sequence of samples | `LatencyStatsProofs`, `PressProofs` |
| `...Proofs` | theorems about the specification of that name (`LatencyStatsProofs`: of `MCLatencyStats`) | - |

### Press

`spawned` and `joined` are the positions of the two loops of `press()`;
`task[r]` is the next step of request r's task; `permits` is the semaphore; the
vectors and counters have the names of the code. A success is recorded in three
steps (`PushTtfb`, `PushTotal`, `CountSuccess`) and a failure in two, because
the runtime has several threads and each is a separate lock or atomic
operation; the length test and push of the error list are one step, under one
lock. A probe is `Connect`, `SendRequest`, then success, failure (an error or
the timeout, at any stage) or, for HTTP/3 over SOCKS5, the panic of
`associate` (`socks/associate.rs` 49). `conn[r]` says who owns the connection:
the probe's future, or the HTTP/2 driver task. Samples are natural numbers;
`avg_ms` is kept as sum and count. Truncation of `p / 100.0 * (n - 1)` in
floating point agrees with integer division for the four percentiles used.

### UdpFlow

Both directions have the same two loops. `sender` and `receiver` are positions
in them; `s_start` and `r_start` are the two `session_start` instants, each end
using only the time since its own. The network is the set `net`: a datagram
never taken is lost, any order of taking is a reordering, and `Take` may leave a
copy. `transport` says how the client's socket was opened. A direct socket is
connected to the server and its kernel keeps foreign datagrams out; one over
SOCKS5 is connected to the relay, which forwards what any host sends it, and
`recv` drops the source with the header (`transport.rs` 96), so `Stray` may then
reach the client as well as the server. `Tick` is always possible, so every task
may be late by any amount. `arrivals` is a history of what was handed to
`record`. The jitter is the exact fraction `jitter / jitter_den`.

### BenchSession and BenchRun

`client` and `server` are positions in `run_inner` and `handle_session` and
their data phases, `c2s` and `s2c` the control connection, `data`, `buf`, `fin`
and `dropped` the data path of the current test, `tx` and `rx` what sender and
receiver counted. Time is abstracted: a sender may find its deadline reached
before any write. What is a deadline plus grace in a receiver is end of file in
the ordinary case and the fault `"stall"` otherwise. `Faults` names what the
environment may do; a write to or a read from a peer that has ended fails
without any fault being assumed. `served` is a history of the tests the server
completed, with the figures it holds.

`serve` is `--serve`: the client first starts a listener in its own process and
waits for its address. `target` is an explicit `--target`; with both, the run is
against the target and the listener idles beside it, with neither the client
refuses. `listener` is the loop of `run_until_signal`: it accepts, spawns the
session and goes on, until `run_inner` returns and drops the shutdown guard
(`LocalServerStops`, in any round) or its accept fails; sessions it accepted go
on. `server` is the session of this run, `"none"` before it is accepted. A server
that does not know the kind of test answers with `STATUS_ERR` (fault
`"refuse"`), which ends the run (`ClientRejected`).

`BenchRun` says what a run promises: tests are measured in plan order, one
outcome each, never more received than sent; the server holds the same figures
for the same tests, at most one test behind; success only after every test.
`ImplementsBenchRun` is `BenchRun!Spec` under the mapping of `client` to
`result`.

### Probe, SocksClient, DnsMessage and SocksUdp

`Probe` composes the three others. `opts` are the arguments, chosen in `Init`;
`pc` is where the command is; `resolved` is `TestTarget.resolved_addr`; `todo`
and `results` are the protocols to come and the outcomes. Two histories,
`asked` and `sockets`, record who learned the host's name and which sockets
were opened to whom and bound to what. `read` and `got` are the last datagram
and what `recv` or `poll_recv` made of it.

`SocksClient` is the session in use: `sess` the client's end, `peer` the
proxy's, `c2p` and `p2c` the messages between. The proxy is external: it answers
any version and method, checks or refuses, grants any kind of relay address,
closes at any point, or, with `opts.stalls`, need never answer. Credentials are
lengths, and the length byte has `LenMod` values; a proxy that read fewer bytes
than were written takes the rest for its next message. What runs on an open
connection is the other modules' matter: here it succeeds or fails. The length
byte of a destination name is truncated like those of the credentials; what the
proxy then reads is `DstRead`.

An HTTP/3 probe ends in two steps: the result and the drop of the control stream
(`ProbeResult`), then the end of the endpoint (`EndpointDrops`); in between, at
`"closing"`, the endpoint still reads from the relay. A reply to a DNS query may
have any id, in direct mode too.

DNS messages and UDP headers are sequences of bytes with the code's positions,
so the walks are those of `skip_name`, `decode_a_response` and
`decode_socks5_udp_header`; indexing past the end, a panic in the code, is an
error TLC reports. `Answers` says what a reply means without a walk. Recursion
is by recursive functions.

### HttpServer

`listener` holds the three listener tasks, `joining` the position of
`run_server`'s join loop, `conn[c]` both ends of a connection: the probe, the
server's connection task and (HTTP/2, HTTP/3) request task, the request's
segments and the response's parts on their way. A response is counted in parts:
the first ends inside the status code, the second completes the head, the rest
are the body. The path may split a plain request in two and may cut a
connection at any point. A TCP listener whose accept fails resets the
connections it has not accepted; the QUIC endpoint, whose accept returns `None`
only once it is gone, takes its accepted connections with it.

## Runs

| Run | Instance | Shows |
|---|---|---|
| `latency_stats` | up to 8 samples of 3 values | figures equal the counting definition and increase from min to max |
| `press` | 3 requests, 2 permits, 3 protocols, 2 timings, error cap 2 | safety properties and termination |
| `press_http2` | 2 requests, 1 permit | violation: two connections open with `-c 1` |
| `udp_network` | 3 packets due, one duplicate, both directions | the report, and the loss printed from it, are those of the arrivals |
| `udp_peers` | unlimited rate, a limited one, and one so low that the sleep for a packet passes the deadline; one foreign datagram; direct and SOCKS5 | one source per report where addresses are compared, pacing, both loops end |
| `udp_latency` | download | violation: latency is not the variation around the first packet |
| `bench_faults` | 16 plan lists of up to 6 tests, with and without `--serve` and `--target`, all faults | framing, plan order, refinement of `BenchRun` |
| `bench_ends` | the same plans; no loss, no stall | the run ends; sessions end, or wait for first contact; the in-process listener stops, used or not |
| `bench_hello_lost` | one UDP download with loss | violation: both ends wait for ever |
| `probe` | all commands, hosts of 5 kinds, 4 interfaces, 4 credentials, 10 headers, 77 replies | resolution, routing, tunnels, DNS and relay bytes, control stream, exit code; `test` and `press` end |
| `bench_resolve` | the same | violation: a benchmark asks the system resolver |
| `http_server` | one connection of any of 4 kinds, 3 listeners that may fail | whole responses, independent listeners, connections end |

Bounds. Two permits and three requests are the least with a waiting task, two
concurrent ones and an order of joining that differs from the order of ending.
The two timings have their first bytes and their totals in opposite order, so
the two columns sort differently. The error cap of 2 (50 in the code) is passed
by three failures. Three datagrams are the least for a packet that is both late
and overtaken twice, or duplicated and overtaken. In `UdpFlow` the clock stops
at `MaxTime`, after every deadline; `LatestStart` bounds when a session starts.
At the lowest rate of `udp_peers` a packet takes four ticks and a test three, so
after the hello of an upload the sender sleeps past its deadline, and `FlowEnds`
covers the return.
A TCP path of one chunk and two chunks per test reach a full path, a partly
read one and an empty one; the lists `<<>>`, `<<1>>` and `<<1, 2>>` of rates
give no, one and several UDP rates, and the empty plan. In `probe` labels have
three bytes and names six (63 and 255 in the code) and the length byte four
values (256), so that hosts and credentials lie on both sides of each limit;
answers have names in all three forms, records before the A record, two A
records, none, and one answer is cut after every byte; every kind of header is
sound or faulty. A probe of QUIC gets two datagrams: a bad one can come first
or after a good one. In `http_server` connections share only the listeners and
the process, so one of each kind in turn is enough; a body of one part can be
missing, and a request has one or two segments.

Fairness. `Press`: the runtime polls every task that can move, and a probe ends
because `test()` wraps it in a timeout. Nothing is assumed of the HTTP/2 driver
task. `UdpFlow`: time passes, the sender is polled, the receiver's timer fires;
nothing of the network. `BenchSession`: the client, the in-process listener and
the session each move when they can; no fault ever has to happen. `Probe`: the
command moves when it can, `QUERY_TIMEOUT` and the probes' timeouts come, and a
proxy that does not stall answers or closes; nothing of the DNS server, the
relay or the target. `HttpServer`: tasks that can move do, and a probe's timeout
comes; nothing of the path.

Deadlock is checked in the `press`, `udp` and `probe` runs and `bench_resolve`,
where the only final states are the stated ones. It is not in `latency_stats`
(pushing stops), `bench_hello_lost` (the wait is the finding), the two other
bench runs (a session that waits for first contact has no next step) and
`http_server` (a server no one uses waits).

### What the runs found

- HTTP/2 connections are owned by a detached task (`http2.rs` 81), so
  `--concurrency` bounds probes, not connections. For HTTP/1.1 and HTTP/3 the
  bound holds, and is proved.
- `--concurrency 0` hangs (`press.rs` 160): with `Concurrency = 0` in
  `MCPress.cfg` TLC finds `PressTerminates` violated. Every other value is safe:
  `SomebodyMoves`.
- `benchmark` through a proxy has the target's name looked up by the system
  resolver (`main.rs` 368), where `--help` and USAGE.md say the proxy resolves
  it (`ResolverAsDocumented`, run `bench_resolve`).
- With `--resolve` an empty answer of the system resolver is no error: the
  target keeps its name, which goes to the proxy after all (`config.rs` 39),
  where USAGE.md 379-380 says it forces local resolution. With `Commands =
  {"test", "press"}` in `MCBenchResolve.cfg` this is TLC's counterexample. But
  for these two cases every command asks whom the documentation names
  (`ResolvedAsDocumented`).
- An HTTP/3 probe drops the control stream of its association before its QUIC
  endpoint: by name at `http3.rs` 147, and by the order of its locals when an
  error or the timeout ends it, where `socks/associate.rs` 16 says the stream
  must stay alive for the association to remain valid. With
  `ControlOutlivesRelay` in `MCProbe.cfg` TLC shows the endpoint that outlives
  it. Until the result is there the stream is held
  (`ControlUntilDone`), so what is lost is the close of the QUIC connection.
- An IPv6 literal in a target URL keeps its brackets and is taken for a host
  name (`main.rs` 338, 426): through a proxy it is sent as one, and with
  `--dns-server` it is queried for.
- `QUERY_TIMEOUT` does not cover the UDP ASSOCIATE of a DNS query (`dns.rs`
  57), and nothing bounds a benchmark's connection: a proxy that stalls holds
  both. `CommandEnds` is stated for everything else.
- A `press` whose every task panics exits with 0 (`main.rs` 541).
- An HTTP/1.1 response cut by the path is a success with what came, down to
  half a status code (`http1.rs` 97). A request that arrives in two segments
  can be answered with a reset (`http_server.rs` 145), which the probe reports
  as a failure. `SuccessIsWhole` states where a success is the whole response.
- In a UDP download the receiver's clock starts at the first packet to arrive,
  but the timestamps count from the hello (`client.rs` 407, `server.rs` 250),
  and the first packet is never sent at timestamp 0 under a limited rate: every
  latency is too small by that timestamp. In an upload whose hello arrives
  first the figures are what USAGE.md says (`AnchoredUploadIsHonest`).
- Through a SOCKS5 relay the client's socket takes datagrams of any source
  (`transport.rs` 96), so a download counts what the bench server did not send:
  with `DownloadFromServer` in `MCUdpPeers.cfg` TLC shows it. In uploads and in direct downloads the report is of
  one source (`ReceivedWasSent`).
- A lost UDP hello, or the loss of every datagram of an upload, makes client
  and server wait for each other (`server.rs` 194, 232).
- With the fault `"stall"` TLC also finds a wait in TCP uploads: the server
  stops reading at its deadline plus grace with the connection open
  (`server.rs` 134) while the client is blocked in `write` (`client.rs` 294).
- A latency minimum of zero is taken for unset (`stats.rs` 49):
  `StatsMatchArrivals` states what the field then holds.
- `sleep_until_packet(n)` returns when packet n-1 is due, one interval before
  packet n (`pacer.rs` 37, 43), and the senders loop without awaiting until
  then: `WokenWhenDue`, as a property of `MCUdpPeers.cfg`, is violated. The rate is kept all the same (`NeverAheadOfRate`).
- A destination name of more than 255 bytes is sent with a truncated length byte
  (`config.rs` 50), so the proxy may grant another destination; `TunnelAsAsked`
  compares destinations for names that fit (`NameFits`).

## Proofs

Every theorem holds for all constants that satisfy the named assumption of its
module; TLC evaluates each assumption in the runs. All 31 invariants of the
passing runs are proved, and of their other properties the refinement
`ImplementsBenchRun`.

| Module | Assumption | Theorems `Spec => []...` |
|---|---|---|
| `PressProofs` | `PressAssumption`, `TimingAssumption` | `TypeOK`, `PermitsConserved`, `ReportAccounts`, `OwnedConnectionsBounded`, `ErrorsCapped`, `ReportDescribesProbes`, `ColumnsConsistent`, `NeverStuck`; and `Spec => [](StepsLeft \in Nat) /\ StepsRunOut` |
| `LatencyStatsProofs` | `SamplesAssumption` | `SummaryDescribes`, `SummaryMonotone` |
| `UdpFlowProofs` | `FlowAssumption` | `TypeOK`, `StatsMatchArrivals`, `LossIsExact`, `JitterWithinSpread`, `AnchoredUploadIsHonest`, `ReceivedWasSent`, `NeverAheadOfRate` |
| `BenchSessionProofs` | `SessionAssumption` | `TypeOK`, `PlansInDocumentedOrder`, `FramingInSync`; and `Spec => ImplementsBenchRun` |
| `ProbeProofs` | `ProbeAssumption`; `DatagramAssumption` for the last two | `TypeOK`, `TunnelAsAsked`, `ResolvedAsDocumented`, `RoutedAsConfigured`, `ControlUntilDone`, `ExitZeroMeansSuccess`, `RelayedIntact`, `AnswerIsFirstA` |
| `HttpServerProofs` | `ServerAssumption` | `TypeOK`, `SuccessIsWhole`, `OthersKeepServing` |

The assumptions give the constants their types, and three more: a probe's first
byte is not after its end (one clock, read twice), a UDP session's deadlines
lie before the end of modelled time, and a DNS answer has at most 1494 bytes.
The last is what `TransportUdpSocket::recv` needs: it adds 256 bytes to the
caller's 1500 for a header that has up to 262, so a longer answer behind the
longest domain would lose its end (`src/transport.rs:94`); the query carries no
EDNS option, so answers have 512 bytes at most. The data rates, sizes, numbers
of requests, packets and samples, the lists of rates, hosts, credentials and
faults are otherwise arbitrary.

Each module has one inductive invariant, `Inv`, proved by one lemma per action
(theorem `Invariance`), and derives its theorems from it.

**Press.** `ReportAccounts` speaks of the finished report only, so the
invariant must say what the vectors and counters hold before: `Tallies` equates
each with the number of tasks past the corresponding step, `StageMatchesStatus`
ties a task's stage to the outcome of its probe, and `JoinedEnded` says a
joined task has ended, so that when the report is built every task is past
every step. The three outcomes then partition the requests
(`OutcomesPartition`). `SpawnedInOrder` gives the spawn step its fresh task,
`ConnectionOwned` ties an open connection of HTTP/1.1 or HTTP/3 to a task that
holds a permit, and `ReportLast` says no task moves after the report. Every
step of one task changes each counted set at that task only (`TaskFrame`), so
its cardinality changes by at most one (`CountStep`). Two further invariants
rest on `Inv`. `ErrorInv`: the error list has an entry per failure logged, up
to the cap, and no more of a kind than failures of that kind. `SampleInv`: each
vector holds every value as often as the probes that pushed it
(`PushedSamples`, by `SameLevels`), and a success has a timing of the clock
(`Timed`). When the report is built the two vectors are of the same probes,
`SummaryOfSorted` says what the statistics are of, and `FiguresGrow` compares
the columns: were a percentile of the smaller samples the larger figure, more
samples would lie below it than a percentile allows.

Termination of `press()` is proved as far as safety goes. `SomebodyMoves`: with
at least one permit, until the report is there `press()` or a task can go on
(if `press()` waits for a task and that one for a permit, `PermitsConserved`
says the permits are with tasks that run). `RunsOut`: every step but the end of
a detached HTTP/2 connection lowers `StepsLeft`, a natural number, so steps run
out. Only a task that could move and is never polled can then keep the report
away; that the runtime polls it is the fairness of `PressTerminates`.

**Latency statistics.** `Sorted` picks, for every place, a sample of that rank;
that one exists (`RankExists`) is the core: the least sample with enough
samples up to it. The places ascend, so the figures do (`FiguresAscend`), and a
place's rank gives the share of samples on either side (`FiguresHonest`). A
value occupies as many places as it has samples (`SortedLevels`), hence the sum
survives the sort (`SameSum`).

**UdpFlow.** `Matches` relates the statistics to the sequence of arrivals by
the reference definitions (first occurrences, late ones, those since the last
latency of zero) and is kept by `record` for a number seen before
(`DuplicateMatches`) and for a new one (`FreshMatches`). Its clauses on sum and
jitter are stated for all bounds: bounds on the latencies bound the sum, bounds
on the transit times bound the jitter, which is what makes them inductive. The
rest is about the flow: `Clocks` (instants lie in the past), `Phases` (which
states of the two loops go together), `InFlight` (what a datagram says of its
sender), `Paced` (what is due is within the rate) and `Arrived` (arrivals the
receiver's end filters are of one peer; those of the flow itself were sent and
carry their delay).

**BenchSession.** What may be on the two queues depends on the states of both
ends (`Wires`, `Joined`). A client that failed no longer says where it was,
so `Joined` asks for some earlier client state that fits the queues; a
server that ended has left a prefix of what the client waits for (`Orphan`).
`FramingInSync` follows for each pair. `Counted` gives one outcome per plan
behind the client, nothing received that was not sent, and the figure the
server has yet to read (`Lags`). For the refinement, the initial states map to
initial ones; `ClientReport` is `Measure`, `ServerTestDone` is `Serve`, the
client's end `Succeed` or `Fail`; every other step leaves the abstract
variables alone. The in-process listener is outside the queues: where it stands
matters only as long as the run has no session.

**Probe.** `Session` says for each pair of states of client and proxy what is
on the way between them (`AtMethod`, `AtStatus`, `AtReply`), so that an open
session was granted for what was asked, to the credentials read whole.
`Options` and `Shape` are the arguments and the domains, `Progress` what each
state of the command has behind it, `Control` whose session is in use, and
`AskedSoFar` who has learned the name. With `--resolve` `ResolvedAsDocumented`
speaks only once there is an address, so `AskedPermitted` says who may have been
asked before. `RelayedIntact` is inductive by itself:
only `DnsRecv` and `QuicRecv` hand up a datagram, every other step forgets the
last one or leaves it alone (`OtherSteps`). What they hand up is a fact about
bytes: the length `DecodeHeader` computes from the first five bytes is that of
the header `EncodeHeader` wrote (`EncodedHeader`, `PortFound`, `DecodeSound`),
and each of the four faults is refused, also behind `recv`'s cut
(`FaultRefused`).

`AnswerIsFirstA` becomes inductive with "before the probes no answer has been
read" (`AnswerInv`); the work is in `DecodeReply`: decoding the first `size`
bytes of any reply gives what `Answers` says of it. `At(b, p, s)` says that s
stands at position p of b, and the layout of a reply is a set of such facts
(`HeadLayout`, `QuestionLayout`, `RecordLayout`, and `FlatAt` for the i-th of
any number of records or labels). `skip_name` gets behind a name exactly if the
buffer holds all of it (`SkipWholeName`, back from its end over the labels), a
step of the walk over the records fails at a record that is cut, stops at an A
record and else goes on behind it (`RecordStep`), and so the walk ends with the
first A record (`WalkBack`, `FoundFirst`). The recursive functions of the walks
are shown to exist before anything is said of them (`FlatExists`, `SkipExists`,
`FindExists`), each by a least counterexample.

**HttpServer.** Per connection: no part of a response is made up and without a
cut none is lost (`PartsConserved`), its end is sent behind the last part only
(`EndIsLast`), one task writes (`OneWriter`), a whole response or a cut precedes
a success (`WholeOrCut`). For the process: a listener is joined only once it has
ended (`JoinedEnded`), and connections die with the process only (`KilledLast`).

**General lemmas.** The library's induction theorems take operators and cannot
be instantiated by the provers at hand; `SumsAndQueues` replaces induction over
numbers by a least counterexample (`NatMin`, from well-foundedness) and over
finite sets by a minimal one (`MinimalSubset`). That gives the sums of the
community modules' folds, independent of order (`SumFacts`, `SumRemove`), and
collections that hold every value equally often.

The proofs changed the model in four places. `Documented` of `Probe` was a
`CASE` with overlapping guards, of which TLC takes the first and a proof may
take any: it is now a chain of `IF`. `ProbeAssumption` now says that a
credential is two lengths, and `MCLatencyStats` that samples are natural
numbers. `DatagramAssumption` is new: it says what relays and DNS servers write,
with labels of less than 64 bytes, since two leading zero bits mark a label.
`FindA` recurses over the records with a function of the position as value, not
over pairs, which the provers cannot take apart.

Only model-checked: liveness (`PressTerminates`, `FlowEnds`, `RunEnds`,
`SessionEnds`, `LocalServerEnds`, `SessionEndsOrAwaits`, `CommandEnds`,
`ConnectionsEnd`), which needs fairness and `ENABLED`; for `PressTerminates` the
safety half is proved, as said above.

## Plan

Done: all modules of the table, the runs, and the proofs above. Next: several
bench sessions at once, around `BenchSession`.

## Not modelled

Byte encodings of the bench control messages and the magic and version checks of
their handshake (`protocol.rs`; a message is a record of its type), URL syntax,
the float-to-integer cast of `parse_bandwidth`, the 32-bit cast of the duration
(2^32 is beyond TLC's integers), the printed layout, logging, the system calls
behind interface binding, TLS, HTTP/2 and QUIC themselves (library code),
certificate generation, `tls.rs` and `requests_per_second`.

Three assumptions about what is outside: credential bytes behind a truncated
length byte are never by chance a well-formed request to the proxy; a QUIC
endpoint is gone when its last handle is (the library's driver may live on for a
moment); and a path that cuts a connection lets the server know, since a read of
`serve_http1` has no deadline (`http_server.rs` 145).
