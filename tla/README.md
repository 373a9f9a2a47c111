# A TLA+ verification of gomap

gomap is a port scanner written as a Go library (`github.com/taigrr/gomap`) with
a command line in front of it. Its own logic is concurrent: pools of goroutines
around buffered channels, a rate limiter behind a mutex, raw-socket probes with
a listener each, deadlines and cancellation through `context.Context`. This
directory models that logic in TLA+, checks it with TLC and proves its main
invariants with TLAPS. `PROJECT.json` has the index: which definition models
which lines, the runs, the hazards and the theorems.

## 1. Inventory

| Component | Source | State it keeps | Operations | What makes it correct |
|---|---|---|---|---|
| Port pool of one host | `scan.go` scanHostPorts, `stream.go` streamHostPorts | job channel, result channel, worker goroutines, context | feed, take, wait for the limiter, probe, send, delay, close, collect | each port reported once, with the state its reply calls for in the code's table; no send on a closed channel; no blocked worker; prompt cancel; every goroutine ends |
| Host scan | `scan.go` ScanHost | result slice, progress count | validate, resolve, scan, return | one entry per port (per open port under OpenOnly); returns |
| Streaming scans | `stream.go` | host channel, host workers, event channel | feed hosts, scan a host, emit results and Done, close | per host: results, then one Done; closed after the last event; at most MaxHostgroup hosts at a time; drained streams end |
| Range scans | `scan.go` ScanCIDR, ScanRange | the loop, the result slice | loop, skip, scan, restore | hosts in order, each once; an incomplete range is an error |
| MAC spoofing | `spoofmac_linux.go` | the interface's address and up/down | down, address, up; restore | scans leave from the spoofed address; the original comes back |
| Rate limiter | `ratelimit.go` | mutex, time of the last packet | WaitCtx | packets at least an interval apart; callers return |
| Raw probes | `syn_linux.go`, `rawscan_linux.go` | source port, listener goroutine, response channel | listen, send, select | a verdict has evidence; probe and listener end |
| Host discovery | `discovery.go` | the pool of the two Discover calls | feed, try methods in order, emit | each host judged once, by its first method that answers; goroutines end |
| Discovery methods | `discovery_*.go` | a socket each | one request per port, one read | alive only if answered, by the host itself where the socket can tell (the ARP ping excepted); an answer is not lost |
| UDP, SCTP, IP protocol scans | `scan.go`, `sctp_linux.go`, `protocol*.go` | a socket | send, read, verdict | a verdict fits the packet that came; the probe ends |
| Idle, FTP bounce, proxy scans | `idle_linux.go`, `ftpbounce.go`, `proxy.go` | a dialogue with another host | commands and replies | open only on that host's word, for the right command |
| Fragments, decoys | `fragment_linux.go`, `decoy.go` | none | send | cover the packet; skip the real address |
| Targets and ports | `net.go`, `targets.go`, `portrange.go`, `portselect.go` | none | parse, enumerate | the set the notation denotes |
| Command line | `cmd/gomap/main.go` | the stage it has reached, the result | load, choose a mode, scan, report, analyse | Ctrl-C quiets and ends it, whatever servers and scripts do |
| Version detection | `banner.go`, `probedb/` | probe database | select probes, match, fall back | at most one version per port, of an answer that matched; a hard match is the last word; errors do not hide it |
| OS detection | `osdetect*.go`, `probedb/osdb.go` | best match so far | probe, score, retry | the best round is kept |
| Scripts | `script*.go` | registry under RWMutex | register, select, run in a pool | each run that says something is reported, in order |
| Traceroute | `traceroute*.go` | hop list | probe a hop | a hop is an answer to its own or an earlier probe, unless a message that answers none was taken for it; the target ends the trace |
| Resume | `resume.go` | a JSON file | save, load, mark | a crash loses no completed host |
| Timing, outputs, tracing, ARP, interfaces, loaders, stubs | the remaining files | none to speak of | tables, formatting, reading | |

How they interact. `ScanHost` resolves the target and calls `scanHostPorts`;
`ScanCIDR` and `ScanRange` call it once per host, one after the other, with the
MAC address spoofed around the loop; `ScanCIDRStream` runs several
`streamHostPorts` at a time, each with a port pool and a rate limiter of its
own, all writing to one event channel. Each worker of a pool calls `scanPort`,
which dispatches to a probe; the raw ones start a listener goroutine. Progress
is reported by callback from the collecting goroutine. Discovery has pools of
the same shape over hosts. The command line calls `ScanHost` and then, on its
result, version detection, OS detection, traceroute and the scripts, one after
the other; all of them share the one context that Ctrl-C ends.

The hard behaviours are the interleavings of feeder, workers, closer and
collector; contexts that end at any moment, with two cases of a `select` ready;
channels closed while others may send; the limiter's mutex held across a wait;
answers that are late, lost or meant for another probe; commands that fail half
way. The list, at the lines where they bite, is `hazards` in `PROJECT.json`.

## 2. The modules

| Module | Models | Built on |
|---|---|---|
| `HostScan` | what a scan promises: one result per port, right unless the context ended, complete unless it ended | abstract |
| `PortPool` | the goroutines around one host's ports, with the connect probe | refines `HostScan` |
| `BatchScan` | ScanHost: refusals, the pool, collection, the return | EXTENDS `PortPool` |
| `StreamScan` | ScanCIDRStream (ScanHostStream is one host, one worker) | refines `HostScan` for each host |
| `RateLimiter` | WaitCtx under a clock, several limiters | |
| `Context` | the one `ctxDone` that the families of probes share | |
| `RawProbe` | the raw TCP probes, their listeners, the network | `Context` |
| `OneShot` | probes of one send and one read: UDP, SCTP and IP protocol scans, the methods of discovery | `Context` |
| `Relay` | FTP bounce, proxies, idle scan: dialogues with another host | `Context` |
| `PortScan` | scanPort: one family of probes at work | EXTENDS `RawProbe`, `OneShot`, `Relay` |
| `Discovery` | DiscoverHosts and DiscoverHostsStream | refines `HostScan`, hosts for ports |
| `Ranges` | CIDR ranges: enumeration in machine words, exclusion sets | |
| `RangeScan` | ScanCIDR, ScanRange, SpoofMAC | EXTENDS `Ranges` |
| `Interrupt` | the context that Ctrl-C ends, counting the probes begun after it | `Context` |
| `ServiceProbe`, `OSDetect`, `Traceroute`, `ScriptRun` | the analyses after a scan, one module each | `Interrupt` |
| `Session` | the command line: from the arguments to the last analysis | EXTENDS those four |
| `*Proofs` | the theorems about the module of that name (PortPoolProofs: also `BatchScan`) | |
| `MC*` | the instance TLC checks | |

The promise of `HostScan` ties the pools together. `PortPoolProofs` proves that
the port pool implements it, and that ScanHost takes only steps of that pool;
`StreamScan` uses the pool through that promise, as `RangeScan` and `Session`
use a host scan; `Discovery` keeps the same promise for hosts.

**Port pool.** `todo` is what the feeder still ranges over and `in` the job
channel. It is a set, for the range over a Go map has a random order and the
channel holds a whole map. `pc[w]` follows the body of the worker's loop:
`range`, `lock` and `wait` inside WaitCtx, `probe`, `dial` inside DialContext,
`delay`. The result channel is the log `sent` of all that was put into it with
`received`, how much the collector has taken; room in the channel is
`Len(sent) - received < ResultCap`. When the context has ended, each `select`
may still take its other case. scanPortConnect's verdict is `Outcomes`: a dial
that fails for its own timeout is "closed", as the code has it.

**Streaming.** A host worker's scan is `PortResult` steps in any order and
`HostDone`, which needs all ports reported or the host's context ended. Sends
wait for room in the event channel. `cut` has the hosts whose HostTimeout passed.

**Rate limiter.** The body of WaitCtx is cut where it can be interleaved: at
the mutex, the wait and the return. The clock ticks between any two steps, so
the time read for `rl.last` may be later than the moment the timer fired.

**Probes.** A raw probe draws a source port, starts its listener, sleeps,
sends, and selects. The listener's socket sees every segment (`Deliver` offers
each one to all listeners), from the target or from elsewhere, and `Matches` is
its filter. The network is free to lose, delay and repeat. The fifteen or so
functions of the form "send, then block in one read" are one state machine in
`OneShot`, and tables say how they differ: which packets of its host the
socket reads (`Data`) and which ICMP errors fail that read (`Errors`; anyone may
send those, a router on the way as well), what the function makes of either
(`Reads`), and of nothing (`Unsent`, `Silent`). Whether it looks at the context, and
where, is in the guards. A ping goes through its ports with `left`. The ARP ping
is a free choice, for what it finds in the table need not be an answer (`ReadTable`). In `Relay` the FTP server answers each
command in one line or two; `inbox` has the lines not yet read, because the code
reads one line per command. Each proxy grants, refuses or fails, in order. The
zombie's segments pass `listenForIPID` only when longer than a bare reset (see 6).

**Discovery.** Feeder, workers, closer and reader; a stream's reader may leave.

**Ranges.** `CreateHostRangeV4` counts in words of `Width` bits as the loop over
uint32 does, `CreateHostRangeV6` in integers; `HostRangeCorrect` says what is meant,
with no loop, of every range: TLC evaluates it for addresses of three bits and
`RangeScanProofs` proves it for any width. One goroutine scans;
ScanRange walks what GetLocalRange yields, an IPv4 range (`LocalRanges`), ScanCIDR any (`Calls`).
`down`, `address` and `up` are the three commands of setMAC, each of which may
fail, and the deferred restore runs on every way out of the loop.

**Session.** `stage` is where `run` has got to. Each analysis is a module with
its own program counter and variables, and `Session` runs the one whose stage
it is; the report may be any that ScanHost can return. Server, routers, target
and scripts answer as they like. The traceroute hears, besides the answers to
its probes, any ICMP message the host receives from anyone (`ForeignICMP`), the
target's late reply to another scan among them. `rounds`, `said`, `ran`, `misled`
and `late` are history: what the analyses heard and sent, against which their
results are judged. The
ports of a report are different ones, as they are the keys of the map that
`resolvePortList` returns (stream.go:215-241). `sort.Slice` is not stable, so
`Sorted` allows any order among the entries of one script.
`GrabBanners` uses `opts.Timeout` without the default that ScanHost's copy of
the options gets; `timing` says whether a template has set it.

## 3. What is checked

The instances are small, and each bound is there to let the interesting case
happen:

| Run | Instance | Shows |
|---|---|---|
| `batch_scan` | 3 ports (accept, refuse, silent), 2 workers, every combination of MaxRate, ScanDelay and OpenOnly | the pool's invariants, HostScan as its abstraction, ScanHost's result, termination |
| `stream_scan` | 3 hosts, one excluded; 2 ports; MinHostgroup 3 cut to MaxHostgroup 2; event channel of 2 | the order of events, the close, the host group, each host's stream as a HostScan, termination |
| `rate_limit` | 2 callers of one limiter and 1 of another, 2 calls each (`MaxRounds`), interval 2, clock to 4 (`MaxTime`) | spacing, mutual exclusion, no caller stuck |
| `raw_probe` | 2 raw probes, 2 source ports that may coincide, 1 answer per port (`MaxAnswers`); every one-shot probe with 2 ports and 2 strays (`MaxStray`); proxies of two schemes and an unsupported one; IP IDs modulo 4 | verdicts rest on evidence, evidence is not lost; probes and listeners end |
| `discovery` | 4 hosts (both methods answer, one each, none), 2 workers, stream buffer 1 | each host judged once, by its first method that answers; goroutines end once the context does |
| `range_scan` | addresses of 3 bits, 7 ranges for ScanCIDR (prefixes of every length, both families, not a CIDR) and 2 local ones, 3 ranges and 2 addresses excluded, with and without a spoofed MAC | which hosts, their order, completeness or error, the interface's state |
| `session` | 2 ports, a router and the target, 3 hops, 1 retry, 1 ICMP message, of anyone, that answers no probe (`MaxForeign`), a target with or without an IPv4 address; 2 probes in the database, intensities 8 and 9; 2 rounds of OS detection of 3 + 2 probes and up to 2 matches (`MaxMatches`); 2 scripts of which one is selected twice, 2 script workers | what each analysis makes of what it hears; quiet after Ctrl-C; termination |

Two workers suffice for two of them to be at the same select or to race for
one job or one event; three ports give each worker a second turn and leave one in the
queue when the context ends. A stream buffer smaller than the work makes
senders wait. Two source ports give both the collision and its absence; two
ports let a ping fail on one and succeed on the next, and two strays can come
before and after an answer. Three bits give ranges of one, two, four and eight
addresses, hence of none, none, two and six hosts. Two rounds show a better
round before a worse one and after it; intensity 8 cuts the list of two probes to
one, 9 does not. The proofs remove the bounds for the invariants they cover.

Five runs end in a violation, each of something the repository says of itself:

* `batch_scan_canceled`: a canceled scan returns `nil` where `errors.go:27`
  promises ErrScanCanceled; nothing in the package ever returns that error.
* `rate_two_hosts`: MaxRate is "the maximum packets per second" (`scan.go:90`),
  but hosts scanned in parallel have a limiter each.
* `raw_name_target`: the README's `gomap -s syn example.com` hands a name to
  `ipToBytes`, which indexes past its labels and panics.
* `range_excluded`: ScanRange does not look at ExcludeHosts (`scan.go:60`). The
  property is about addresses excluded by themselves, which ScanCIDR does skip.
* `session_versions`: `gomap -V example.com` (README.md:64) reads with a
  deadline that has passed, though "default 3s" (`scan.go:27`) is promised: a
  server that answers at once gets no version.

**Fairness.** Weak fairness of each goroutine: Go's scheduler runs what can
run, a send or receive that stays possible is made, timers fire (every probe
has a timeout after `defaults()`), and clocks advance. Nothing is assumed of
packets, relays, servers, the network, the context, Ctrl-C or the `ip` command,
nor that a discovery stream's reader keeps reading or leaves: the actions that
need something to arrive (`Answered`, `Stray`, `RelayReply`, `Network`, `Signal`)
are under no fairness. Three assumptions stand for the rest of the world:
`StreamScan` has a consumer that drains, as ScanHostStream's comment asks;
`RateLimiter` bounds the calls, so that a mutex contended for ever does not
arise (Go's mutex is fair to a waiter after a millisecond); and strays and foreign
ICMP messages end, since each one starts a read with SO_RCVTIMEO anew and a
steady flow of them would postpone its timeout for ever.

Deadlock is checked in every run. A specification ends in an explicit stuttering
action whose guard says that every goroutine has gone, so that a leaked
goroutine shows as a deadlock.

## 4. What is proved

The theorems hold for every value of the constants that satisfies the module's
ASSUME.

* `PortPoolProofs`. The inductive invariant `Inv` joins four facts to type
  correctness and `OneResultPerPort`. `Disjoint`: a port is in one place at most,
  still to be fed, queued, with one worker, or in the log. `Covered`: until the
  context ends it is in one at least. `Closing`: the order in which the channels close and
  the goroutines end. `Truthful`: a logged state is the verdict, or "filtered"
  after the context ended. `OneResultPerPort` alone is not inductive, for a second
  result could come from a second worker with the same job or from a port queued
  twice. `CompleteUnlessCanceled` follows from `Covered` and `Closing` with no worker
  left; `SendNeverBlocks` by the pigeonhole principle, since the log and the
  worker's own port are distinct ports; `PromptCancel` from a second
  invariant, `Budget` (results since the context ended plus workers in
  flight never exceed the workers). `ImplementsHostScan` maps each step of the
  pool to a step of HostScan or a stutter: Receive is the abstract Report.
  `CallRefinesPool` shows that ScanHost's refusals, collection and return are
  steps of that pool or stutters; with `CallInv` (the slice holds what was
  received and kept, once each, and the progress counts it) and the pool's
  invariants it gives `ReturnsWhatWasFound`. `ScanIsBounded` counts the
  work that is left: nine steps for a port not yet fed, eight for a queued one, what each
  worker has before it, one for a result in the channel, and the three steps that
  close the channels and end the collection. Every step but the context's end
  lowers that number.
* `StreamScanProofs`. A host is unfed, queued, with one worker, or finished, and
  in one of these only (`Feeding`, `Scanning`, `Ending`, `NoneLost`); `Closing`
  is the order in which channels and goroutines end. The order of events is
  stated of `seen \o out`, what was consumed and what is in the channel, which
  the consumer's step leaves as it is; `DoneIsLast`, `ClosedWhenAllDone` and
  `HostgroupBound` follow. `EachHostImplements` maps the consumer's step to
  HostScan's Report or Finish, for every target at once. It needs `TellInv`: an
  event about a port has a worker that reported it or a Done behind it
  (`ToldByWorker`), and what a worker has reported it has sent unless `OpenOnly`
  drops it (`WorkerTells`), so that a Done leaves nothing untold (`AllTold`).
* `RateLimiterProofs`. `Spaced` rests on: the pass times of a limiter are at
  most `rl.last`, a waiting caller's timer is due no earlier than an interval
  after `rl.last`, and the mutex keeps `rl.last` unchanged while it waits. That
  last fact is `MutexOwned`, proved first. `RateCorrect` draws the conclusion
  MaxRate is about: passes an interval apart lie in different intervals, hence
  `RateHeld`, at most k of them within k intervals, wherever the span begins.
* `RawProbeProofs`. `Justified` is strengthened with `HeardWasSent`: whatever a
  listener has read or handed over was answered by the target for that probe.
* `PortScanProofs`. `RawScansRefine`: the composition implements `RawProbe`, so
  its theorems hold in it. `OneInv` proves `VerdictHasAnswer`, which is not
  inductive by itself: `Undecided` adds that a probe still under way has
  heard nothing that would have decided it, for an earlier refusal could else be
  followed by another verdict. `ReadsScan` and `ReadsPing` say what the tables
  make of a packet. `RelInv` proves `RelayVerdict`: a line that
  decides can come only from the command it decides about (`LinesFrom`, for
  which `NotYet` says that a command goes out once), and if every reply has one line,
  the line read next is the reply to the command it is read for (`Dialogue`).
* `DiscoveryProofs`. A host is in one place (`Placed`) and in none only after the
  context ended (`NoneLost`); a worker has tried exactly the methods before its own
  (`Judging`) and what it reports is true (`Truthful`). The refinement
  of `HostScan` maps the reader's step to Report.
* `RangeScanProofs`. `LinkInv` ties each program point between two commands to
  the state of the interface; `ScansSpoofed` and `MACRestored` follow.
  `HostsOfRange` is about the loops of `CreateHostRange`: a range is a power of
  two long, so that its bounds, computed in words, do not wrap except for the two
  addresses of `NoWrap`, and what is enumerated are the addresses between them.
  That powers of two are positive and multiply needs no induction: TLA+ defines
  `2^n` by recursion, but the library has it as the size of a set of subsets.
  `LoopInv` then says of the loop that what was tried is what is wanted among
  the hosts before `next`, in order; `TriesAllOrFails` follows at the loop's end.
  `CallIsBounded` has the variant of the call: two steps for each host that is
  left, and those of the three commands before and after the loop.
* `SessionProofs`. `OSInv` adds to `BestRoundKept` that as many
  rounds ended as tries were made until the context ended, `TrInv` to `HopsExplained` what is under way for which
  time-to-live: an answer to an earlier hop may be taken for a later one,
  never the other way round. Nothing is assumed of who sends the messages that
  answer no probe; a hop one of them was taken for is in `misled`. `QuietInv` proves `QuietAfterInterrupt`: at most one analysis is
  under way (`Staged`, `Applied`), and what is about to go out was decided on
  when nothing was late yet (`Decided`); for the scripts the late ones and those about to
  run never exceed the workers. `SvInv` proves `VersionsMatch`: the ports
  still to be examined are different ones and have no version yet, and a probe
  whose answer is awaited has heard nothing (`Waiting`), so that an answer that
  fits is the last match of the history (`RecordHeard`) and the k-th version that
  of the k-th match (`Recorded`). That is how the code does it, soft matches
  included, and more than `VersionsMatch` asks (see 6). `ScInv` proves
  `ScriptsReported` by double entry (`Balanced`): for each script of the port
  that is served, what the result channel holds equals the runs with something
  to say, and the turns selected are those in the channel, with a worker
  (`Holding`) or run. Without the second, a script lost between two workers would go
  unnoticed until the report; without `Progress`, runs for a port that is not served
  could be added to a report already made.

The lists these properties speak of are described by which elements they have,
how often and in which order, never by a recursive operator: the k-th
element chosen is the one with k chosen ones up to it (`Nth`, whose existence
`NthExists` derives from an injection between sets of the same size), an entry is
counted by the size of a set of indices (`Times`), and sorting is a bijection of
indices. That replaces the induction this prover cannot do.

`TypeOK` is a theorem of its own where a run checks it; elsewhere it is part of
the inductive invariant. With these every invariant and action property the
runs check, and each refinement, is proved.

Only model-checked: liveness (`ScanReturns`, `StreamEnds`, `CallsReturn`,
`ProbesReport`, `ListenersEnd`, `ProbeEnds`, `CanceledDiscoveryEnds`,
`DiscoveryEnds`, `Returns`, `SessionEnds`), which is out of this prover's reach
under fairness, as are ENABLED and induction over data. For a host's pool and a
range scan `ScanIsBounded` and `CallIsBounded` prove the half that needs no fairness,
that they cannot go on for ever; that they cannot stop half-way, a step being
possible until all have gone, is what TLC's deadlock check shows.

## 5. What is not modelled

* Names, services, reasons and timestamps of results; DNS beyond its failing;
  packet contents beyond what a filter or a verdict looks at; tracing, progress
  output and every output format.
* The generated service table (`services_generated.go`, four fifths of the
  repository's lines) and its generator: data. The map therefore covers a small
  share of all lines, and about three tenths of the hand-written ones.
* Fragments and decoys: packets sent besides the probe, on whose fate no state
  depends.
* Port lists, timing templates, option parsing, data loaders, read-outs of
  kernel tables: functions from text to tables, which unit tests reach.
* The contents of fingerprints and patterns: a match is hard, soft or none, a
  fingerprint has so many matches, perfect or not.
* What a script does: it says something, fails or says nothing. The registry is
  filled by `init` functions and only read afterwards.
* Resume: `SaveResume` is called by no code of the repository, so there is no
  loop around it whose crashes could be modelled.
* The pool of the IP protocol scan, a copy of the port pool without limiter and
  delay; a negative `Workers` in the streaming calls, which skip Validate; two
  concurrent calls that spoof one interface; `MinWorkers`.
* The two IPv4 ranges at which the loop over machine words wraps (`NoWrap`).

Two timing effects of the raw probes are present as interleavings but no
property is about them: the listener may open after the answer arrived, and its
deadline may pass before the probe's.

## 6. What reading the code for the model brought up

Each of these is modelled as the code has it unless it says otherwise. Besides
the five findings:

* The command scans its first target only: `--input-file`, `--random-targets`
  and `--resume` add targets that no one scans.
* `main.go:207` keeps catching the signal, so a second Ctrl-C does nothing.
* `osdetect.go`: the fingerprint shown is the last round's, the matches are
  those of the round with the most of them (comment at 237); a perfect match among fewer matches is
  dropped; an error in the last try drops earlier matches. The closed port may be
  a filtered one.
* `probedb.go:499` promises an order by rarity and gives the file's.
* `banner.go:189` says "keep trying other probes" of a soft match, and the next
  line that matches returns it: a hard match of a later probe is never looked
  for. `ServiceProbe` does as the code does; `VersionsMatch` is worded so that it
  holds under either reading.
* `discovery.go:349-361` compares with "connect: connection refused", but a read
  reports "read: …": an ICMP unreachable never makes a host alive, contrary to
  the comments at 315 and 340.
* The ARP ping takes entries that are pending or have failed for hosts that are
  up, so that the host it has just asked for in vain is alive, and its table
  is keyed by hardware address, so that hosts that share one hide each other. Its
  verdict rests on nothing that came in: `VerdictHasAnswer` excepts it.
* Any ICMP error a router sends fails the read of a UDP or protocol scan: the
  port is "closed", also for a host unreachable or a filter's prohibition. A
  router's port unreachable makes a host alive to the connect ping.
* The UDP scan and the echo request take the context's deadline for theirs:
  with a host timeout a silent port may be "filtered" and not "open|filtered".
* An SCTP ping accepts any SCTP packet; a COOKIE-ECHO that could not be sent is
  "open|filtered".
* A traceroute takes any ICMP message of three types for its hop's reply, whoever
  sent it: the target's late answer to OS detection or to a UDP scan ends the
  trace at the hop that waits, the first perhaps. To a target without an IPv4 address it
  sends to 0.0.0.0, this host itself, and never reaches the target.
* `idle_linux.go:128` asks for forty bytes although `IPConn.ReadFrom` strips the
  IP header, so that every bare reset is dropped and the zombie never answers
  (the comment at 121 counts the header in).
* An FTP LIST that is refused or not answered makes a port closed, a reply of
  several lines shifts those after it; an HTTP proxy's refusal with "200" in it
  is consent.
* /31 and /32 ranges have no host; ScanCIDRStream and DiscoverCIDR call them
  invalid. A range among the exclusions spares its first and last address,
  so that an excluded /31 or /32 is scanned. `TriesAllOrFails` asks for the hosts that
  no exclusion covers and forbids ScanCIDR those that the code's sets name; it
  takes no side on the addresses between.
* With fragments, a scan sends its probe in pieces from another source port and
  then once more whole (not modelled).
* Overlapping script patterns run a script once for each of them.

## 7. Plan

Done: the pools and streams, the limiter, every kind of probe, discovery, range
scans, the command with its four analyses, and proofs in eight modules.

What is left, in this order:

1. The variants of discovery, streams and the session, as for the pool.
2. A second call beside the first in `RangeScan`, for two scans that spoof one
   interface, once the code says what should come of it.
3. Port specifications against a reference definition over bounded inputs.
4. Resume with crashes between the steps of a save, if the command comes to
   write the file it reads.
