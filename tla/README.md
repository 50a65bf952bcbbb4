# A TLA+ model of the iLS gateway

The gateway runs on an OpenWrt router. nftables rules redirect TLS connections
of selected devices to the daemon `locspoofd`, which either relays them
untouched or, for a short list of host names, terminates TLS, fetches the
response from the real server and rewrites the location in it. Root-owned shell
scripts fill and empty the nftables sets, watch the daemon, and are meant to
*fail open*: whenever something is wrong, no device is redirected.

Two things are hard to test here. Inside the daemon, goroutines share slots,
a memory budget and a hand-over queue that must balance on every path,
shutdown included. Outside it, four scripts and an administrator work on the
same nftables sets, marker files and configuration without a common lock. The
modules below model both, and the binary codec between them as an algorithm.

## Inventory

| Part | State | Operations | Interacts with | Hard because | Correct when |
|---|---|---|---|---|---|
| byte budget (`mitm.go`) | free bytes, mutex, condition variable, timers | acquire, release | request handler | timer, broadcast and deadline race | bytes conserved, nobody sleeps on free bytes, acquire returns |
| connection router (`transparent_server.go`) | connSlots, connReleases, listeners, queue | accept, route, offer, Shutdown | net/http, relay | a slot's owner changes; stop races the offer | one slot per live connection, a stopped server drains |
| relay and classifier | bytes collected, two copies | read, classify, dial, copy | router | arbitrary splits of the stream, half-close | far end sees exactly what was sent |
| request handler (`mitm.go`) | workSlots, reservation, response, counters | handle | budget, upstream, health | many early returns, partial writes | slots and reservations balance, header describes body, counters true |
| health (`health.go`) | counters, activity file | record, persist, load | handler, control | a write fails or the daemon dies in between; the file has a size limit and an older format | the file never forgets a device |
| control server (`control/server.go`) | socket, in-memory bypass | status, bypass_on, reload | daemon, watchdog | memory against marker file | markers are authoritative |
| daemon main | ready file, policy | start, hot reload, shutdown | all of the above | reloads overlap, die half way, or meet a crash | only a vetted policy runs; a reload is all or nothing |
| profile manager (`locspoof-profile`) | active flags in UCI | activate | init script | the reload fails after the commit | a failed activation is undone |
| `locspoofctl` | nft sets, markers | clear, apply, verify, refresh_targets, bypass_on/off | nft, UCI, DNS | steps fail one by one, configuration re-read | marker only for a verified policy |
| watchdog | enabled marker, requests | activate, process_requests, run_once | locspoofctl, daemon, procd | everything changes under it | fails open, converges, honours requests |
| init script, `locspoof-service` | procd registration, runtime files | start, stop, reload | procd, locspoofctl, watchdog | run next to the watchdog | stop and disable clear the sets |
| CA store (`locspoof-ca`) | certificates and keys on disk | create, repair, sign the profile | init script | crash between two files, power loss, damaged files | the CA is never replaced, the rest is repaired |
| WLoc codec | none | parse, rewrite | handler | lengths around lengths, limits, ambiguous markers, cut bodies | exactly the locations change, every length is right |
| SOCKS5 dialer, original destination, enrollment handler, client tools, migration, LuCI | little or none | | | | |

`PROJECT.json` lists every part with its status, and under `hazards` what can go
wrong at which line.

## Modules

| Module | Models |
|---|---|
| `Quota` | abstract: a pool that is never overcommitted |
| `ByteBudget`, `ByteBudgetProofs` | `byteBudget`, implements `Quota` |
| `ConnRouter`, `ConnRouterProofs` | `serveTransparent`, `routeTransparent`, `queueListener`, `ConnState`, `Shutdown`; `connSlots` implements `Quota` |
| `Relay`, `RelayProofs` | one connection: `readAndClassify`, `relayPrefixed`, `tlsServerWithPrefix` |
| `RequestHandler`, `RequestHandlerProofs` | `Server.handle` for concurrent requests, `SetLimits`, `bufferReservation`; `workSlots` and the reservations implement `Quota` |
| `CAStore`, `CAStoreProofs` | `locspoof-ca`: `run`, `ensureProfileSigner`, `ensureLeaf`, `atomicWrite` |
| `Runtime`, `RuntimeProofs`, `MCRuntime` | the daemon's policy and its hot reload, the runtime configuration, profile activation, the activity file |
| `WLoc`, `WLocProofs`, `MCWLoc` | package `applewloc` as operators; the reference, the damage and the properties |
| `Lifecycle`, `LifecycleProofs`, `MCLifecycle` | `locspoofctl`, `locspoof-watchdog`, the init script, `locspoof-service`, and what they see of the daemon |

In each module a group of definitions that an earlier comment calls a mistake
(`EnoughButOne`, `OfferDropped`, ...) is not part of the specification: it is a
plausible slip in the code that the named property must be able to detect.

### ByteBudget

A client is one request. `pc` follows it through acquire: `lock` (blocked on
the mutex), `check` (the loop test, mutex held), `park` (timer armed, not yet
in Wait), `wait`, then `held` or `refused`. `waitset` is sync.Cond's notify
list. The timer's callback is a goroutine of its own that must take the mutex,
so it may run late, after its waiter has been woken, and even after the bytes
were taken. `expired` is the deadline; time is otherwise absent.

Fairness: timers go off; a goroutine with the mutex runs on; and a goroutine
waiting for the mutex gets it (strong fairness, from sync.Mutex's starvation
mode). Nothing is assumed of holders: `AcquireReturns` holds even when nobody
ever releases.

### ConnRouter

`pc` follows one connection's goroutine, and after the hand-over net/http's.
`slots` is the fill of `connSlots`, `registered` the keys of `connReleases`,
`released` the connections whose `sync.Once` has fired. `Accept`, the
`routeTransparent` steps, the accept errors, the two branches of
`serveTransparent`'s select and `Shutdown` are actions. net/http is external: it
takes connections from the queue until the queue is closed, and may end one at
any time.

Fairness: goroutines that can run do; a closed listener's Accept fails; the
read deadline bounds classification; a server that is stopping ends its
connections after the current request (net/http turns keep-alive off, and the
timeouts of `http.Server` bound the request). Relays are exempt: nothing bounds
them, and `StopDrains` says so.

### Relay

A stream is the sequence of the chunks Read returned, numbered as sent, so
"in order, nothing twice, nothing missing" is `s[i] = i`. The parser is
abstracted to `hello`: what the first bytes turn out to be, and after how many
chunks that shows; a hello longer than `MaxHello` is passed through. Fragmented
or malformed hellos are hellos of kind `other`.

### RequestHandler

`kind` is what screening tells apart; `body` is its encoding and whether it was
rewritten; `header` the Content-Encoding sent; `log` the observer calls made
for the request. The outcomes of decoding, rewriting and encoding are chosen
freely. The byte budget appears as the pool `ByteBudget` implements: a grant
when a reservation fits, a refusal (after five seconds) when it does not. Both
over-limit paths of `handle` are one action, as `readBounded` reports every
over-limit body as `errBodyLimit`. The error texts of `reportError` are left
out. The rewrite variant without metadata behaves as the detailed one here;
the daemon installs the detailed one.

Fairness: a request's goroutine runs; the upstream timeouts and the server's
read and write timeouts bound the rest.

### Lifecycle

Every shell process is the list of commands it has still to run; a command
that fails drops the list up to the next handler of an exit code. So each
script is written as a sequence of commands close to its text, and any two of
them interleave between any two commands. One nft command, one file command
or one test of a file is a step. The state shared is `nft` (is fw4's table there, what do
the device sets hold, are the target sets filled), `files` (markers, requests,
socket, ready file), `uci`, the daemon's stage of start-up, procd's
registration, and `starts`, how often procd would still start the watchdog.
When procd ends the watchdog, the locspoofctl it was waiting for runs on as
`orphan`. A test of an exit code that is zero, and the end of a child, are no
steps (`Ready` skips them): no other process can tell.

procd runs the watchdog with `respawn 3600 5 5`: an instance that exits before
an hour is over is started again, five times in a row. `SpawnWatchdog` takes one
of `starts` and is disabled without any, `Loop` may set them back when the
watchdog leaves (it may have run for the hour), and a new registration does.
`GaveUp` is a registered service that procd no longer starts the watchdog of.
A failed `wait_for_daemon` is such an exit, and needs no fault but a daemon that
comes up slowly.

Abstractions: two device sets stand for the six (one filled before the other);
a device list is a version number, 0 for an empty or invalid one; several files
removed by one `rm` go in one step; the two reads of the configuration in
`verify` are one; `wait_for_daemon`'s twenty attempts are one step that
succeeds or fails; of `refresh_targets` the failing `mktemp` is a step of its own,
as it returns without the undoing of `fail_refresh`; directory, PKI and configuration preparation is one step
that may fail; `sync_monitor` fills sets nothing else here reads, so it only
fails when the table is missing; `reload` of the init script is `stop` followed
by `start`; at most one orphan exists at a time; nobody but procd kills the
watchdog. procd, rc.common, fw4, uci and
the shell are external.

Fairness: shells run, and procd starts the watchdog as long as it has starts
left, which is all that `respawn` gives. The daemon need not come back. So the
liveness properties end in `GaveUp`, or assume that it does not last. This is
not for show: without that exception TLC finds a violation of `FailOpen` within
the bounds of the run. The daemon is slow, each start of the watchdog waits in
vain and exits, procd gives up; a `reload` against the daemon, which by then
listens but is not healthy, fills the sets, and nobody is left to empty them.
What does hold then is `EnabledIsWatched`: the enabled marker of a registered
service never outlives its watchdog, so that a service given up on is off for
`bypass_off` and for the next `activate`.

`left` bounds edits, starts, other commands, bypass requests and faults; `Budgets` lists the
combinations that may come together, and a behaviour starts with one of them.

### Runtime

The same scripts seen from the configuration's side. A text is what a UCI file
says (does it parse and validate, is the service enabled, which options need a
restart, which profiles are complete and which active); a policy is what
`config.Load` makes of it. `file` is the copy the daemon is started with, `next`
the `.reload` file that all reloads share. `shell` follows each
`locspoof-service reload` from its copy of the configuration through the control
socket to the rename; `load` and `store` are the two halves of the function main
gives to `SetReload`, which runs in one goroutine per connection, so two of them
interleave. A killed shell leaves its files, and its request is still served.
`manager` is `locspoof-profile activate`, whose `reload` is the init script's
stop and start. `activity` is the device history in memory and in the file;
`RecordModified` and `Persist` are the halves of one locked call, so that a
crash may come between them. `SetActive` is the loop of `uci set` and its commit:
it changes the flags of the profiles in the configuration as it is then, and
nothing else.

`alone` remembers that nothing else has touched the configuration since a
command began. The properties about one command's outcome are stated for such
commands; `PolicyVetted`, `ActivationKeepsEdits` and `HistoryNeverShrinks` hold
for all.

Abstractions: the options of `hotReloadCompatible` are one value `own` (procd
restarts the instance only when its command line changed, which of them only
`upstream_socks5` can do, so `StartEnabled` leaves both outcomes open); the copy of the configuration
is one step and so is each rename; a start that fails is one step; rc.common may
or may not hand on start_service's exit code; the size limit of the activity file is a number of
entries. The nft half of the same commands is `Lifecycle`'s.

### WLoc

Operators only: `readVarint`, `parse`, `rewriteRecord`, `rewriteProto`,
`location`, `unwrap` and `RewriteBody` as in the package, on sequences of bytes.
The size of a byte, the length of a varint, the values of a field number and the
limits are constants; `Half` = 128, `Groups` = 10, `NumWidth` = 2^32, `NumLimit`
= 2^29 and the package's limits give the package. The run takes `Half` = 8, that
is bytes of 4 bits, and varints of up to 4 bytes, so that the last byte of a
varint, the two-byte length and every limit are within reach. Envelope and
payload lengths are then as tight as 65535 and 4 MiB are in the package.

`MCWLoc` builds a message from parts that carry both the bytes sent and the
bytes that must come out, so the reference parses nothing. The message goes
into an envelope, is perhaps cut or changed in one byte, and is rewritten. One
part is a field whose bytes look like a marker and a payload: within a marker
envelope it makes the body ambiguous, within any other it changes nothing. (That
payload has no location. If it had one, and the message had no envelope, the code
would find one marker and rewrite what is behind it.)

What the model leaves out is the floating-point half: `Validate`,
`jitterProfile` and the rounding of degrees; a profile is the integers
`location` would write. `int` has 64 bits, as on the amd64 and arm64 targets the
repository builds for, so `int(Uint32)` is the number itself. Loops are recursive functions (`readGroups`,
`fieldsFrom`, `joinedUpTo`), not RECURSIVE operators. Three things seen on the way: a field number is cut to 32
bits before it is compared with 2^29, so a key with higher bits set is accepted
under its low bits; the nesting limit of 8 is never reached, as the rewriter
goes two levels down; and the fields added may take a location past the limit
of fields, where `AnswerWellFormed` makes an exception.

### CAStore

A file is whether it parses, whose key it holds or certifies, whose key signed
it, and whether it is private; keys are named after the run that made them.
`pc` follows `run`; every `atomicWrite` goes through `create`, `filled`,
`synced`, `renamed`. `disk` is what a reader sees and `durable` what a power
loss leaves: a rename is durable once the directory is synced, and a file
renamed before its contents were synced may come back torn. Crashes, power
losses, failing operations and damage (a file removed, broken, expired, replaced
by a foreign one, its mode changed) may happen anywhere; `faults` bounds them,
and `Undisturbed` says that none happened since the run started.

Abstractions: of a certificate's many conditions (dates, usages, host name,
signature) only "valid" and "signed by" are kept; the chmods at the end are one
step; the directory's mode is left out; leaves are looked at in any order. The
temporary file of a killed run stays behind and nothing ever reads it.
openssl is external: it needs a certificate and a key that match.

## Runs

| Run | Bounds | Shows |
|---|---|---|
| `bytebudget` | 3 requests, capacity 3, reservation 2 | one fits, two wait at once, one byte to spare: all races of release, timer and deadline; bytes conserved, no lost wake-up, timers reach sleepers, `Quota`, acquire returns |
| `connrouter` | 3 connections, 2 listeners, 2 slots | one connection is turned away; every stop races every stage |
| `relay` | 4 chunks each way, hello limit 3 | hellos shorter than, as long as and longer than the limit |
| `relay_halfclose` | 2 chunks | **violation**: see Findings |
| `request` | 3 requests, 2 work slots, 1 reservation | a request waits with a slot in hand while another is answered busy; all returns of `handle` |
| `lifecycle` | 2 faults with 1 edit or 1 request; 1 start and 1 other command; 2 commands other than start; 2 device lists, 2 starts of the watchdog (`Respawns` = 1) | crash, firewall event or failing command at any two points, next to an edit or a bypass request; start, stop, reload, bypass_on, bypass_off against the watchdog, restart included; procd giving up (490,000 states) |
| `runtime` | 2 shells, 2 profiles, 7 texts; five budgets of edits, reloads, service commands, activations, rewrites and faults | reloads overlap with each other, with restarts and crashes; activation with a fault or an edit at any point; a history of 3 keys around a limit of 2 |
| `wloc` | one- and two-part messages of 9 kinds, 5 envelopes, every cut, every byte replaced by 8 values | all limits from both sides (payload 254 to 257 of 255, body up to one past the limit, one field too many) |
| `ca_store` | 2 hosts, 3 runs, 3 faults | a run, one that repairs after it, and one that finds the result; three faults reach a crash during the repair of a damaged file |
| `ca_profile` | 1 host, 1 run, no fault | **violation**: see Findings |
| `stop_race` | 1 stop | **violation**: see Findings |
| `disable_reload` | 1 reload | **violation**: see Findings |

Three clients are enough for the pools: one that holds, two that wait or
interfere; the theorems cover any number. The bounds of `Lifecycle` and `Runtime`
are the budgets their MC modules list; two faults allow a failure during the
handling of a failure, one respawn lets procd give up and lets a second watchdog
find what the first one left, as further ones would find it again; two shells and two edits let a reload overtake another
with a different text. In `wloc` the replaced byte takes the values that change
a length, a wire type, a field number or a continuation bit.

The main properties:

- `NobodySleepsOnFreeBytes`, `SleeperHasTimer`, `AcquireReturns`: no lost
  wake-up, and the deadline works although the timer may fire too early.
- `SlotsMatchHolders`, `ReleaseEntriesLive`, `StopDrains`: the slot of a
  connection offered while the server stops is given back exactly once, and no
  goroutine is left in the offer.
- `ByteForByte`, `EndedDirectionComplete`: replaying the prefix neither drops
  nor repeats nor reorders, and the relay returns only when one direction is
  complete or something failed.
- `CountersBalance`, `ModifiedMeansDelivered`, `HeaderDescribesBody`: each
  target ends in one outcome, `response_modified` counts only completely
  written rewritten bodies, and a failed re-encoding changes nothing.
- `FailOpen`, `Converges`, `RequestHonoured`, `BypassWins`: an unhealthy daemon
  empties the sets or recovers; once things stay put the policy in force is the
  configured one of an enabled service (of one that is disabled in the
  configuration `InForce` asks nothing; Finding 3 is about that); bypass requests survive failures, and a bypass wins over
  concurrent reloads, in the end. Not at once: an apply that `bypass_on`
  overtakes still fills the sets and writes `nft_applied`, until the next round.
  The comment in `bypass_on` ("must never claim an applied policy while bypass is
  active") is true of a single command only.
- `EnabledIsWatched`: relates a marker that three scripts write and remove to
  procd's instance; a `clear_startup_state` that left the marker would break it.
- `ActivationKeepsEdits`: an activation takes seconds, between the commit and the
  undoing of a failed one, and an edit made in between must survive. Undoing by
  restoring a copy of the configuration, the plausible alternative, breaks it.
- `PolicyVetted`, `ReloadTakesEffect`, `FailedReloadChangesNothing`,
  `FailedActivationUndone`: however commands overlap, the daemon runs a
  configuration that loads, is complete and agrees with the ports and limits it
  has; an undisturbed reload or activation succeeds completely or leaves things
  as they were. Without "undisturbed" this is not so: a second reload may replace
  `.reload` after the daemon accepted the first, and the first then installs a
  file that nobody has accepted; and a rename that fails after the daemon's answer leaves
  the daemon with a policy its file does not hold.
- `HistoryNeverShrinks`: holds up to the 64 KiB that `loadActivity` reads. Beyond
  them the next start ignores the file and the next rewrite replaces it, although
  the package's README says the history survives restarts.
- `RewrittenExactly`, `AnswerWellFormed`, `CutIsRefused`: the bytes that come out
  are the bytes that went in with each location, and each length around it,
  replaced; for damaged input, whatever is answered is a whole envelope of the
  same fields with the profile's values, and a body that was cut short is refused.
  `AnswerWellFormed` compares fields and not bytes: it unwraps and parses what
  came and what goes out, and is proved for every body.
- `CAKept`, `RunRepairs`, `SuccessMeansUsable`, `NothingTorn`: whatever was cut
  short or damaged before, a run never replaces a CA it finds, repairs all the
  rest, and reports success only if the store is whole. A crash between the
  CA's certificate and its key is the one that needs an operator: `RunRepairs`
  allows a failure only there.

## Findings

1. *Half-close* (`relay_halfclose`). `relayPrefixed` returns when the first copy
   ends and closes both connections. A client that shuts down its sending side
   and waits for the answer loses it. `docs/VALIDATION.md` promises
   byte-for-byte end-to-end passthrough.
2. *Stop* (`stop_race`). `stop_service` clears the sets while the watchdog's
   `locspoofctl apply` may be running. procd then ends the watchdog, not its
   child; the child fills the sets, and no daemon and no watchdog is left.
   `README.md` and `docs/VALIDATION.md` say stop clears the sets.
3. *Disable and reload* (`disable_reload`). With `enabled` 0,
   `locspoof-service reload` clears the sets but leaves the enabled marker; the
   watchdog applies the policy again in its next round.

4. *First profile* (`ca_profile`). When `run` creates the CA it goes on with the
   template, whose raw bytes are empty, so the profile signed then carries no
   certificate. The daemon serves it until the next start signs a new one. The
   package's README says the profile hands the CA to the device.

## Proofs

Each proof module proves `Init => IInv` and `IInv /\ [Next]_vars => IInv'` with
one lemma or step per action, and derives the properties.

- `ByteBudgetProofs`, for any finite set of clients, natural capacity and
  integer reservation. `NobodySleepsOnFreeBytes` is not inductive alone: `IInv`
  adds `Structure` (the mutex belongs to exactly the client between lock and
  unlock, only parked clients are in the wait set, one about to park has its
  timer, whoever got past the first test has a reservation that fits).
  `BytesConserved` bounds the free bytes and shows that release's clamp never
  acts. The refinement to `Quota` follows: only Take and Release change the
  holders.
- `ConnRouterProofs`, for any finite set of connections and listeners and any
  positive limit. `IInv` adds `ReleasedAreGone` (a connection whose release ran
  is closed), which makes the once in release redundant but never wrong.
- `RequestHandlerProofs`, for any finite set of requests and limits that satisfy
  `config.Validate`. `IInv` adds `HeaderKept` (the header is right already when
  rewriting starts) and `WithinLimit`. `LimitsAdmitOne`: for every configuration
  Validate accepts there is a work slot and room for one reservation. The counter
  properties rest on a second invariant, `Ledger`: for each place in `handle`,
  the exact observer calls a request can have made by then (`Entered`), and for
  the places after the answer the few complete ledgers (`Settled`). Counting the
  entries of those settles both properties; that no counter moves after `Settled`
  is what the deferred release must not break. `WorkSlotsRefinement` and
  `BudgetRefinement` show that `handle` uses both of its pools as `Quota`
  describes, so `RequestHandler` asks of the budget what `ByteBudget` is proved
  to give.
- `CAStoreProofs`, for any set of hosts and any number of runs and faults. `IInv`
  adds `Clean` (nothing unsynced is visible, and nothing on the way is torn) and
  `Fresh` (an undisturbed run about to put a CA file in place found none), which
  needs `faults <= before` so that no fault can look like an undisturbed run.
  `OnTrack` carries the outcome properties: for an undisturbed run, `Progress`
  says at each place what is already on disk (the CA and its key, private, from
  `signer` on; a signer that matches from `sign` on; the profile and every leaf
  not in `hosts` from `leaves` on). It assumes nothing of what the run found:
  each part is established by the run itself, by its test of the old file or by
  writing a new one. `HostsLeft` is needed so that `chmod` is reached with every
  leaf in place.
- `RelayProofs`, for streams and hellos of any length and any positive hello
  limit. `ByteForByte` alone does not survive the replay of the prefix: `IInv`
  adds `Collected` (how many chunks were read from the client and whether they
  are in the buffer or already sent) and `Finished` (a direction has ended only
  with everything read and nothing to follow), and that the buffer is in order.
- `LifecycleProofs`, for any administrators' shells, budgets and device lists.
  Type correctness is about programs here: a process carries the commands it has
  still to run, so `IInv` says that every such list is one of `Scripts`, and the
  lemmas show that these are closed under joining, taking the rest, and
  unwinding to a handler after a failure, and under the skipping of exit codes.
  One thing about order is needed: a
  failed flush of the first set skips the next command, so that flush must never
  be the last of its list.
- `RuntimeProofs`, for any set of shells, finite sets of profiles and devices,
  and any configurations. `IInv` adds four parts. `Vetted`: a request between
  its check and its store already holds a sound policy, so that the order in
  which overlapping requests store does not matter; it needs the process to be
  the one that checked, which is why `TypeOK` says that no request outlives it.
  `History`: memory is ahead of the file unless the file was too large to read,
  a legacy file has no hardware addresses, and nothing is newer than the clock.
  `Undisturbed`: for a reload that ran alone, where its text is at each program
  counter and what of the daemon and the file it has changed. `Managed`: an
  activation that ran alone can always be set back (`SetActiveBack`), and the
  daemon is down whenever the service is started for it. An actor that starts
  while another is under way takes its "alone" away, which is what makes the
  last two inductive without a lock in the code. `EditsKept` needs no more than
  types: it is a step-by-step argument that the flags are all that changes
  (`FlagsOnly`), and that setting them twice is setting them once (`FlagAgain`).

- `WLocProofs`, for every sequence of bytes, every profile and every size: what
  the loops of the codec compute, which takes induction over the input. The
  library states induction with an operator as parameter, which the provers
  cannot instantiate, so the module starts from a well-founded order and proves
  induction on a set (`Least`, `StrongInduction`, `Induction`), and from it that
  a recursive function exists (`Recursion`). Four layers rest on it.
  *Varints*: `ReadVarintBounds` (never past the body, never past ten bytes, the
  value fits), locality (only the bytes of the varint matter) and
  `VarintRoundtrip`. *Fields*: `FieldBounds` (the loop of `parse` advances and
  stays inside); a field is `Lexed` when its bytes are read as that field
  wherever they stand, as every field that was parsed or is written is.
  *Messages*: `Lists(b, i, gs)` says that the bytes from `i` on are the fields
  `gs`; such lists can be joined and have one reading, so what a loop puts
  together from parts is parsed as those parts. That gives the location (the
  profile's values, all of them and nothing else), the record and
  `MessageRewritten`. *Envelopes*: `wrap` leaves what it does not replace, the
  length bytes give back the length, and the strings and the prefix in front of
  the payload are found again: `RewriteWellFormed`. `CutUnwrap` is the other
  direction: an envelope reads nothing behind its payload. `AnswerSafe` adds
  that what the model sends is bytes. The invariant it uses, `WLocInv`, is small:
  all the work is in the operators. `Addressable`, the hypothesis of
  `AnswerWellFormed`, says that the length of the answer is a number of 64 bits
  and fits the four length bytes of the arpc envelope; the code writes
  `uint32(len(x))` unchecked, which the limit of 4 MiB on the body makes safe.

Assumptions are the named ASSUMEs of the modules: finite sets, positive
limits, Validate's inequality between the limits, at least one device list
(`MaxVersion`), host names that are not the names of the other files, and for
the codec that a byte has at least two bits and a varint two bytes, and that
the fields a profile sets are below the limit of field numbers and their keys
fit a varint (`WLocAssumption`; `MCWLocAssumption` adds that the bytes of the
model's envelopes are bytes).

`TypeCorrect` of `Lifecycle` and `Runtime` is proved and not among the properties
of a run: the runs spend their properties on the rest.

Only model-checked: every liveness property, those of `Lifecycle` included (the
prover has no fairness and no ENABLED), `EnabledIsWatched`, and two invariants of `MCWLoc`.
`RewrittenExactly` and `CutIsRefused` are about the order in which `RewriteBody`
tries its envelopes: whether the bytes of one envelope can be taken for another
depends on the messages, and with other sizes of bytes some could be.
What holds for every body is `CutUnwrap`. The two pool
refinements of `RequestHandler` are proved and not model-checked.

## Not modelled

- The floating-point half of the WLoc codec: TLC has no reals.
- The ClientHello parser and the syntax of UCI: sequential parsers of one input
  with unit tests; `Relay` and `Runtime` take what they decide as given.
- The control server's framing, and its in-memory bypass flag, which nothing
  reads but `status`. The flag is never reset, and the daemon (`requestOnly`)
  never looks at the marker that the comment calls the source of truth.
- `queueListener.Close`, which tests and closes a channel in two steps, is one
  step in `ConnRouter`.
- The SOCKS5 exchange, the original destination, HTTP enrollment, the client
  tools: straight-line calls without state of their own. Migration runs once.
  LuCI only issues commands.
- Of net/http, its response buffering: `ModifiedMeansDelivered` is about what
  Write reported. Of procd, the times: which exit is early is left open, and the
  daemon's own respawns are not counted, as it need not come back.

## Plan

Done: all modules above and the proofs above. Left:

1. In `Lifecycle`, the verdict of `status` (effective_enabled) against the state
   it was computed from.
2. The two steps of `queueListener.Close` with the start-up path of the router.
3. A proof of `EnabledIsWatched`: only an activating watchdog writes the marker,
   and every list of commands that ends it removes the marker first.
4. A bound on how much `RewriteBody` can add to a body, which would discharge
   `Addressable` from the limit of 4 MiB.
