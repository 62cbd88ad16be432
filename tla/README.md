# TLA+ models of bsv-p2p

bsv-p2p lets agents send each other messages and payments over libp2p, through
a relay, and wakes an agent when a message comes in. This directory models the
parts of it that keep state over time and that several callbacks, timers,
processes or nodes change: what each of them promises is stated as TLA+
properties, checked by TLC on small instances, and, for the properties that
matter most, proved by TLAPS for every value of the constants.

All paths below are relative to the repository; `handler.ts` and the like are
files of `src/`.

## The system

Node.js runs one callback at a time. So the unit of interleaving is what runs
between two awaits, and everything hard in this code lies between awaits:
timers that fire, answers that come, connections that drop, a second start, a
stop in the middle of a start, a crash. That is what an action of the modules
stands for.

| Part | State it keeps | Operations | What makes it hard | What makes it correct |
|---|---|---|---|---|
| **MessageHandler** `protocol/handler.ts` | `pendingRequests`: an entry with a promise and a timer for each request | `send`, `request`, the inbound handler, `stop` | the timer, the answer, `stop()` and the awaits of `send()` race for one promise; answers come late or twice or are refused by the limiter | every request ends exactly once, in a reply only if the peer replied |
| **RateLimiter** `daemon/rate-limiter.ts` | a window per peer in two Maps, a list of violations, a sweep interval | `checkMessage`, `checkPaymentRequest`, `cleanup`, `clear`, `stop` | a sweep beside running windows; boundaries of fixed windows | a quota per peer that the bookkeeping never changes |
| **Relay connection** `daemon/node.ts`, `daemon/index.ts` | libp2p's connection and circuit address; `isRestarting`, `consecutiveFailures` | `dialRelay`, maintenance loop, disconnect handler, retry task, health monitor | four independent loops dial the same relay, with waits of seconds in between | connection and reservation come back; one recovery at a time |
| **PeerTracker** `daemon/peer-tracker.ts` and the listeners of `main()` | the records of peers, a dirty flag and a save timer, `peers.json` | eleven updaters, `removePeer`, `load`, `save` | deferred saves, writes that fail or are torn by a crash, flags that outlive the process | no change is left without a save to come; the online flags are those of this process |
| **Discovery** `daemon/discovery.ts`, cache in `node.ts` | announced services; the listener's Map and the node's LRU cache | announce, receive, cleanup, register and unregister services | gossip delays, loses and reorders; clocks differ | a live peer stays listed, a stopped one is forgotten, services arrive |
| **P2PNode lifecycle**, **StatusBroadcaster** | libp2p, handler, discovery, broadcaster, timers, listeners | `start`, `stop` | five awaits in one, three in the other, overtaking each other, each may throw | nothing is left running |
| **Gateway plugin** `extensions/bsv-p2p/index.ts` | `p2pNode`, `restartCount`, `isShuttingDown` | service start, retry with backoff, stop | a chain of starts sleeps through a stop | one node at a time, and every start ends |
| **Inbound pipeline**, **GatewayClient** `node.ts`, `daemon/gateway.ts` | messages under way | `handleIncomingMessage`, `runAgent`, `wake` | messages nobody has validated, error events without a listener, a log closed too early | every message ends; no failure of the gateway and no well-formed message ends a serving daemon |
| **Daemon process**, **CLI** `daemon/index.ts`, `cli/index.ts` | `daemon.pid`, libp2p's port and the API's | `main`, `shutdown`, `daemon start`, `daemon stop` | the PID file is written a minute after the spawn, and removed whoever it names | the PID file names the daemon that serves |
| **MessageLogger** `daemon/message-logger.ts` | one SQLite table | insert, queries | closed while still in use | see Inbound pipeline |
| **HTTP API** `daemon/index.ts` | none of its own | send, pay, queries, peer records, the node's name | a send that worked followed by a log that failed; a name that is written back with the whole configuration | see PeerTracker and Configuration |
| **Configuration** `daemon/index.ts`, `cli/index.ts`, `config/` | `config.json`, an encrypted copy of its keys, the OS keychain, the environment, the daemon's copy | `loadConfig` with its migration, `PUT /config/name`, `config set`, `name`, `encrypt`, `import-key`, `migrate-to-keychain` | several processes read, change and write back the whole file without a lock; the keychain may lock between two keys; a write can be torn | once up, start after start has the same keys; an undisturbed start replaces no key of the keychain; an edit made in peace stays |
| **PeerReputation** `daemon/peer-reputation.ts` | scores, blacklist, connection counts | record events and connections, blacklist, decay | an expired blacklisting stands until somebody asks; refused connections are counted too | only an expired blacklisting leaves a low score without consequence; a connection limit that holds; a blacklisting that ends |
| **Channels** `channels/` | channel states, balances, sequence numbers | propose, transition, check an update, build the transactions | two ends update at once, over a network that loses, repeats and reorders; either may close at any time | no commitment, and not the chain, gives an end less than its due |
| **Messages** `messages/` | the ids seen lately | check the timestamp, check and mark, sweep | an id is forgotten while copies are on the way | no message gets through twice |
| **Protocol types, attestation, skill, errors** | none over time | | | not modelled |

The parts interact as follows. `main()` makes a `P2PNode` and a `PeerTracker`
and, when the node has started and the wait for the relay is over, attaches
listeners to the node and starts the health monitor and the maintenance loop.
The node owns the `MessageHandler` (which owns a `RateLimiter`), the
`DiscoveryService` and the `StatusBroadcaster`, and forwards their events. A
message goes from libp2p through the limiter to a pending request or to
`handleIncomingMessage()`, and from there to the log and the gateway. The CLI
knows the daemon by its PID file and its HTTP port. The plugin is another
owner of a `P2PNode`, in the gateway's process. The daemon and the CLI share
the files of the data directory and the keychain. `channels/`, `messages/` and
`PeerReputation` are libraries of the package: they are exported, and the
daemon does not call them. What calls them is modelled as external, and does no
more than the types and comments of these files ask for.

## The modules

Each module's header and comments name the code. `PROJECT.json` maps every
definition to the lines it stands for. Operators whose comment starts with
"Mutant of" are not part of a specification: each is a definition as a
plausible mistake would have it, and shows, put in its place, that a property
can fail.

| Module | Models | Checked by | Proofs |
|---|---|---|---|
| `QuotaGate` | what the limiter promises: a quota per key that starts with the first message and runs for one window | | |
| `RateLimiter` | the Maps, the sweep, refusals; implements `QuotaGate` | `RateLimiterHistory`, `MCRateLimiter` | `PeerLimits_proofs` |
| `RateLimiterHistory` | the limiter with an observer, `watch`, that starts at any moment and counts what gets through in one window's time | `MCRateLimiter` | with it |
| `RequestReply` | what a caller of `request()` is promised | | |
| `MessageHandler` | requests, sends, timers, answers, `stop()`; the limiter as the `QuotaGate` it implements; implements `RequestReply` | `MCMessageHandler` | `MessageHandler_proofs` |
| `RelayConnection` | every dial in progress, by who asked for it and how far it is; the loops; the relay | `MCRelayConnection` | `RelayConnection_proofs` |
| `PeerTracker` | registry, save timer, file, restarts, the daemon's listeners | `MCPeerTracker` | `PeerTracker_proofs` |
| `Discovery` | an announcer, a listener, and gossip between them | `MCDiscovery` | `Discovery_proofs` |
| `NodeLifecycle` | `start()` and `stop()` of any number of node objects | through `PluginService` | with it |
| `PluginService` | the plugin on top of `NodeLifecycle` | `MCPluginService` | `NodeOwners_proofs` |
| `Configuration` | the stores of settings and keys, `loadConfig()`, `PUT /config/name`, the commands that write | through `ConfigurationHistory` | with it |
| `ConfigurationHistory` | the configuration, and what its users may rely on | `MCConfiguration` | `ConfigurationHistory_proofs` |
| `PaymentChannel` | two ends of a channel, their messages, the transactions and the chain | through `PaidRequests` | with it |
| `ReplayProtection` | the gate a message has to pass: its age, and the ids seen | through `PaidRequests` | with it |
| `PaidRequests` | the two composed: every payment goes out in a message of its own | `MCPaidRequests` | `PaidRequests_proofs` |
| `PeerReputation` | scores, blacklist and connections of peers | `MCPeerReputation` | `PeerLimits_proofs` |
| `InboundMessages` | a message from its emit to the gateway's answer | through `DaemonProcess` | with it |
| `DaemonProcess` | processes, PID file, CLI, on top of `InboundMessages` | `MCDaemonProcess` | `NodeOwners_proofs` |

How state and actions correspond to the code, where it is not one to one:

- **MessageHandler.** `caller[r]` is where the call `request(r)` is: in one of
  the awaits of `send()`, waiting for the response promise, or ended.
  `promise[r]` is that promise. A rejection of a promise nobody awaits yet is
  an unhandled rejection and ends the process (`alive`): the repository
  installs no handler. Answers are counted, per request, on the wire.
- **RateLimiter.** A window keeps its age in place of its start. The code only
  compares the age with the window's length and twice that, so ages stop
  counting past both. The list of violations and the rates computed for
  display are not modelled: nothing on the message path reads them.
- **RelayConnection.** A dial in progress is a task; tasks of one kind at one
  stage cannot be told apart, so they are counted.
- **PeerTracker.** A record keeps `isOnline` and one number for everything
  else. The file is whole, torn or absent; a crash can come at any time. While
  `shutdown()` waits for the node, the model still allows peers to be recorded
  by listeners and by the HTTP API; the code allows it too.
- **Discovery.** Timestamps are ages; the difference of the two clocks is
  drawn once (`skew`).
- **NodeLifecycle.** An action runs from one await to the next. `running`
  holds what goes on by itself and has to be stopped: libp2p, listeners, the
  timers of limiter, discovery and status. `libp2p.stop()` is taken to resolve.
- **PluginService.** `startService()` calls `getPeerId()`, which `P2PNode`
  does not have. The call throws after every start that worked, so the
  listeners, the health check and `restartService()` behind it are unreachable
  and left out.
- **DaemonProcess.** All daemons of a home listen on the port of its
  `config.json` (`BSV_P2P_PORT`, which the CLI sets, is read by nobody), and
  libp2p is taken to throw when that port is taken: a second daemon exits
  before it writes its PID, unless the first is just stopping its node. The
  port is taken not to be edited while a daemon runs. The PID file is saved,
  the listeners attached and the API's port taken in `BecomeReady`; between
  them there is no await that does I/O. A process runs once: a PID is not
  reused. Daemons are started by the CLI only, one command at a time.
- **InboundMessages.** A malformed message has a field that the log's insert
  or the text for the agent cannot take, or may not: `Arrive` is also open to
  it. An error the protocol handler itself throws goes to libp2p, and what that
  does with it is not modelled. `sendRequest()` has no caller in the daemon, so
  the orphaned promise of `MessageHandler` is not among the ends of its process.
- **Configuration.** A value is the number of the command that made it, and 0 a
  field that is absent or has its default; the keys 1 and 2 are those of the
  setup and of the environment. A command is a step that reads and a step that
  writes, because another process can run in between; `loadConfig()` is a step
  for each await on the keychain. The keychain fails as a whole: its getters
  then answer null, its setters throw. Removing the keys from the file after
  the migration's tip is the user's step.
- **PaymentChannel.** The caller of `ChannelStateMachine` stores what it
  accepts and serves a request when it has accepted its payment; a payer
  stores an update as it sends it. Messages stay in `net` for ever, so each can
  be lost, repeated and overtaken. The network keeps the spend with the lower
  nSequence until a block confirms one: that is how the comment at
  `transactions.ts:184` reads BIP 125. Fees, scripts and signatures are left
  out. `paid` and `served` are history, from which an end's due follows.
- **ReplayProtection.** Every copy of a message has its id and timestamp. The
  module assumes that ids are kept at least as long as the oldest and newest
  timestamps that pass are apart (10 minutes against 5 and a half).
- **PeerReputation.** Times are kept as what is left of them. The caller takes
  every connection it has recorded away again, also one that was refused.

## The runs

| Run | Instance | Distinct states | Shows |
|---|---|---|---|
| `MessageHandler` | 2 requests to 1 peer, quota 1, answers up to 2 per request | 42849 | each request ends once and as `RequestReply` allows; only a promise nobody awaits ends the process |
| `RateLimiter` | messages (limit 2, window 2) and payments (1, 1) of one peer | 14542 | the Maps implement the quota; at most twice the limit in any span of one window; a blocked peer is served again |
| `RelayConnection` | 1 task per kind and stage, recovery at the 2nd failure | 55584 | one recovery at a time; reconnection; a dropped reservation is never given up, and is repaired |
| `PeerTracker` | 2 peers, 1 change each, save after 1 tick | 86889 | nothing changed is left unsaved; flags follow the connections |
| `Discovery` | interval 2, timeout 6, delay 1, clocks off by -1, 0 or 2, 2 announcements under way | 60192 | live peers listed, gone ones forgotten, services arrive, cache follows Map |
| `PluginService` | 2 starts, 1 restart | 395965 | one node at a time, nothing but limiters left, no more nodes with anything running than were counted, every start ends |
| `Configuration` | 2 keys, 2 commands at a time and 2 in all, 1 torn write, the keychain locked and unlocked | 2258719 | once a clean start has come up the next ones have the same keys, an undisturbed start replaces no key of the keychain, an edit made in peace stays |
| `PaidRequests` | capacity 3, payments of 0 and 1, dust 1, 3 updates, ages up to 1, ids kept for 1 | 5716698 | each end's due, in the commitments and on the chain; the newest commitment waits; no message twice |
| `PeerReputation` | 1 peer, 12 scores, limit 2 and up to 4 connections | 8319 | the connection limit; only an expired blacklisting leaves a low score without consequence; a blacklisting ends |
| `DaemonProcess` | 3 processes, 2 messages, 1 of them malformed | 258028 | the PID file names the daemon that serves, also with further starts; among messages and gateway answers only a malformed message ends a serving daemon; every message ends |

Why the bounds are enough. Requests meet only at the limiter, so two of them
show every conflict, and two answers are a reply and its duplicate. A limit of 2
and a window of 2 have a first, a last and a refused message, and a middle. One
task of a kind at each stage already overlaps four stages of three kinds; the
run has also been made with two (946242 states). One change of a record is
enough to differ from the file, one tick of debounce to be interrupted, and one
of the two peers is the one the registry is seeded with, so that it can also be
emptied. In `Discovery` two intervals and two delays fit the timeout of 6 for
the exact clock and the one ahead and do not fit for the one behind, so the
property's condition is both true and false; two terms for a service have been
tried as well (251253 states). Two starts and a restart give two chains and
three nodes: a retry that fails, and a chain that outlives a stop. A third
process is needed to follow a failed second start. Two of the three keys are the
one that is imported and the one that is set, and two of anything are enough for
a migration that stops between them; two commands overlap each other or the
daemon. A channel of 3 and updates of 1 give balances on both sides of the dust,
three updates one that is skipped and one that crosses another, and a payment of
0 a message that must not be accepted; the clock goes one tick past the time an
id is kept. Timestamps of the future are not in the run (`MaxFuture` is 0): that
boundary is covered by the theorem `NoSecondCopy` only. No operation on a peer's
reputation reads another peer's, so one is enough; its thresholds lie among the
scores.

The type invariants of `MessageHandler`, `RelayConnection`, `PeerTracker`,
`Discovery`, `DaemonProcess`, `PluginService` and `PeerReputation`, and
`OnlyLateAnswersEmitted`, are no longer in a run: they are theorems.

Runs that end in a violation, on purpose: each takes a sentence of the
repository and shows what the code does instead.

| Run | The repository says | The code |
|---|---|---|
| `RelayReservation` | "the daemon will retry automatically" (`errors.ts:33`) | the retry task only looks; a node that is connected to a relay that grants reservations, and has none, never asks for one |
| `ReputationDrop` | "should blacklist peer when score drops below threshold" (`peer-reputation.test.ts:55`) | an offender whose blacklisting has run out is not blacklisted again, until somebody asks and so pardons it |

Disagreements met while modelling that have no run of their own. The models do
what the code does, also where it disagrees:

- `request()`, "Send a request and wait for response" (`handler.ts:207`): when
  `send()` fails or is slower than the timeout, the timer rejects a promise
  nobody awaits, and the process ends. `OnlyOrphansKill` says that no other
  promise of a request does that.
- "Fall back to wake if agent endpoint fails" (`node.ts:800`): until `main()` has
  attached its listener, a gateway error ends the process. A serving daemon
  survives it, and every well-formed message (`OnlyMalformedKills`). But nothing
  validates a message (`protocol/messages.ts:265`), and `formatMessageForAgent()`
  and the log's insert run in a promise nobody looks at (`node.ts:412, 773`): one
  with a timestamp that is no date, or a paid request without payment, ends the
  process. What else HTTP handlers or other listeners may throw is not modelled.
- "Failed to start daemon" (`cli/index.ts:158`) is printed after two seconds,
  when a daemon that waits for the relay has no PID file yet; a second start is
  let through, and its process exits on the occupied port. A daemon that shuts
  down removes the PID file whoever it names (`daemon/index.ts:483`): one that
  came up beside it is then not found. `ServingIsKnown` excludes that.
- "starts/stops with gateway" (`extensions/bsv-p2p/README.md:120`): a retry
  sleeps through the stop and makes a new node. `OneNode` and
  `StoppedLeavesLimiters` exclude that race; `NodesCounted` says how many nodes it
  can leave up. After its last attempt the plugin logs "Plugin disabled" and
  leaves its node running (`extensions/bsv-p2p/index.ts:160`). Every stopped node
  leaves its limiter's interval behind (`node.ts:529`).
- The limit "per minute" of `handler.ts:52` holds per fixed window, and two
  windows in a row allow twice the limit within one minute (`RateLimiter` shows
  that this is the most). "Not seen in 15 minutes" of `discovery.ts:8` is
  measured with the sender's clock. A service registered before the node starts
  is never announced by discovery (`node.ts:902`).
- `POST /send` answers 500 when the message was sent and the log failed
  (`daemon/index.ts:993`): a client that retries sends it twice.
- `config.json`: "Configuration updated" is printed also when another command,
  or `PUT /config/name`, has written or will write the whole file without that
  edit; `QuietEditSurvives` therefore speaks of edits nobody else can overlap. The
  daemon writes keys it has from the keychain or the environment into the file,
  in plaintext. A torn file makes the daemon start with defaults, and the
  commands throw. The name in the file is not passed to the node at its start
  (`daemon/index.ts:461`).
- The keychain: one that fails for a moment looks empty, and the next start may
  migrate an older key of the file over a newer one that was imported
  (`KeychainKept` speaks of starts during which it does not fail). A key that is
  imported while a start migrates is replaced by the older one the start has
  read. A migration that stops half way is not continued, because a keychain
  with one key counts as filled: the next start takes that part for the whole,
  does not look into the encrypted file, and comes up without the other keys.
  `StartsAgree` begins with the first clean start that has come up. The tip to
  remove the keys from `config.json` (`daemon/index.ts:170`) is also printed
  when those that were migrated came from the encrypted file. A key imported
  into the file, for want of a keychain, loses against one that an unlocked
  keychain holds.
- An offender whose blacklisting has expired without anybody asking is neither
  listed by `getBlacklistedPeers()` nor rate limited, and the next
  `isBlacklisted()` pardons it with a fresh score, whatever it did meanwhile.
  `ReputationDrop` shows the offence; `OnlyExpiredEscape` that no other peer with
  a low score goes free.
- A write of `peers.json` that fails is not tried again before the next change,
  and a torn file loses all peers: `SavedUnlessPending` names both as exceptions.

### Fairness

Timers fire, immediates run, promises of libp2p, `fetch` and the file system
settle one way or the other: these are the weak fairness conditions, and each
is on a step the event loop or the runtime takes by itself. Where a call may
succeed or fail, the fairness is on the disjunction, never on success. Nothing
is asked of the network, the relay, the peers, the agent's gateway or a user:
liveness properties that need them to behave say so in their premise
(`<>[](relay # "down") => ...`). There are two exceptions. `ServicesSpread` rests
on strong fairness of gossip: what is announced again and again is at last
published, and delivered. That is an assumption on the network, not on the code. And
`PeerReputation` notices the end of a blacklisting only when it is asked, so
`BlacklistEnds` assumes that its caller goes on asking about a peer it has
listed, as one does that asks before it serves a peer.

Runs with `CHECK_DEADLOCK FALSE` are those whose system may stop: a process
that has died, a plugin whose starts are used up, daemons that have all ended.

## The proofs

Every safety invariant, action property and refinement that a passing run
checks is also a theorem. It is about the same specification as the run, but
for the fairness (`Spec`, `HistorySpec`, `PluginSpec` or `ReputationSpec`), and
holds for every value of the constants that its module's named assumption
admits. The assumptions say that bounds, limits and intervals are positive, that
functions have their domains, that a marker is not a member of the set it marks,
that malformed messages are messages, for `Discovery` that a
delay is shorter than the announcement interval, for `ReplayProtection` that
ids are kept for as long as a message can pass, for `PeerReputation` that the
thresholds are ordered as in the default configuration, and for
`Configuration` that the names of the keys are distinct (the code has three).

- **PeerLimits_proofs.** For the limiter, `TypeCorrect` is inductive as it
  stands: counts within limits, ages within their cap. `LimiterImplementsGate`
  maps each window to the quota it stands for; the two facts it rests on are
  that a sweep drops only windows that have expired (`CleanupIsInvisible`) and
  what a tick does to a window (`TickOfAWindow`). `TwiceTheLimit` needs to know
  which windows the observed stretch has met (`WatchInv`): none or one so far,
  or two, of which the second began after it and so outlasts it; what was
  counted is then at most the limit, for the first window, and the count of the
  second. For reputations, `OnlyTheExpired` needs `Noticed`: a score at the
  threshold is on the blacklist, and decay never brings one there.
  `ConnectionLimit` is inductive with the types.
- **MessageHandler_proofs.** The properties alone are not inductive: they need
  how far a request, its promise and its answers can be apart
  (`RequestProgress`): answers only to what was delivered, no more of them under
  way or emitted than were given, and an ended caller's promise settled. With it
  follow `EntriesArePromises`, `OrphansAloneKill`, `LateAnswersAlone` and, step
  by step, `HandlerImplementsRequestReply`.
- **RelayConnection_proofs.** `RecoveriesExclude`: the flag is up exactly
  while a recovery is at some stage. The work is in the counts: moving,
  starting and ending a task of one kind changes nothing for the others.
  `ReservationsPursued` is about two states and needs no more than the types: a
  reconnection leaves the stages before the reservation by asking for it, and
  a drop in the middle of one queues another.
- **PeerTracker_proofs.** `NothingLeftUnsaved` needs that an untracked peer is
  not online, in the Map and in the file (`RecordsWhole`, `DiskWhole`),
  because a load takes the file as it is. `OnlineFlagsCurrent` and
  `ConnectionsShown` need that nobody is online between `markAllOffline` and
  the listeners (`NobodyOnlineYet`).
- **Discovery_proofs.** `LivePeersListed` is the deepest: an entry of a peer
  of which no two announcements in a row were lost is never older than one
  delay, the time since the last announcement, one interval for a loss and one
  for an announcement under way (`OldestExpected`). If the timeout covers two
  intervals, two delays and the clock difference, no cleanup finds it stale.
- **NodeOwners_proofs.** Of the daemon's process, `ServingKnown` rests on two
  facts that hold as long as no daemon has been shutting down beside another
  one: at most one process is past the listen port (`OneListens`), and a daemon
  that exits is the last one alive (`Calm`). `OnlyTheMalformedKill` goes through
  every way a process can end. Of the plugin,
  `OneNodeRuns` and `NothingButLimiters` follow from `PluginInv`, which is only
  claimed while no stop has met a start: one chain or one stop at a time
  (`Turns`), which object is the plugin's and that the others are down
  (`TheNode`, `Objects`), and what a stop has taken down at each of its awaits
  (`Stops`). The core is that `stop()` finds everything `start()` had set up
  when it failed (`RunStopQuiet`, `StartStepObject`). `RunningNodesAreCounted` holds
  with and without that race. Its invariant, `Budget`, counts: the nodes made,
  and those that chains in a retry are about to make, are no more than the
  starts and the restarts counted. From it also follows `ObjectsSuffice`: the
  model never lacks an object when the code would make one.
- **ConfigurationHistory_proofs.** `QuietEditKept` needs that an edited value is
  in every copy that may be written back - the daemon's, and that of a command
  between its read and its write (`QuietInv`). For `KeysAgree`, which begins
  with the first clean start that has come up, `KeysInv` says where the keys of
  the last clean start are: they are owed by the stores to the next one
  (`Owed`), and a load under way has taken them as far as it got (`Loads`,
  `CleanLoad`, `Importing`). `CleanStartKeepsKeychain` is about single steps: a
  clean start that migrates has found the keychain empty.
- **PaidRequests_proofs.** `NobodyLoses` looks at what an end holds; what makes
  it inductive is what is still under way. `Fair`: an update that can still be
  accepted gives both ends their due. `Rising`: of two such updates the later
  one gives at least as much, so that skipping one is safe. When both ends pay
  at once, their numbers collide and each refuses the other's as too low; the
  payers have given more than they had to, and nobody has less than his due.
  `Spent` ties the chain to the balances of an end that has shut, which no
  longer change. `NewestWaits` needs that an end that forced the close has left
  a spend behind (`Waiting`). `NoSecondCopy` needs `Known`: a message that got
  through is in the Map, or its timestamp is too old. The gate and the channel
  are proved apart, and the steps of the composition are steps of each.

Only model-checked: the liveness properties (`EveryRequestSettles`,
`BlockedPeerRecovers`, `ReconnectsWhileReachable`, `DropIsRepaired`,
`UnhealthyKeepsRecovering`, `QuietIsSaved`, `GoneIsForgotten`, `ServicesSpread`,
`EveryStartEnds`, `EveryMessageEnds`, `BlacklistEnds`), since the prover does not
do liveness under fairness, and what the violation runs refute.
`ReservationsPursued` and `Budget` are the safety half of two of them: a
reservation that is due is never forgotten, and restarts run out.

## Not modelled, and why

Serialization, formatting, attestation and the checks of single payloads are
functions of one input without a life over time. The setup wizard, the service
manager (a client of the HTTP API) and most CLI commands run other programs,
ask, call or print. The skill is an HTTP client. The HTTP API's send handlers
pass a message on, count it and log it: their state is that of the log.
`MessageLogger` is SQL over one table; that it is closed before the node has
stopped is in `InboundMessages`. Announcing on the node's own topic is dead
code or a logged interval. Inside a message only what decides its path is kept.
libp2p, gossipsub, the relay, the agent's gateway, the keychain and the chain
are environment: they may do whatever their interface allows.

## Plan

1. The safety halves of the remaining liveness properties, as invariants with
   proofs: a message under way has somebody who ends it, a dirty record has a
   save to come that no later step cancels, an unhealthy node is always on its
   way to a recovery.
2. Abstract specifications of the plugin (a service that runs or not, with a
   budget of restarts) and of the channel (two dues that only grow until one
   settlement), and proofs that the modules implement them.
3. `DiscoveryService` registrations made before the node starts.
