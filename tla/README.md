# Proxy Mobile IPv6 for ns-3: a TLA+ verification project

The repository is ns-3.13 with one addition of its own: the module `src/pmip6`
(about 12 500 lines), an implementation of Proxy Mobile IPv6 (RFC 5213). A mobile
node (MN) keeps its home network prefix while it moves between access gateways.
The mobile access gateway (MAG) it attaches to registers it with the local
mobility anchor (LMA) by a proxy binding update (PBU); the LMA answers with an
acknowledgement (PBA), and packets for the prefix go through a tunnel between
the two. This project models that module, and the two concurrent programs in
Python that the repository brings along: the test driver `ns-3.13/test.py` and the
visualizer `ns-3.13/src/visualizer/visualizer/core.py`. The rest of ns-3 is the
platform they run on. Paths below are relative to `ns-3.13/src/pmip6/model` unless
they name one of the two.

## Inventory

| Component | State | Operations | Talks to |
|---|---|---|---|
| Tunnel manager (`ipv6-tunnel-l4-protocol.cc`, `tunnel-net-device.cc`) | list of tunnel devices with remote and reference count | AddTunnel, RemoveTunnel, ModifyTunnel | called by LMA and MAG of its node |
| LMA (`pmipv6-lma.cc`) and binding cache (`binding-cache.cc`) | per MN a list of entries: care-of address, prefixes, tunnel interface, state, tentative entry, three timers | HandlePbu, DoDelayedRegistration, timer handlers | PBUs from MAGs, PBAs to them; tunnel manager, static routing, prefix pool, profile |
| MAG (`pmipv6-mag.cc`) and binding update list (`binding-update-list.cc`) | per MN one entry: state, prefixes, interfaces, pending PBU, retry count, three timers; sequence counter | HandleNewNode, HandlePba, refresh, reachable and retransmission timeouts | wifi callback or notifier, PBUs and PBAs, tunnel manager, both routing tables, advertisement daemon |
| Prefix pool (`pmipv6-prefix-pool.cc`) | counter | Assign | LMA |
| Policy profile (`pmipv6-profile.cc`) | entries by identifier | Lookup, Add; the LMA stores assigned prefixes in them | LMA, MAG |
| Static routing (`internet/model`), static source routing (`ipv6-static-source-routing.cc`) | route tables | add, remove, lookup | LMA, MAG, packet forwarding |
| Unicast router advertisements (`unicast-radvd*.cc`) | configurations, pending events | Add/RemoveConfiguration, Start, Stop, Send | MAG |
| MAG notifier (`pmipv6-mag-notifier.cc`) | none but its target | forwards HandleNewNode from an access point | MAG |
| Mobility headers, options, demultiplexers (`ipv6-mobility*.cc`) | none | serialize, parse, dispatch | LMA, MAG |
| Identifier, helpers, wifi hooks | - | - | - |
| Test driver (`test.py`) | two queues, the jobs, the flag set by Control-C, counters, the results file | dispatch, collect, join; per worker: take, skip, run, throw back, leave | worker threads, test programs, valgrind |
| Visualizer (`visualizer/core.py`) | the lock, the go signal, quit, the update timer, pause messages, the play button | simulation thread; timer callback, play, pause, speed, inspection, quit | GLib event loop, simulator |

ns-3 runs one event at a time, so a handler is atomic and is one action here.
What is hard is the order of events: messages may be lost, repeated, delayed and
overtaken; three timers per entry run against them; nodes attach when they
like; and tunnels, routes and prefixes are shared between entries that change
independently. The two Python programs have real threads, and in the visualizer
callbacks that nest: there an action is what happens between two points at which
the other threads can be seen.

What makes each component correct:

* tunnel manager: one device per remote, a count that is the number of users,
  an interface that leads where its user believes;
* LMA: a binding's tunnel leads to its care-of address, there is a route to its
  prefixes, a node keeps its prefix and shares it with nobody, a delayed
  registration ends, an ACCEPTED is backed by a binding;
* MAG: a bound node has tunnel and routes, its timers guard its state,
  retransmission sends what can still be answered and ends;
* the protocol as a whole: LMA and MAGs agree on prefixes, packets for a node go
  to a MAG it has been at, and a handover moves all of its prefixes;
* advertisement daemon: one chain of events per configuration, known to it;
* test driver: every job ends in one place, the verdict is right whatever is
  interrupted, the driver ends;
* visualizer: the lock keeps the two threads apart (what does not take it, see
  Findings), no message is lost, playing goes on, quitting ends;
* what is set up is taken down again (here the code has its flaws, see
  Findings).

## Modules

`TunnelOps` - the three operations of the tunnel manager as operators on a device
list. A device is known by its place in the list, which stands for its IPv6
interface index; local and MAC addresses are left out.
`Tunnel` - the tunnel manager alone with an arbitrary finite set of clients.

`StaticRoutes` - adding, removing and looking up a route, for the static and the
static source routing table. Both tables use the same code for this (the source
routing was copied from the static routing). Routes are added without a
`prefixToUse`, which is then `::` (`internet/model/ipv6-routing-table-entry.cc:101`),
and `RemoveRoute` compares it, and ends at the first match. Of equal routes only the
last is kept in the model, as a lookup takes the last.

`Lma` - `HandlePbu` split into one action per way through it: `Reject`, `Refresh`,
`DelayRegistration`, `Handoff`, `Deregister`, `Create`, `UnknownDeregister`; the
timers are `RegisterTimeout` and `DeregisterTimeout`. `Existing` is the existence
test of RFC 5213 5.4.1 as the code does it. The network is open: every update of
the constant `Pbu` may arrive at any time and any number of times, which covers
loss, duplication and reordering. A failed `NS_ASSERT` sets `aborted`, after which
nothing happens. `out` is the acknowledgement of the last step. Left out: the
reachable timer of an entry (empty handler), the MAG link address (echoed), the
order of a prefix list.

`Mag` - `HandleNewNode` (and its early return without a device), `RefreshTimeout`,
`RetransTimeout`, `ReachableTimeout`, `HandlePbaAccepted`, `HandlePbaDeregistered`.
Every update ever sent may be answered at any time and again. Answers that are
ignored change nothing and are no action. The refresh timer runs 0.9 of the
reachable timer and is started with it, so `ReachableTimeout` waits for it; the
retransmission timer may fire at any time. Index 0 stands for -1. The profile of
the MAG is constant: `AddProfile` makes one entry under the MN identifier, which
the LMA updates, and one under the link identifier, which the MAG reads.

`Pmip6` - the composition: one `Lma` and two `Mag` by `INSTANCE`, with one clock and one
counter of advertisement identifiers, as there is one simulator. Messages that
were sent stay in the network (`sent1`, `sent2`, `pbas`, `notes`) and may be delivered
at any time and again, or never. `Attach` is the callback of an access point when
an association was acknowledged and the notifier behind it, which sends one
unacknowledged packet; it happens after time 0, because an association takes
frames. `Received` is an update as `BuildPbu` makes it: no handoff hint, the prefixes
of the entry or any. A step of the LMA and the sending of its answer are one.

`Mobility` - the abstract specification: which node has which prefixes, where packets
for a prefix leave the LMA, where each node has been. `KeepsPromise` says that
`Pmip6` implements it, with the prefixes read off the LMA's profile and the exit of
a prefix read off its routing table and its tunnel list.

`Radvd` - the advertisement daemon: `StartApplication`, `StopApplication`,
`AddConfiguration`, `RemoveConfiguration`, `Send`. What the simulator will run is the
set `scheduled`; a configuration's event in `m_eventIds` is `eventIds`. `late` is an
auxiliary variable.

`TestRunner` - the main thread of `run_tests` (`Dispatch`, `DispatchBreak`, `Collect`,
`Finish`), the workers (`Get`, `Leave`, `ThrowBack`, `Skip`, `Launch`, `Report`) and `Sigint`.
A worker looks at `thread_exit` once per job and then runs it, which is why taking a
job and deciding about it are two actions. What a test program does is a choice.
An exception of the main thread ends it and not the workers.

`Visualizer` - the simulation thread in seven steps, and the GUI thread. While
`update_view_timeout` waits for the lock it runs the GTK event loop, so the other
callbacks, another timer's among them, run inside it: `stack` holds the timers
whose callback is entered. A callback that waits for the lock without the loop
blocks the thread (`Inspect`, `UpdateModel`, then `Locked`, `Unlock`). `Play` may happen at
any moment, also before `autoscale_view` is over. The pause messages are handed over
as two threads would do it without a lock: `SimExtend` looks the list up and extends it
in a step of its own after the run (`SimRun`), `TakeMessages` puts a new list in its place
and `UpdateView` then shows the one taken; `left` are the messages not yet added and
`extends` tells where the list they will be added to is by then. GLib's part is external
and described at the head of the module.

`MCTunnel`, `MCLma`, `MCMag`, `MCPmip6`, `MCRadvd`, `MCTestRunner`, `MCVisualizer` instantiate
them. Definitions marked "Slip" in the modules are variants that a programming
error would give; no specification uses them. They serve to show that the
properties can fail.

## Runs

Passing:

| Run | Instance | Properties |
|---|---|---|
| `tunnel` | 3 clients, 3 remotes | type, `RemotesDistinct`, `RefCountsUsers`, `TunnelServesPeer`, `ModifyNeverAborts` |
| `lma_mobility` | 2 nodes (one with 2 links, one naming none, one or two prefixes), 2 MAGs, 3 entries, no deregistration | type, `NeverAborts`, `TunnelServesCoa`, `RefCountsBindings`, `PacketsReachMag`, `PrefixContinuity`, `NoSharedPrefix`, `AcceptedMeansBound` |
| `lma_open` | 1 node with 2 prefixes, 2 links, deregistrations | `BindingsRouted`, `DelayedPending`, liveness `RegistrationEnds` |
| `mag` | 2 nodes of one LMA, 2 access interfaces, answers with any lifetime, 3 updates | type, `RetransmitsCurrent`, `TimersGuardBinding`, liveness `RetransEnds` |
| `pmip6` | LMA, 2 MAGs, a node with 2 radios and a pool prefix, a node with 1 and a profile prefix | `PrefixAgreement`, `ServedEndToEnd`, refinement `KeepsPromise` |
| `radvd` | 3 configurations | type, `SendNeverAsserts`, `ChainsKnown`, `AllAdvertised`, `StopSilences` |
| `testpy` | 4 jobs of all kinds, 2 workers, valgrind, every outcome, Control-C | type, `EachJobOnce`, `LeavesNoWork`, `SuccessIsComplete`, `ResultsComplete`, liveness `Ends` |
| `visualizer` | 4 timers, 2 messages | type, `LockExcludes`, `MessagesKept`, `PlayingHasTimer`, liveness `QuitEnds`, `PlayRuns` |

What they show, beyond the table. `KeepsPromise`: the code compares neither
timestamps nor sequence numbers of a binding, so an old MAG's refresh or a
repeated update does take a binding back; the refinement shows that this is all
that can go wrong - the whole node goes back, prefixes and tunnel together, and to
a MAG it was at. `ServedEndToEnd` rests on the LMA never answering with lifetime 0:
`Mag` alone, with such answers, gives away a tunnel reference that is not its own,
which is why the property is checked of the composition. `PlayRuns` holds although
timers get lost in the other direction (see Findings). `LockExcludes` speaks of those who
take the lock; `autoscale_view` does not, and what then happens is the run `viz_scale`.
`MessagesKept` needs the lock: a view that did not wait for it could swap and show the list
the simulation thread is about to extend, and the messages would never be seen. `ResultsComplete` lets a suite that fails
valgrind have one entry or two, since the code and its comment disagree about them
(see Findings). `RegistrationEnds` is about the update that is waiting; one that arrives
meanwhile from yet another MAG is dropped unanswered, and its MAG sends it again.
`NoSharedPrefix` is about a pool with a prefix for every node; past its end the counter
wraps and two nodes get the same one.

`lma_open` does not check for deadlock: there the program can end in a failed
assertion. Nor do `pmip6` and `radvd`, where the bounds end the behaviour, and
`visualizer`, where the user may close the window.

Bounds. `MaxBce` bounds entries (the code never deletes one), `MaxTime` the clock,
`MaxSeq` the updates of a MAG, `MaxRef` devices and references up to which
deregistrations happen (without them both are bounded by the bindings).
Two MAGs and two nodes are enough for sharing a device, leaving it and coming
back; three entries give a node with two entries next to another node; three
updates are a registration and a re-attachment or refresh of two interleaved
nodes. A timestamp that has come and one that has not, and 0, are what the comparisons
tell apart; in the runs of `Lma` an update that comes too early stands for all that are
refused, since `Reject` is the same for every check. In `Pmip6`
`MaxSeq1` and `MaxSeq2` bound the updates of the MAGs: two each are a registration
and its refresh on both sides of a handover, or two nodes at the second MAG;
`Cover` says which MAGs a node comes to, both for the first node. The view
`MCView` leaves out the answer of the last step, which no action and no property of the
composition reads. `MaxRetry` is 0
there since the network repeats every update anyway. `MaxConfig` bounds the
configurations of `Radvd`: one to be added before the start, one while it runs, one
after the stop. `MaxTimer` and `MaxMessage` bound the update timers and messages of
the visualizer: four timers give a callback within the callback of another, twice.

Fairness. ns-3 runs every scheduled event, so a timer that is running and not
restarted goes off: weak fairness of `RegisterTimeout` (`Lma`) and
`RetransTimeout` (`Mag`). Nothing is assumed of the network. `RetransEnds` rests on
`MaxSeq`: a node that re-attaches for ever restarts retransmission for ever.
`TestRunner`: weak fairness of the main thread and of each worker, and by it of
every test program: the driver has no timeout of its own, so it ends only if they
do. `Visualizer`: weak fairness of both threads; strong fairness of who waits for
the lock, since it is free again and again between two samples (and the waiting
loop tries it all the time), and of a timer, since the event loop dispatches the
ones that are due in turn. The user need not do anything.

## Findings

Each is a run that expects a violation; the counterexample is a behaviour of the
code.

* `lma_abort`: a deregistering binding is taken over by any MAG without its tunnel
  (`pmipv6-lma.cc:360`); the next handoff fails `NS_ASSERT (dev != 0)`.
* `mag_radvd`: an advertisement configuration is looked up by interface index among
  running numbers; the advertisements for a node outlive its binding.
* `viz_timer`: a timer's callback that waited while the button went up and a change of
  the speed, which starts a timer whether it is up or down, started another timer,
  forgets that timer without removing it (`core.py:1082`): the next Play runs with two of
  them. (A timer that Play starts is removed by the Pause that follows.)
* `viz_scale`: `autoscale_view` reads the positions of all nodes without the lock, 200 ms
  after the start (`core.py:1136`), and nothing keeps the user from pressing Play before.
  The generated bindings do not release the interpreter lock, so the two threads meet
  between two bytecodes of the loop over the nodes: it sees positions of different
  moments, or state that a handler written in Python has half changed.

Without a run, as one look at the code or a theorem shows it:

* the constructor of a device counts 1 and `AddTunnel` adds 1, so by `TunnelRefCounts`
  no device is ever freed and the search for a "freed tunnel device"
  (`ipv6-tunnel-l4-protocol.cc:201`) is idle;
* the handlers of the timers that should end or delete a binding cache entry are
  empty (`binding-cache.cc:295-307`), so the cache only grows, and the LMA goes on
  forwarding to a MAG that has given up;
* `BCE_PBU_PREFIX_SET_DO_NOT_MATCH` (`pmipv6-lma.cc:315`) is overwritten with ACCEPTED
  (line 511), and a new binding made;
* "Check Timestamp and sequence" (`pmipv6-lma.cc:261`) refuses only a timestamp in the
  future; an update older than the last accepted one is accepted;
* `RemoveRoute` is given the prefix as `prefixToUse`, which no route has
  (`pmipv6-lma.cc:609`, `pmipv6-mag.cc:558`); routes are never removed. Packets still go
  right, because the last of equal routes wins: that is what `BindingsRouted`,
  `PacketsReachMag` and `ServedEndToEnd` show;
* the entry a suite should get when valgrind fails it (`test.py:1544-1548`) is under
  `if job.returncode == 2` within the branch of the codes that are not 0, 1 or 2
  (`test.py:1572`), so it is never written: the results file says PASS and nothing else
  of a suite that the verdict counts as failed. `ResultsComplete` leaves this case open;
* the lifetime of an update is a double beyond 16 bits converted to `uint16_t`
  (`pmipv6-mag.cc:219`), which C++ leaves undefined.

The first three safety properties of the LMA (`NeverAborts`, `TunnelServesCoa`,
`RefCountsBindings`) hold without deregistrations and not with them. No MAG of this
repository sends a deregistration, so they hold of the program as it is
installed by its helpers.

## Proofs

`ForwardingProofs` - lemmas about the operators every agent is built from. Tunnel
lists: on a well-formed list (`ListOK`: typed, all remotes in use and distinct)
`GetTunnelDevice` finds the one device of a remote; `AddTunnel` counts up one device or
appends one with count 2 (`Adds`); `RemoveTunnel` on a device with more than one
reference only counts down (`Drops`). Route tables: a removal takes out
no route but the one it is given (`RemoveFirstCorrect`), and after
`AddNetworkRoute` the lookup finds the route that was added and no route is lost
(`AddNetworkRouteCorrect`).

`TunnelProofs` - for any finite set of clients and any remotes, from
`ZeroAssumption` (`::` is no remote) and `ClientAssumption` (finitely many clients):
`TunnelTypeCorrect`, `TunnelRemotesDistinct`, `TunnelRefCounts`, `TunnelServes`,
`TunnelModifyNeverAborts`. The inductive invariant `IInv` is the conjunction of
the type, `ListOK`, `RefCountsUsers` and `TunnelServesPeer`. None of them is
inductive alone. That a count is right needs distinct remotes. Distinct remotes
need that `ModifyTunnel` never takes its second branch, re-addressing a device in
place, as the new remote may have a device already; that branch needs count 1,
and the count of a client's device is at least 2. So the two oddities of the
code, a count that starts at 1 and a branch that ignores existing devices, are
harmless together. How a client's move changes the numbers of users is the
lemma `UsersMove`.

`LmaProofs` - for any nodes, MAGs, updates, profiles, pool and bounds, from the
named assumptions of `Lma`. In every behaviour, deregistrations included:
`DelayedPendingCorrect` and `PrefixContinuityCorrect`, by the invariant `CacheInv`
(the types without the routes, both properties, every bound node has a profile).
Each action either keeps every entry's node and prefixes and its timer in step
with its tentative entry (`Keeps`), or adds an entry with the prefixes its
profile then has (`Extends`). That no binding is without prefixes is what makes
`PrefixContinuity` inductive: `Create` only writes a profile that has none, so never
that of a bound node.

Under `NoDeregistration` (no update has lifetime 0): `NeverAbortsCorrect`,
`TunnelServesCoaCorrect`, `RefCountsBindingsCorrect`, by `TunnelInv`, which adds to
`CacheInv` that the devices fit the bindings (`ListOK`, `Counted`, `Served`) and that no
entry is DEREGISTERING. Without the last, a refresh from another MAG would move
the entry and not its tunnel, which is what the run `lma_abort` shows. A handoff
is a `RemoveTunnel` and an `AddTunnel` even when the tentative MAG has become the
current one meanwhile: after the first the list fits the cache without the moving
entry (`DropFits`), after the second the whole cache (`AddFits`); a registration
only does the second. As in `TunnelProofs`, the device of a binding counts at least
2, so a device is never freed nor re-addressed in place.

Under the same assumption `AcceptedMeansBoundCorrect`, from `CacheInv` alone: every
ACCEPTED answer is built from the entry the same step has written, whose MAG is
the one answered (`ModifyAnswers`, `CreateAnswers`), and no other step touches an
entry and leaves an answer standing (`AnswersNext`).

What the LMA does with packets needs the routes. `RouteInv` says that each binding has
a route through its tunnel for each of its prefixes (`BindingsRouted`), and that the
route lookups find is the tunnel of some binding of that prefix (`LookupServes`). An
action leaves routes and tunnels of entries alone (`Still`), or writes one entry's
tunnel and gains routes through it for all of that entry's prefixes (`Moves`,
`Gains`); a removal is given a `prefixToUse` no route has, so nothing is ever taken
out. `BindingsRoutedCorrect` holds in every behaviour, deregistrations
included. `TypeCorrect` is the full type.

Two theorems need more of the configuration. `NoSharedPrefixCorrect` assumes
`PoolSuffices`: the pool has a prefix of its own for each node, all different and none in a
profile. Its invariant `PoolInv` is that the pool's counter is the number of nodes
served from it and that each of them has one of the prefixes up to the counter; the
next one is then apart from all others (`AssignApart`). From
that, `RouteInv` and `TunnelInv`, `PacketsReachMagCorrect` (with `NoDeregistration`): the last
route for a prefix leads to the device of the binding that owns it, and that device
to the binding's MAG. Without distinct prefixes the last of two nodes would win.

`MagProofs` - for any nodes, interfaces, lifetimes, retry counts and bounds, and with
answers of any lifetime: `RetransmitsCurrentCorrect` and
`TimersGuardBindingCorrect`. The invariant `MagInv` says of each entry on its own
(`EntryOK`) which timers and which packet its state goes with, and that an entry is
UNREACHABLE only before its first update: the handler of the reachable timer
never finds one REACHABLE, since the refresh comes first. Every handler writes
one entry (`EntryStep`). That an interface of 0 means no tunnel needs a tunnel
list whose devices are never freed under it (`LiveList`). `MagTypeCorrect` adds the
tables (`NetInv`) and that no packet is sent more often than `MaxRetry` allows
(`Retried`).

`RadvdProofs` - for any number of configurations: `SendNeverAssertsCorrect`,
`ChainsKnownCorrect`, `AllAdvertisedCorrect`, `StopSilencesCorrect`, all from `RadvdInv`,
and with its `Bounds` `RadvdTypeCorrect`. That
`Send` never asserts needs that the map knows the event that is running; that
needs a fresh event at each scheduling (`NewEventFresh`) and that nothing is
scheduled before the start, or `StartApplication` would begin a second chain.

`VisualizerProofs` - for any number of timers and messages, and with Play at any moment:
`LockExcludesCorrect`, `MessagesKeptCorrect`, `PlayingHasTimerCorrect`. The lock is held
exactly by who is in a guarded section (`LockHeld`), which gives the first. For the second,
the list that is being extended is the current one at every moment, because
nobody swaps it while the simulation thread holds the lock (`MessagesInOrder`, which needs
`LockHeld`).
`VisualizerTypeCorrect` needs that the callbacks on the stack are distinct timers
(`Nested`), and that the first timer fits the bound (`MaxTimer` is at least 1).

`TestRunnerProofs` - for any tests, workers and outcomes: `LeavesNoWorkCorrect`,
`RunnerTypeCorrect`, `EachJobOnceCorrect`, `SuccessIsCompleteCorrect`,
`ResultsCompleteCorrect`. The invariant of the first, `QueueOrdered`, is that breaks come
last in the queue and that a worker that has taken one leaves only breaks behind.
For the others a job is counted wherever it can be: not yet dispatched, in the input
queue, in a worker's hand, in the output queue, in the results (`Total`). Each action
takes a job from one place and puts it in another, so every sum stays 1 (`Once`);
how a queue's and the workers' counts change are the lemmas `AmongAppend`, `AmongTail` and
`JobExchange`. `Verdict` ties the counters to the results collected so far. When as
many results are in as there are jobs, each job has one (`AllCollected`: an injective
function between finite sets of one size is onto), so a verdict of success
speaks about every job.

`Pmip6Proofs` - the protocol as a whole, for any nodes, prefixes, lifetimes above 0 and
bounds, from the named assumptions of `Pmip6`: `PrefixAgreementCorrect`,
`ServedEndToEndCorrect` and the refinement `KeepsPromiseCorrect`; and what the promise
is worth to the nodes, `NodesIsolatedCorrect` (no two share a prefix, and packets for a
prefix leave only for a MAG its owner was at) and `PrefixesKeptCorrect` (a node keeps its
prefixes across every handover). All of them assume `PoolSuffices`: a pool that runs out
gives one prefix to two nodes, and the last registration wins. No assumption excludes
deregistrations: the updates a MAG builds ask for `Life`, which is not 0.

The invariant `Pmip6Inv` puts together what holds of the agents and of the messages
between them, as none of it is inductive alone. The LMA (`AnchorInv`) is in order if only
updates of the type `Updates` reach it. A message that was sent may arrive at any later
time, so what it says must stay true: an acceptance grants a lifetime above 0 for the
prefixes of a binding that exists (`Honest`), which stays so because bindings are never
deleted nor given other prefixes (`StepHolds`), and no tentative entry asks for a lifetime
of 0 (`Lasting`); a binding, and a tentative one, is about a
node and a MAG it came to (`Grounded`). A MAG names no prefixes or those the LMA has
assigned, and has a tunnel only for nodes the LMA has registered (`Knows`), which is
where the two tables meet. With the interface `AccessIf = {i}`, all routes of a MAG
lead to the one tunnel and the one interface (`Serving`), so a removal cannot take a route
that another node needs. `ServedEndToEnd` is stated for that case only; with several
interfaces `PrefixRouted` is false after a node changed from one to another.

A step of an agent is shown in that agent's own module: `LmaProofs` says what a step of
the LMA may do to cache, answers, routes and exits (`AnchorStep`, `AnchorHandles`,
`AnchorDelayed`), `MagProofs` what a step of a MAG does to `Knows` and `Serving`
(`OwnStepKnows`, `AnswerKnows`, `OwnStepServes`, `AnswerServes`), and each what the steps
of the others leave alone (`AnchorElsewhere`, `ElsewhereKeeps`). `Pmip6Proofs` instantiates
both modules, shows their assumptions of its own constants (`LmaAssumptions`,
`MagAssumptions`), and that an operator reached through an instance of the proofs is the
one of the specification (the lemmas `Same...`). For the refinement, a step of the LMA
that writes a binding maps to `Register` of its node, with the prefixes the profile then
has and the exit its routes then lead to; it changes no other exit since no other node
has these prefixes. All other steps but `Attach` change neither profile nor exits.

Model-checked only: the liveness properties (`RegistrationEnds`, `RetransEnds`, `Ends`,
`QuitEnds`, `PlayRuns`), which rest on fairness and are beyond the prover.

## Not modelled

* Packet forwarding and decapsulation, and serialization and parsing of mobility
  options: one packet at a time, no state, within reach of a unit test.
* The bytes of an assigned prefix, and `NotifyInterfaceDown` of the source routing,
  which the protocol never causes.
* Of the test driver the selection of tests, the call of waf and the translation of
  the results; of the visualizer the drawing, the plugins and `pyviz.cc`.
* ns-3 itself, its wifi stack, the vendored pybindgen and the build scripts. The
  test suite and the example of `src/pmip6` are empty skeletons.
* The Python bindings, `modulegen__gcc_*.py` and the like: nearly all of the
  repository's Python, some 400 000 lines, written by a generator. They are lists of
  registration calls without a decision or a state, so there is nothing in them a
  model could be about; for that reason the models cover only a small share of
  the Python lines. The protocol itself is C++.

## Plan

Done: tunnels, LMA, MAG, their composition and its refinement, advertisement
daemon, test driver, visualizer; every safety property that a passing run checks and
the refinement as theorems. What is left, in order of worth:

1. A composition with a third MAG, and with nodes at several interfaces of one
   MAG, where `PrefixRouted` does not hold: what is then still true of the routes.
2. The findings with a run as theorems about when they cannot happen.
