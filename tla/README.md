# Formal models of C-BGP

C-BGP computes the outcome of BGP in a network: a single-threaded,
event-driven simulator in which routers exchange messages through one queue
while a script (or a user) changes the topology, the sessions and the networks
between two calls of `sim run`. Nothing runs in parallel. What makes the
program hard is the *order* in which commands and queued messages meet the
state of the sessions and of the RIBs, the places where the code decides not
to recompute something, and the commands that fail half-way.

The models describe the default build: `__EXPERIMENTAL__`, Walton, QoS,
best-external and OSPF are compiled out, assertions are enabled. libgds, PCRE
and the bgpdump library are external. File names below are relative to `src/`
of the repository.

The project has two layers.

* **Small models that go deep.** One peering (`BGPSession`, `BGPScript`), the
  decision process (`DPRules`, `DecisionRun`), one router and one prefix
  (`BGPRouter`), the simulator (`Scheduler`). Their state is cut down to one
  question each, they explore every order of events, and most theorems are
  about them.
* **One model of the whole program.** From the network database up to the
  command line, each module adds the functions of a few source files to the
  state of the module below it. Its instances are small networks driven by
  scripts, as the program is, and its properties relate several parts: what a
  RIB says and where packets go, what a reference counter says and which
  routes exist.

## Running it

    tlc -workers 2 -config reliable.cfg MCBGPSession
    tlapm Scheduler_proofs.tla

| MC module | Configurations |
|---|---|
| `MCBGPSession` | `reliable`, `faults` |
| `MCBGPScript` | `script` |
| `MCDecisionRun` | `decision` |
| `MCBGPRouter` | `router_reflector`, `router_all`, `same_route`, `stale_adjrib` |
| `MCScheduler` | `simulator` |
| `MCNetwork` | `network` |
| `MCBGPNet` | `bgp_net` |
| `MCInput` | `input` |

## Inventory

| Part | State | Operations | Here |
|---|---|---|---|
| BGP sessions (`bgp/peer.c`, `message.c`) | state, two sequence numbers, router-id, RIBs, filters, recorded messages of each peer | up, down, reset, rescan, recv, soft-restart; reception of OPEN, CLOSE, UPDATE, WITHDRAW | `BGPSession`, `BGPScript`, `BGPPeer` |
| Router (`bgp/as.c`, `dp_rt.c`, `rib.c`) | Loc-RIB, Adj-RIBs, local networks, BGP entries of the routing table | decision process, dissemination, add/del network, clear, rescan, re-advertise, RIB load and save | `BGPRouter`, `BGPDecision`, `BGPConfig`, `BGPTools` |
| Decision rules (`bgp/dp_rules.c`) | the list of candidates | nine rules | `DPRules`, `DecisionRun` |
| Attributes (`bgp/route.c`, `attr.c`, `attr/`, `route_reflector.c`) | the attributes of a route | copy, compare, prepend, append, redistribution | `RouteAttr`, `RoutePolicy` |
| Attribute stores (`bgp/attr/*_hash.c`) | shared paths and communities with reference counts | add, remove, search | `AttrStore` |
| Filters, route maps (`bgp/filter/`, `route_map.c`, `cli/bgp_filter.c`) | rules of matchers and actions | apply, parse, insert, remove | `Filter`, `Policy` |
| AS-level topologies (`bgp/aslevel/`, `cli/bgp_topology.c`) | graph of ASes with relationships | load, filter, check, install, policies, run, record-route | `ASLevel`, `ASNetwork` |
| Domains, automatic configuration, assertions (`bgp/domain.c`, `auto-config.c`, `bgp_assert.c`, `record-route.c`) | the routers of an AS | full mesh, rescan; queries | `BGPConfig`, `BGPTools` |
| Simulator (`sim/`, `cli/sim.c`) | the event queue, the clock | post, run, step, stop at, clear, interrupt | `Scheduler`, `EventQueue` |
| Forwarding (`net/network.c`, `message.c`, `icmp*.c`, `ip_trace.c`, `ipip.c`) | messages on the wire | send, receive, forward, ICMP errors, probes, tunnels | `Forwarding` |
| Links, interfaces, subnets (`net/link*.c`, `iface*.c`, `subnet.c`, `node.c`) | the network database | create, connect, up, down, weights, loads | `Topology` |
| Routing tables (`net/routing.c`, `rt_filter.c`, `prefix.c`) | routes by prefix, type, metric | add, delete with wild cards, lookup | `RoutingTable`, `IPPrefix` |
| IGP (`net/igp.c`, `igp_domain.c`, `spt.c`) | domains, shortest-path trees | compute | `IGP` |
| Traffic (`net/tm.c`, `netflow.c`, `traffic/`) | load of the links | load matrices and flows, clear | `NetFiles` |
| Import, export (`net/ntf.c`, `export*.c`) | none of their own | NTF in, script out | `NetFiles` |
| RIB and dump input (`bgp/mrtd.c`, `cisco.c`, `route-input.c`, `main-dump.c`) | files of records | text formats, cbgp-dump | `RouteInput` |
| Command line (`cli/`, `api.c`, `main.c`) | options, parameters, contexts | commands, scripts, includes, modes | `BGPCommands`, `CLI`, `Network` |
| OSPF, Walton, QoS; Java interface; display | | | not modelled, see the end |

`PROJECT.json` lists the hazards at their lines, with the properties that would
catch them going wrong. By kind:

* **order**: an UPDATE or CLOSE that overtakes an OPEN when the route between
  two routers changes; commands between any two messages; callbacks that post
  while their bucket is emptied;
* **stale state**: what a reset session left in the queue arrives in the next
  session; routes of a closed session; a Loc-RIB chosen with old IGP costs; a
  cache of AS-level domains after a filter has freed them;
* **skipped recomputation**: the decision process runs only if a BEST flag, an
  eligible route or `route_equals` says so;
* **redundant state**: Loc-RIB, BEST flags, Adj-RIB-Outs and the routing table
  say the same thing four times and are updated by a dozen handlers; both ends
  of a link, an interface and its subnet; a value and its reference count;
* **partial failure**: an end that is ESTABLISHED though its own OPEN failed;
  commands that stop half-way; a flow file with a bad record;
* **loops and ends**: forwarding loops against the TTL, loops of routes against
  the AS-path and cluster list, `sim run` and probes that must return;
* **limits**: an 8-bit minimum, 16-bit ASNs, bounded segments, stacks and
  buffers, a clock kept in a float.

## The small models

### BGPSession: one peering, its messages and the queue

Models `bgp/peer.c` (session part), `message.c`, and what a session sees of
`network.c`, `icmp.c` and the scheduler.

* *State.* An end is a `bgp_peer_t`: `session_state`, `send_seq_num`,
  `recv_seq_num`, `router_id` (known or not). `queue[p][v]` holds the messages
  from `p` along path `v`. Messages keep their order along one path; two paths
  are not synchronised, which covers all orders that the two schedulers can
  produce for one peering. `route` and `broken` are the routing table's choice
  and the disabled links. `incarnation` and `accepted` are history variables:
  they tell the sessions of one peering apart, and no guard reads them, except
  that `incarnation` is bounded.
* *Actions.* `OpenSession`, `CloseSession`, `ResetSession`, `RefreshSession`
  are the commands `peer up`, `down`, `reset` and `rescan`. `ReceiveOpen`,
  `ReceiveClose`, `ReceiveRoute` are the handlers, dissemination included: an
  arbitrary burst of adverts stands for what the RIBs send back to this peer.
  What they send to other peers is a `Disseminate` step of those ends.
  `ReceiveOutOfSeq` is a failed `_bgp_peer_seqnum_check`; an `abort()` ends the
  behaviour and is recorded in `faults`. `ChangeRoute`, `ChangeLink`,
  `LoseMessage`, `ClearQueue` are the disturbances of the network.
* The comment of `_bgp_peer_seqnum_check` says that a failed check aborts the
  program; the code returns an error that stops `sim run`, after which the user
  may go on. The model follows the code.

### BGPScript: the discipline of the manual

BGPSession driven as `net_link_down.txt` and `bgp_domain_rescan.txt` ask for:
commands between two runs of the simulator, a rescan of all routers after each
topology change. It may start one end of a peering and leave the other down.
`Directions` says which directions can fail together or alone; the history variable `oneway` tells whether one ever failed alone, which
is when the guarantees weaken.

### DPRules and DecisionRun: the decision process

`DPRules` has one operator per rule as a filter on a set, `Turn` (a rule is
applied only while there is a choice) and `decision_process_run`, the whole
loop, and beside it the reference: the order of preference of two routes and
the routes it elects (`Elected`). Both `BGPRouter` and `BGPDecision` use `DPRules`.

`DecisionRun` executes the same on the *list* that the program has, with its
indexes, one pass of a loop per step. Eight of the rules, and MED with
always-compare, have one shape: `Scan` walks over the list for the best value,
`Discard` once more to remove what is worse, where the index stays after a
removal. They differ in the attribute (`Value`) and in where the minimum starts
(`Start`). The deterministic MED rule has two nested loops (`Compare`) that set
routes to NULL before `Discard` removes those. `DP_NUM_RULES` is 11, but the array
`DP_RULES` has nine rules in the default build, followed by two NULL entries: the
loop is safe only since no two routes are left after the ninth rule.

### RoutePolicy and BGPRouter: the RIBs of one router

One router and one prefix (every handler loops over the prefixes it concerns,
and prefixes do not interact). A session is ESTABLISHED or not. That only an
OPEN establishes it is what `BGPSession_proofs` proves; BGPRouter relies on
it, since the Loc-RIB is advertised in that handler only.

`RoutePolicy` has `bgp_peer_route_eligible` (loop, originator and cluster
checks, filter) and `_bgp_router_advertise_to_peer`: the redistribution matrix
(`Redistributed`) and the attributes it assigns (`Exported`). A policy filter
is the set of next-hops it denies; `Filter` has the real ones. `MED_MISSING` is
2^31-1, standing for the largest 32-bit number: only its order counts.

| Action | Code |
|---|---|
| `process_update`, `process_withdraw` | `_bgp_peer_process_update`, `_bgp_peer_process_withdraw` |
| `session_established(p, answer)` | `_bgp_peer_session_open_rcvd` and the dissemination it starts; `answer` is the ACTIVE branch |
| `session_closed` | `bgp_peer_close_session`, `_bgp_peer_session_close_rcvd`, `_bgp_peer_rescan_adjribin` |
| `add_network`, `del_network` | `bgp_router_add_network`, `bgp_router_del_network` |
| `clear_rib(loc)` | `bgp_router_clear_rib`, `bgp_router_clear_adj_rib` |
| `scan_rib` | `bgp_router_scan_rib`, `bgp_router_rerun` |
| `peer_readv_prefix` | `bgp_router_peer_readv_prefix` |
| `igp_change` | external: the IGP's routes |

`decision_process` is a helper of these actions, not an action: it runs inside
the handler, on the state the handler has assigned so far. `heard` and `told`
are history variables: what each neighbour said and was told on the current
session.

Three simplifications add behaviours and lose none: the session refresh at the
start of `scan_rib` is a number of `session_closed` steps before it;
`bgp_router_scan_rib` filters the prefixes it looks at in code that follows an
unconditional return, so all prefixes are submitted; closing a session that is
not ESTABLISHED may re-run the decision process for a leftover BEST flag, which
is a `scan_rib` step. That a message may fail to be sent is the business of
BGPSession.

### Scheduler and EventQueue: the simulator

`Scheduler` has both schedulers: `events`, the FIFO of the static one, and
`buckets`, the sorted list of the dynamic one, each bucket a FIFO. An action is
one pass of a scheduler's loop or one command (`sim run`, `step`, `stop at`,
`clear`, `options scheduler`). What a callback does is chosen when it runs: it
posts events after any delay, fails, or clears the queue it is called from. The
interrupt sets a flag between any two passes. The clock of the dynamic
scheduler goes through a float: `Float` rounds as the format does for times up
to 2^25, and `exact` is false from the first time that was rounded.

`EventQueue` is the abstract promise: a set of pending events with their due
times; the one handled is the first in time, then in the order of posts; only
a clear drops any. `Queue == INSTANCE EventQueue WITH ...` in `Scheduler` is the
refinement mapping, and `InOrder` the property.

## The model of the whole program

### How it is written

The program's state is one record that grows from module to module. A function
of the program that changes the state is an operator from the state to the
state after it; a command that fails half-way returns what it has already
done, with its error in `err`. An action of `Network`, `BGPNet` or `Input` is
one command of the user or one event of the simulator, whole. A pointer that
may be NULL is a set of at most one value. A failed assertion or undefined
behaviour (freed memory, an index out of range) ends the behaviour, with its
source line in `crash`.

Most functions use the result of a call several times. `Let(result, LAMBDA r :
...)` of module `IPPrefix` binds such a result once, as a parameter; a LET
definition would be followed into the called function at each use. The
functions of the routers call each other (a decision sends messages, a message
is delivered and leads to a decision) from module to module. The constant
operator `Call(S, c)` of `BGPDecision` stands for such a call, `c` being the name
of the function and its arguments. `Perform` in `CLI` is the recursive operator
that knows all of them, and the configurations say `Call <- Perform`. `Enter` does
the same for the functions that send and receive in `Forwarding`.

    IPPrefix <- Topology <- RoutingTable <- IGP <- Forwarding <- NetFiles
    IPPrefix <- RouteAttr <- AttrStore <- Filter <- Policy <- RouteInput
    NetFiles, Policy, DPRules <- BGPDecision <- BGPPeer <- BGPConfig <- BGPTools
    BGPTools, ASLevel <- ASNetwork <- BGPCommands <- CLI <- BGPNet, Input
    NetFiles <- Network

Where the program takes text, the model takes what the parser has made of it: a
command is a tuple of its words and arguments, an argument that must be parsed
is a set that is empty if it cannot be, a file is a sequence of records. The
two places where the text itself decides are kept: the keys of the attribute
stores, whose length is counted in characters since their buffers are bounded,
and the language of predicates, which is parsed token by token.

### Modules

| Module | State it adds | Code |
|---|---|---|
| `IPPrefix` | | masks, containment, comparison (`net/prefix.c`) on `W`-bit addresses |
| `Topology` | nodes, interfaces, subnets, domains | `net/network.c`, `node.c`, `iface*.c`, `link*.c`, `subnet.c`, `ipip.c` (creation), the commands of `cli/net.c`, `net_node.c` (tunnels), `net_node_iface.c` |
| `RoutingTable` | a table per node | `net/routing.c`, `rt_filter.c`, static routes |
| `IGP` | | `net/igp.c`, `spt.h`, `igp_domain.c`: a search with a FIFO that takes a vertex up again when it is improved, equal-cost paths, routes from the tree |
| `Forwarding` | the queue, ICMP results, ECMP paths left to explore | `net/network.c` (send, receive, forward), `icmp.c`, `icmp_options.c`, `ip_trace.c`, `ipip.c` |
| `NetFiles` | loads, statistics | `net/tm.c`, `netflow.c`, `traffic/stats.c`, `ntf.c`, `export_cli.c`, and which commands a script may hold |
| `RouteAttr` | | paths and segments, communities, extended communities, cluster list |
| `AttrStore` | the two repositories | `attr/path_hash.c`, `comm_hash.c`, `attr.c`, `route.c`: every change of an attribute takes and gives back references |
| `Filter`, `Policy` | route maps, compiled expressions | `filter/filter.c`, `registry.c`, `parser.c`, `predicate_parser.c`, `route_map.c`, `cli/bgp_filter.c` |
| `RouteInput` | | `mrtd.c`, `cisco.c`, `route-input.c`, `main-dump.c` |
| `BGPDecision` | routers, peers, RIBs | `rib.c`, `message.c`, `as.c` (decision, dissemination), `dp_rt.c`, the sending half of `peer.c` |
| `BGPPeer` | | `peer.c`: sessions, reception, virtual peers, soft-restart |
| `BGPConfig` | domains of routers | `as.c` (creation, peers, networks, scans), `domain.c` |
| `BGPTools` | what a load counted | RIB load, `auto-config.c`, `record-route.c`, `bgp_assert.c`, `bgp_debug.c`, statistics |
| `ASLevel`, `ASNetwork` | an AS-level topology | `bgp/aslevel/`, and the network, sessions and filters that it becomes |
| `BGPCommands`, `CLI` | output, contexts, parameters, options | `cli/bgp*.c`, `cli/common.c`, `api.c`, `main.c` |
| `Network` | the probe under way, history | the network alone: commands, ping, traceroute, record-route, traffic |
| `BGPNet` | the commands typed, history | the composition: commands and messages interleave |
| `Input` | one of five jobs | what the user gives to the program |

In `BGPNet` the messages of BGP travel through `Forwarding`, hop by hop, over
the links and with the routes that the network has at that time, and BGP puts
its routes into the same routing tables. `Deliver` is one event: the message at
the head of the queue moves one hop, or arrives and its handler runs. `Command` is
one command of the user, at any time between two events. Before that, it takes
the commands of the scene's script one by one (`script` is what is left of it),
and nothing else happens. `kept` (history) marks
the routes that an Adj-RIB-In still has from a session that was closed.

## What the runs show

Passing runs:

| Run | Distinct states | Instance | Properties |
|---|---|---|---|
| `reliable` | 78,471 | one peering, 1 path, no faults, 3 sessions per end | `SameSession`, `SettledAgreement`, `RouteAbortsAfterError`, `Terminates` |
| `faults` | 455,211 | one peering, 2 paths, changing routes, links, cleared queue | `SessionInv`, `OnlyOpenEstablishes` |
| `script` | 16,148 | directions fail together or one at a time | `RunsThrough`, `SessionsFollowTopology` |
| `decision` | 1,672,076 | 2 routes, every attribute; 3 around the MED rule | `SelectsElected`, `RulesAreFilters` |
| `router_reflector` | 124,343 | reflector: client, non-client, external; network, IGP | `LocRibBacked`, `LocRibIsBest`, `PeersToldBest` |
| `router_all` | 153,484 | 2 external neighbours, every operation | `RtFollowsLocRib` |
| `simulator` | 186,684 | both schedulers, 4 events, 2 runs | `NoEventLost`, `InOrder`, `RunDrains`, `RunReturns` |
| `network` | 6,069 | 5 networks, 3 commands or probes | `DatabaseSound`, `RoutesShortest`, `ProbesTell`, `TrafficAccounted`, `ExportRebuilds`, `ProbesEnd` |
| `bgp_net` | 16,274 | 7 scenes of routers, 1 to 3 commands | `StateSound`, `BestRecorded`, `DecisionStands`, `EndsAgree`, `Exported`, `LoopFree`, `PathsTrue`, `PoliciesHold`, `Settles`, `OthersKeep` |
| `input` | 79,333 | 5 jobs | `TopologySound`, `CheckExact`, `ParserRight`, `AttributesKept`, `DumpAccounted`, `StopsAtError` |

In words:

* **Sessions.** Over one path, an ESTABLISHED end only acts on messages of the
  session it accepted, both ends agree when the queue is empty, and the
  simulation ends. Whatever is lost or overtaken, numbers follow states, so
  that no UPDATE establishes a session and no OPEN meets an ESTABLISHED one. A
  script written as the manual asks aborts in one case only: an OPEN reaches an
  end that is down while the other was started.
* **Decision and RIBs.** The loop over the rules elects the one route that the
  order of preference defines, and the loops of each rule, which shorten the
  list they walk over, compute the rule's filter. A router's Loc-RIB is what the decision process would choose, is
  backed by a flagged route of an ESTABLISHED peer, is in the routing table,
  and is what the peers were told.
* **Simulator.** Both schedulers implement `EventQueue`: no event is lost or
  repeated, the order is that of time and posts, and a run that was not
  interrupted leaves nothing behind and returns. The promise ends where the
  float rounds. Times are doubles and the clock is a float: with a time that
  does not fit its 24 bits (a whole number above 2^24, a fraction such as 0.7) a
  callback that posts with a small delay can create a bucket before the one that
  is emptied, and the removal of the first bucket then destroys the new one with
  its event. `exact` marks that. The model counts time in units of the last
  place of such a number, so that times are whole.
* **Network.** Commands that fail half-way keep links, subnets and tables
  consistent. IGP routes have the metric of an independent definition of
  shortest paths and always lead closer. A ping is answered exactly if there is
  a way there and back; a traceroute is a path. Shared loads do not multiply,
  and the exported script rebuilds the network in whichever order the nodes are
  in memory. Every probe ends.
* **BGP on the network.** After any message and command: reference counts are
  the numbers of references (a lost message keeps its own: `leak`); routing
  table, Loc-RIB and BEST flags agree; running the decision process again
  changes nothing; a neighbour has exactly what the redistribution rules give;
  no route comes back; the simulation settles. When no message is under way,
  both ends of a session agree and packets and record-route take the AS-path.
  Under the policies of an AS-level topology, routes are valley-free and
  customers come first. A question, or a command that fails, changes nothing.
* **Input.** Topologies stay symmetric through filters, `check` reports what it
  should, and the installed network is the topology. The parser accepts the
  expressions of its grammar and gives them their meaning. A route survives
  being written and read. Dumps and scripts end where the code says.

Several properties are conjunctions of named parts, each with its own comment
in the module (`DatabaseSound` is `NetTypeOK`, `LinksPaired`, `SubnetsPaired` and
`TablesSorted`).

### What the properties except

The code does not keep some of these promises after certain commands, which
its comments partly admit. The properties of the whole program name the
exceptions; the commands are in the instances:

* `add network` replaces a learned route and leaves its entry in the routing
  table and its BEST flag (`RtMatches`, `BestFlagged`); `clear-rib` leaves the
  routing table as it is; `del network` does not run the decision process
  (`as.c:490` says so), nor do `clear-adj-rib` and the option for the MED
  (`Decided`).
* A session that is closed keeps its Adj-RIB-In (`kept`; see `stale_adjrib`),
  so that `Decided`, `EndsAgree`, `RecordFollows` and `CustomersFirst` speak of
  the routes of present sessions.
* Changes of the network need a rescan (`Unscanned`). The ends of a session are
  compared only where no filter is between them (`Unfiltered`) and no cluster-id
  was changed under it (`Reclustered`).
* `include`, `sim run`, `load`, and the `start`, `stop` and `reset` of sessions do
  several things in turn and stop at the first that fails (`Partial`, in
  `OthersKeep`).
* `bgp add router` at a node that has a router is refused, but only after the
  new router has joined the domain of its AS (`as.c`, `bgp_add_router`). The
  commands on the domain then act on this router, which no node has: in the
  model it is in `strays`, and `OthersKeep` excepts the command (`Readds`).
* A message that arrives at a session which is down aborts the program
  (`StoppedAtClosed`); it takes a command that closes one (`down`, `stop` or
  `reset` of BGP), or a rescan after a link went down.
* `ExportRebuilds` excepts a script that disables an interface before the link
  that makes it is created: `net export` writes the state of a node's
  interfaces after the links of that node only.
* `ProbeReturns` excepts a traceroute that never gets an answer: its TTL is a
  `uint8_t` that is compared with 255, wraps to 0 and starts again.

### Disagreements

Two runs exhibit a disagreement between the code and what the repository says
of it. Each is a finding in `PROJECT.json`, with the quoted line:

| Run | What happens |
|---|---|
| `same_route` | the best route moves to an equal route of another client; the first client is never told |
| `stale_adjrib` | closing clears the Adj-RIB-Out (index 1) and keeps the Adj-RIB-In, whose routes return with the next session |

Others were met while modelling. The models have the behaviour; no run is
spent on them:

* `peer.c:438`: an end that answers an OPEN sets ESTABLISHED and ignores the
  result of sending its own. When only the way back is missing, it stays
  ESTABLISHED opposite an OPENWAIT end, and no rescan repairs it.
  (`SessionsFollowTopology` therefore says `~oneway`.)
* `peer.c:455`: an OPEN that reaches an end in IDLE aborts the program.
  `doc/txt/bgp_router_peer_up.txt` says of a neighbour that does not answer that
  "the session will remain in OPENWAIT state". (`RunsThrough` names the case.)
* `dp_rules.c:339`: the minimum of the path lengths is a `uint8_t` that starts
  at 255. When all AS-paths are longer, all are removed.
* `dp_rules.c:763`: the length of a cluster list is cut to 8 bits when the
  minimum is computed and whole when it is compared with it: a list of 256
  clusters has its route, and every other one with clusters, removed.
* `peer.c:567`: closing a session runs the decision process for BEST routes
  only. With deterministic MED a route that is not best can be the one that
  eliminates another.
* `peer.c:436`: an OPEN received in ACTIVE does not record the router-id. Two
  such neighbours both have 0.0.0.0 and are taken for one, so the routes of
  one are not sent to the other.
* `igp.c:184`: a ptp link is one vertex of the tree, and an improved vertex
  keeps the end it was created with. A link that is reached first from one end
  and then at a lower cost from the other is left by the wrong end, and the
  routes behind it are not shortest. The networks of `network` avoid it.
* `as.c:975`: the comment lists the cluster list before the router-ID;
  `DP_RULES` has them the other way round.
* `filter.c:119` (aslevel): filtering the links between peers stops at the
  first neighbour without providers and can keep a link at one of its ends;
  `filter.c:160` leaves freed domains in the cache. `TopoDefined` excepts both.
* `message.c:139`: a dropped UPDATE does not release its route.
* `main-dump.c:236`: cbgp-dump returns success after a record it cannot read.

The instance of `router_reflector` avoids exactly the operations these
disagreements are about (`Operations`), uses always-compare MED, and has
neighbours with distinguishable routes; `router_all` has every operation and
checks what survives them.

### Bounds

Sessions and router:

* One peering (two ends): sessions interact only through the RIBs, and the RIBs
  may say anything (`Bursts`).
* `MaxOpens`, the sessions opened per end: a stale message belongs to the
  current session or an earlier one; three sessions let a message of the first
  meet the third.
* `MaxSeq`: an OPEN and two or three route messages, enough to make numbers of
  different sessions coincide.
* `MaxQueue` bounds commands, never handlers: what is queued is always handled.
* `MaxBroken`: one broken path at a time; with the other path, or none, as the
  route, an end still sees every combination of lost, late and refused. Two
  paths are enough for one message to overtake another.
* Three routes are needed for MED elections that are not transitive; two are
  enough to see each comparison of the order.
* Three neighbours: the best, the one it replaces, one that is told.

Simulator: `MaxEvents` 4 and `MaxRuns` 2 let a callback post before, into and
after the bucket that is emptied and a second run meet what the first left;
`EventTimes` are on both sides of 2^24.

Network and BGP: addresses have `W` = 4 bits, which leaves room for hosts,
subnets of several lengths and longest matches. Every limit of the code is a
constant that the instances can reach: `MaxTTL` 7 (255 in the code; longer than
any path here, shorter than a loop), `MaxFifo`, `MaxSegment`, `MaxComms`,
`MaxDepth`, `MAX_DEPTH`, `MaxStack`, `KeySize`. A scene starts with a script
that the program executes and goes on with commands of a fixed set, chosen so
that they interfere:

| Scene | What it is for |
|---|---|
| `chain` | three ASes in a line; commands while the sessions come up |
| `mesh` | a full mesh of iBGP sessions and two providers; links fail, routers are rescanned |
| `reflect` | two reflectors of one cluster; clients, cluster-ids |
| `policy` | filters, route maps and communities on a square of ASes |
| `virtual` | virtual peers, RIB files, recorded messages, soft-restart |
| `internet` | an AS-level topology with its policies |
| `tools` | the commands that ask, and those that cannot be carried out |
| `triangle`, `subnet`, `diamond`, `tunnel`, `build` | (`network`) loops of static routes; transit and stub subnets; equal-cost paths; IP-in-IP; commands that fail half-way |

`MaxCommands` is 1 for `tools`, 3 for `virtual` and the networks, 2 otherwise: two
commands are enough for the second to meet the messages of the first. The jobs
of `input` take up to seven tokens (every nesting of two operators and a pair
of parentheses, and what exceeds the stack), topologies of up to six ASes, six
changes of a route, files of two records and lists of three commands.

### Deadlock

A script may stop at any time, an execution ends by `abort()` and an input
comes to an end, so the session, decision, simulator and input runs say
`CHECK_DEADLOCK FALSE`. `router_reflector`, `router_all`, `network` and
`bgp_net` check it: a router can always react, and a network where neither a
command nor a message is left is at rest (`Rest`).

### Fairness

Only the loop of the simulator is fair, since `sim run` pops events until the
queue is empty: `WF(SimStep)` in BGPSession, `WF(Loop)` in Scheduler, and in
`Network` and `BGPNet` the same stated without `ENABLED`, which TLC would have to
evaluate by executing a handler twice:

    []<>(s.queue = <<>> \/ Crashed(s)) \/ []<><<Deliver>>_vars

The script of a scene is a file that the program reads to its end, so its
commands are fair in the same way.

Otherwise nothing obliges a user to issue a command or a link to recover, and
`Terminates`, `RunReturns`, `ProbesEnd` and `Settles` do not need it. `Settles`
is checked on scenes without a dispute wheel; with one, BGP itself does not
converge, and `sim run` does not return.

## What is proved

For all values of the constants that satisfy the named assumptions.

`BGPSession_proofs` (any set of peerings and paths, all faults):
`SessionInvariant`, and from it `TypeCorrect`, `OpensAreNumberedZero`,
`NumbersAgreeWithState`, `OpenNeverMeetsEstablished`, `RoutesNeverEstablish`.
Neither of the last two is inductive. The invariant is

    SessionInv == TypeOK /\ ZeroIsOpen /\ NumbersFollowState /\ NoOpenInEstablished

An accepted UPDATE has the expected number; an end in OPENWAIT expects 0
(`NumbersFollowState`); only an OPEN has number 0 (`ZeroIsOpen`). An
ESTABLISHED end expects a positive number, so it never accepts an OPEN.
`ZeroIsOpen` is kept since an end that may send routes has a positive
`send_seq_num`. Run `faults` checks the invariant.

`ReliableSession_proofs` (any set of peerings, one path and no faults, which is
`Reliable`): `SessionsAreNotMixed`, `EndsAgreeWhenSettled` and
`RouteAbortsFollowErrors`, the three invariants of run `reliable`. A sequence
number does not say which session it belongs to, so none of them is inductive.
As long as no run has stopped with an error, `ReliableInv` says of every end:

* what it has under way is a stream: each message is an OPEN or continues the
  number and the incarnation of the one before it, nothing but an OPEN follows
  a CLOSE, and the numbers it will use next go on with the stream
  (`SenderInStep`);
* what it expects is the first number of the stream that comes to it, of the
  session it accepted, or that stream begins with another session
  (`ReceiverInStep`);
* if all it sent is handled, the other end is ESTABLISHED, and its OPEN is
  under way if it is still needed, or else a CLOSE is (`AnswerUnderWay`).

`BGPScript_proofs` (any set of peerings, paths and `Directions`):
`ScriptsRunThrough` and `SessionsTrackTopology`, the invariants of run `script`.
The inductive invariant is

    ScriptInv == \/ SafeInv /\ OpenerIsUp /\ (~oneway => JointInv)
                 \/ Stopped

`Stopped` is the state after the `abort()` of an OPEN that met an end in IDLE:
nothing happens any more. That the other end was up follows from `OpenerIsUp`: an
end whose OPEN is under way is not IDLE, since closing waits for an empty queue.
`SafeInv` keeps the handlers from every other `abort()`, whichever directions
fail. With
`SessionInv` it says that messages are on the current routes only, that a CLOSE
is the first of what is under way, and that an end which has not opened, and
has received a CLOSE or is about to, faces an end that is not ESTABLISHED and
has sent no route (`Warned`). `JointInv` is what two directions that fail
together add: no error so far, and either all ends have a route, and what comes
to an end is numbered from what it expects or its session is being closed
(`JointUp`), or none has one and the ends that have been rescanned have given up
(`JointDown`). The proof reduces every command and handler to one form (`Moves`:
the new state and numbers of one end, the messages it posts, the message it
takes), and shows once per form what this does to the two ends of a peering.

`DPRules_proofs`: `RunSelectsOne` and `RunElects`. The loop over the rules turns
any non-empty set of candidates with bounded attributes, AS-paths and cluster
lists within the 8-bit limit and pairwise different neighbour addresses into exactly one of
them: each rule keeps a candidate (the extremum exists); the last one separates
any two. And that one is the elected one, `Elected`: with always-compare MED
the first in the lexicographic order of the attributes, otherwise the first,
MED aside, of those that are first among the routes of their AS. The proof
follows the set that is left after each rule: its members agree on every
attribute so far, and whatever is before one of them was before it at the
start.

`DecisionRun_proofs` (lists of any length, either kind of MED): `LoopsAreFilters`
and `RunSelectsElected`, the invariants of run `decision`, and `LoopsEnd`. The
inductive invariant `RunInv` says of each loop what it has done so far:

* between two rules, the rules that are left, as filters on what is left
  (`Rest`), select what all of them select from the list that was given, and the
  list is what the last filter keeps (`BetweenRules`);
* while a rule scans, the bound is not above any value it has seen, and is its
  start or the value of a route of the list (`Scanning`);
* while it discards, the routes of the list that need not go are those that the
  filter keeps of the list the rule was called with, and all that must go are at
  the index or behind it (`Discarding`);
* in the nested loops, the filter of the rule keeps of the routes that are not
  NULL what it keeps of the list the rule was called with, and those of one AS
  that have been compared have equal MEDs (`Comparing`).

The last one is why the deterministic MED loop may compare with fewer routes as
it goes on: a route is only set to NULL because of one that is still there. That the
rules elect the right route then follows from `RunElects`. `LoopsEnd` gives a
variant: rules ahead, the loop of the rule, and the passes of its outer and
inner index are four natural numbers (`Ahead`), and every step makes them smaller
in the lexicographic order. So the loops terminate, whatever the list; the
conclusion from the order to termination is the usual one and not part of the
proof. The lists have routes within the width of their attributes, and AS-paths
and cluster lists within the 8-bit minima, one route per neighbour, in the order
of the neighbours' addresses (`ListsAssumption`). TLC checked `RunInv` as it stands, for both
kinds of MED.

`BGPRouter_proofs`: `TypeCorrect` and `RoutingTableAgrees` from
`RtInv == TypeOK /\ RtFollowsLocRib`, and `BestRouteIsBacked` from

    BackedInv == RtInv /\ FromOffers(rib_in) /\ LocRibBacked

`FromOffers` says that an Adj-RIB-In has only routes of its own neighbour. The
theorem assumes that clear-rib is not used and that no two neighbours announce
routes that are equal once imported (`DistinctOffers`): without it
`route_equals` keeps an entry whose peer has lost it (`same_route`). The
instance of `router_reflector` satisfies both.

With the theorems about the rules it has two more results. `PeersAreTold`,
under the same two assumptions, follows from

    ToldInv == BackedInv /\ PeersToldBest /\ Silent

`Silent`: a session that is not ESTABLISHED has an empty Adj-RIB-Out and was
told nothing. What a peer is told depends on two router-ids, its own and that
of the peer the route was learned from. Both are ESTABLISHED, the second by
`LocRibBacked`, and a router-id only changes with an OPEN. `BestRouteIsBest`
follows from

    BestInv == BackedInv /\ Unheard /\ LocalAgrees /\ LocRibIsBest

The handlers skip the decision process when a route that is not flagged BEST
goes away or one that is not eligible arrives. That this changes nothing is a
fact about the rules: by `RunElects` the choice is the minimum of an order, and
taking away a route that is not the minimum leaves the minimum. So it
needs always-compare MED (with deterministic MED it is false: `peer.c:567` in
the list above) and routes within the 8-bit limit (`OffersFit`). It assumes that
clear-rib and del-network, which do not run the decision process, are not used
and that a neighbour's session is not opened again over its old Adj-RIB-In
(`stale_adjrib`). `Unheard` says that an Adj-RIB-In of a session that was never up
is empty, `LocalAgrees` that a local network is the best route while it exists.
Run `router_reflector` has these constants; TLC also checked both invariants as
they stand.

`Scheduler_proofs`, on lemmas about lists of buckets at its beginning, for
any delays, limits, step counts, event times and numbers of events:
`TypeCorrect`, `NoEventIsLost`, `LimitIsKept` (a run handles at most one event
past the limit of `sim stop` under the static scheduler, none under the
dynamic one), `TimeIsMonotone`, `InterruptIsSeen`, `RunLeavesNothing` and the
refinement `SchedulersKeepOrder`: both schedulers implement `EventQueue`. The
inductive invariant is

    SchedInv == SchedTypeOK /\ OneList /\ ListsSorted /\ Accounted /\ NothingPast /\ LimitSeen

Each scheduler only uses its own list; lists are sorted and have an event once;
every event is handled, cleared or waiting (`Accounted`); no bucket is in the
past and the one that is emptied is the first (`NothingPast`). The last one is
what makes `list_remove_at(0)` remove the right bucket, and it needs an exact
clock. Of `Float` the proofs only use that it is monotone and does not change
what it has rounded (`FloatMonotone`). The refinement follows since the head of the list
that is used is the first pending event in the order of times and posts.

`Topology_proofs` (any nodes, prefixes, interfaces and width of addresses):
`DatabaseInvariant`, and from it `LinksStayPaired` and `SubnetsStayPaired`, two
parts of `DatabaseSound`. The specification of this module takes any command
that adds nodes, subnets, links, interfaces or tunnels or changes them, with any
arguments and in any order; the commands on routes, protocols and domains may do
anything to the nodes but remove one. The inductive invariant is

    DBInv(t) == Sound(t) /\ Paired(t.ifaces)

Several of these commands do their work in steps, each of which may be refused,
and undo nothing. The proof shows what that leaves behind. A link first gets
both interfaces, which are harmless as long as they are not connected, and then
is connected at both ends or at none: what could refuse the second end (a
connected interface, another type, the same node) refuses the first already
(`ConnectBoth`). For a far end that claims to be connected to the near one
this takes the invariant, since the code lets it pass. In between, and while
the two ends take their delay and capacity, only `Sound` holds, which is why it
is a part of its own. An interface that joins a subnet is connected before the subnet lists
it, and the subnet may refuse; but it only does so when it lists an interface
with that address already (`AddressTaken`), so a message for the address still
finds one. The auto-configuration of BGP (`bgp_auto_config_session`) is not
among the commands: it asks for a link of one direction, for which
`LinksPaired` is not true. The assumptions are that the bounds are natural
numbers and that powers of two are positive (`BoundsAssumption`,
`PowerAssumption`). `OneLongestMatch` says that the
longest prefix that covers an address is one prefix in any table whose keys are
masked, as the keys `rt_add_route` stores under are (`MaskMasks`):
`trie_find_best` is a set in the model, and a node or nothing in the code.

Only model-checked:

* liveness (`Terminates`, `RunReturns`, `ProbesEnd`, `Settles`), which the provers
  do not reason about;
* the order of the routes and entries in a routing table (`TablesSorted`): a
  route is deleted by a selection from the list, and what a selection returns is
  an induction over the list;
* that a post always finds its bucket or the place for one. `BucketPost` is a set
  of lists; with a sorted list it has exactly one, which is an induction over the
  list. Run `simulator` has as many states with `BucketPost` computed from a
  count of the earlier buckets, so no post is refused there;
* the model of the whole program, whose operators are recursive.

## Not modelled

* OSPF (`net/ospf*.c`, `spt_vertex.c`), Walton, QoS, best-external: compiled
  out of the default build.
* The Java interface (`jni/`): wrappers around the operations of the other
  parts.
* Texts for display, help, completion and the history of the command line, the
  graph formats of the export, the section on BGP of the exported script,
  statistics that are only shown.
* The tokenizers, libgds (lists, tries, hash sets: modelled by what they
  promise), PCRE and the bgpdump library.
* Memory management outside the attribute stores. Freed memory that the
  program reads is modelled where it was met (AS-level filters, unconnected
  interfaces), not searched for.
* `sim clear` as a scheduled event under the dynamic scheduler: it destroys the
  bucket being emptied, which the loop then reads.

## What could come next

1. An abstract session (two ends, up or down) and BGPScript, with both
   directions failing together, as its refinement. `ScriptInv` has what the
   mapping needs.
2. What `BestRouteIsBest` becomes when sessions are opened again: the routes of
   the old session take part in the decision, so `LocRibIsBest` would have to be
   stated for the Adj-RIB-Ins as they are.
3. A dispute wheel as an instance of `BGPNet`, and scenes with more commands
   than TLC can enumerate now, cut down by a smaller `Forwarding`.
