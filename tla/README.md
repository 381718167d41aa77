# Verification of sliding-window-and-routing

TLA+ models of the programs in this repository, checked with TLC, and proofs
about them, checked with TLAPS. `PROJECT.json` lists the runs, the
correspondence between definitions and source lines, the hazards and the
theorems.

    tlc -workers 2 -config sw_safety.cfg MCSlidingWindowNoWrap
    tlapm SlidingWindowProofs.tla
    tlc -workers 2 -config dv_safety.cfg MCVecRouter
    tlapm VecRouterProofs.tla
    tlc -workers 2 -config dv_loops.cfg MCVecHistory
    tlapm VecHistoryProofs.tla
    tlc -workers 2 -config ls_flooding.cfg MCLsRouter
    tlapm LsSettledProofs.tla

## 1. The system

The repository holds two unrelated systems.

**`src/sliding-window-algorithm/`** moves a file over UDP with two programs.

| Part | State | Operations |
|---|---|---|
| `reliable_sender.cpp` | `windowBuf`, `LAR`, `congestionWindow`, `lastFrameSeqNo`, the read position of the file, `ack[]`, RTT estimate and `RTO` | one pass over the window (retransmit what timed out, fill up from the file), `recvfrom` with a 100 ms timeout, processing of `ack[]`, exit |
| `reliable_receiver.cpp` | `buf`/`present`/`buf_data_size` (a ring of `RWS` buffers), `NFE`, `endSeqNum`, the output file | `handleRecvFrame` per datagram, closing acknowledgements |
| `utils.cpp` | none | packs and unpacks frames and acknowledgements |

They interact by datagrams only: frames one way, acknowledgements (4 bytes, a
sequence number) the other, and the ICMP error of a closed port, which the
sender's *connected* socket reports as `ECONNREFUSED`. There are no threads (the
mutex is unused). What makes it hard: every datagram may be lost, duplicated or
reordered; both ends drop state on what they infer of the other; sequence
numbers are finite; the end of the transfer is the usual two-generals problem.

**`src/routing-algorithms/`** runs one router process per node of a network that
iptables rules emulate.

| Part | State | Operations |
|---|---|---|
| `monitor_neighbors.cpp` | `connections`, `costs`, `globalLastHeartbeat` | HEREIAM broadcast every 300 ms (a thread that only reads), updates of the tables, log files |
| `vec_router.cpp` | `dvTable`, `updateTime` | a receive loop: HEREIAM, `dist`, `cost`, `send`, `mesg`; each turn also sends the periodic update (1 s) and drops neighbours silent for 3 s |
| `ls_router.cpp`, `ls_utils.cpp` | `adjMatrix`, `seqNumMatrix`, forwarding table | a receive loop: HEREIAM, `ls`, `cost`, `send`, `forward`; each turn also drops neighbours silent for 2 s and floods all own links every 8 s; flooding with a TTL and a sequence number per link and end; Dijkstra with tie-breaks |
| `manager_send.c` | none | sends one `send` or `cost` command to a node and exits |

Routers interact by datagrams between neighbours. What makes it hard: routes are
computed from rumours; the two ends of a link notice its failure at different
times; updates cross on a link and are lost; a router is restarted with empty tables;
nothing is acknowledged.

The rest (Makefiles, topology generators, sample results) is not modelled.

### What makes each part correct

* Transfer: the output is the input, in order, at all times a prefix of it; what
  the sender forgets the receiver has written; nothing is sent that the receiver
  cannot hold; both programs exit, and only after the transfer.
* Distance vector: a next hop is a live neighbour; distances never promise more
  than the network has; a table follows what the next hop last said; two-node
  loops dissolve; after the last change the tables settle on the shortest paths
  with the lower next hop ID.
* Link state: what a node believes of a link is what an end of it said last, in the
  newest of its packets that came; the two places that hold the cost of a link agree;
  the forwarding table is always that of the shortest paths through these beliefs, under
  the tie-breaking rule; once no flood has anything to tell, the beliefs are true.

## 2. Modules

    UdpChannel ── ReliableReceiver ─┐
        └──────── ReliableSender ───┴─ SlidingWindow ─┬─ SlidingWindowProofs ─ MCSlidingWindowNoWrap
                                          │           └─ MCSlidingWindow
                                     FileTransfer (INSTANCE, the abstract specification)
    NeighborMonitor ─┬─ VecRouter ── VecRouterProofs ── MCVecRouter
                     │      └─ VecRouterHistory ─ VecHistoryProofs ─ MCVecHistory
        Dijkstra ────┴─ LsRouter ─── LsRouterProofs ── LsSettledProofs ── MCLsRouter
    FiniteOrders ─┬─ NeighborMonitorProofs ── VecRouterProofs, LsRouterProofs
                  └─ DijkstraProofs ───────── LsRouterProofs
    VecRouterProofs ── VecHistoryProofs;  MCVecRouter ── MCVecHistory

| Module | Models | Correspondence |
|---|---|---|
| `UdpChannel` | the UDP path | `frames`, `acks`: sets of datagrams in flight; a datagram may stay after its receipt (a duplicate), leave unread (a loss) and be read in any order. `refused`: a pending ICMP error |
| `ReliableReceiver` | `reliable_receiver.cpp` | `ReceiveFrame` is one turn of the loop with all of `handleRecvFrame`: `RejectFrame` for lines 52-60, `AcceptFrame` for 62-123. `present`, `buf` and `buf_data_size` are one ring |
| `ReliableSender` | `reliable_sender.cpp` | `SendWindow(expired)` is one pass of lines 153-270, `ReceiveAck`, `ReceiveTimeout` and `ReceiveRefused` the outcomes of `recvfrom`, `ProcessAck` the rest of the loop body |
| `SlidingWindow` | both and the network | `Next`, fairness, properties |
| `FileTransfer` | what they promise together | `Deliver` appends the next frames, `Finish` stops the sender after the receiver |
| `NeighborMonitor` | `monitor_neighbors.cpp` | `connections`, `costs`, `Announcing`; `up` and `LinkChange` are the iptables rules. Both routers extend it |
| `VecRouter` | `vec_router.cpp` | one action per kind of datagram (`Hear`, `ReceiveDist`, `CostCommand`, `SendCommand`, `ReceiveMesg`), each a whole turn of the loop, and `Restart`, which is `main` again: the tables of power-on and an empty socket, while what the node sent before stays under way; the functions of the code are operators from one state of the node to the next |
| `VecRouterHistory` | `VecRouter` and what its routers have missed | a history variable, `followed`, for every ordered pair of neighbours, and the three properties that hold of a router as long as it has missed nothing. It never restrains a step of `VecRouter` |
| `Dijkstra` | `updateFwdTable` of `ls_utils.cpp` | a pure function of a node's `connections`, `costs` and `adjMatrix`: `ConfirmNext` is one pass of the loop at 306-452, `TieHop` lines 369-431; `at` is an entry's place in the vector, on which the choice between equal costs depends. `IsShortest` and `TiesBroken` are the reference it is compared with |
| `LsRouter` | `ls_router.cpp`, the floods of `ls_utils.cpp` | one action per kind of datagram (`Hear`, `ReceiveLSP`, `CostCommand`, `SendCommand`, `ReceiveForward`), each a whole turn; `HeardFrom`, `DropSilent`, `PeriodicFlood`, `Accept` and `SetCost` are the parts of a turn. `said` is history: all a node ever flooded of each of its links |
| `FiniteOrders` | – | finite sets of numbers can be listed in order |
| `SlidingWindowProofs`, `VecRouterProofs`, `VecHistoryProofs`, `LsRouterProofs`, `LsSettledProofs` | – | inductive invariants and theorems |
| `DijkstraProofs`, `NeighborMonitorProofs` | – | theorems about the operators the routers are built from, and about links |
| `MC...` | – | values of constants, the converged start of the larger routing runs |

Definitions headed "Mutation:" are wrong variants of the one that follows them.
No specification uses them; replacing the right one by them must break a
property, which is how the properties are tested.

### Abstractions

* A frame's data is its position in the file. Sizes, bytes and layout are left out.
* The sender's clocks: any subset of the window may have timed out at any pass, so
  the RTT estimator and `RTO` (lines 331-351) are not computed. Every behaviour
  of the estimator is among those the model allows.
* A pass over the window is one step: it only writes to the socket, and what
  arrives meanwhile waits there.
* The receiver is bound before the sender starts; otherwise the sender's first
  `recvfrom` or second `sendto` fails and it exits at once.
* The file has as many bytes as the transfer asks for.
* The router's clocks: a turn may or may not find the update due; which
  neighbours it finds silent is discussed under *Bounds*.
* Updates and link-state packets of one link are received in the order sent (a network of local
  addresses); the receive buffer of a distance-vector router drops what exceeds
  `MaxInFlight`. Messages (`mesg`, `forward`) carry only their destination, and the logs are left out.
* `CheckHeartbeats` sends its updates for all dropped neighbours in the order of
  destinations where the code goes neighbour by neighbour; all of them say
  "infinite".
* `DropSilent` computes the forwarding table once after all silent neighbours are
  dropped; the code computes it after each, and nothing reads the ones in between.
* The link-state routers' sequence numbers are naturals: `int` would overflow after
  some 2 000 million floods of one link.

## 3. Runs

| Run | Question | Result |
|---|---|---|
| `sw_safety` | Do all safety properties, the refinement and the proofs' invariant hold over a hostile network? | pass, 612 433 states |
| `sw_liveness` | Do both programs exit? | pass, 8 677 states |
| `sw_wrap` | Is the file in order once sequence numbers wrap? | **violated** |
| `sw_wrap_ack` | Are acknowledgements cumulative once they wrap? | **violated** |
| `sw_uninit` | Is what the sender forgets delivered, with a zeroed `ack[]`? | **violated** |
| `sw_empty` | Does a transfer of nothing end? | **violated** |
| `dv_safety` | Next hops and distances, with everything that can go wrong at once | pass, 207 079 states |
| `dv_loops` | Crossing updates, count to infinity, two-node loops, and who has missed what, when a link fails, an update is lost or a router restarts | pass, 57 620 states |
| `dv_convergence` | Do tables settle after a failure, cost change or restart, after counting to infinity, and from power-on? | pass, 54 075 states |
| `dv_lost_poison` | Do tables settle if one update is lost? | **violated** |
| `ls_flooding` | Are beliefs explained, tables the best for them, and do they settle on the truth? | pass, 79 993 states |
| `ls_stale_link` | Are the routes right once further floods would tell nothing new, if two links fail? | **violated** |

### The properties

*Sliding window.* `DeliveredInOrder` says the output is a prefix of the input,
`AckedImpliesDelivered` that the sender deletes only what is written,
`WindowNumbered` that the number a retransmission recomputes from `LAR` is the one
first sent (the check commented out at `reliable_sender.cpp:358`),
`ReceiverHasRoom` that a slot in use never meets a new frame,
`SenderStopsAfterDelivery` that even the exit on an error comes after delivery.
`TimeoutNeverSlides` is about the missing `continue` after a timeout: the previous
acknowledgement is processed a second time, and it has no effect only because its
frame has left the window. `AckIsCumulative` and the refinement of `FileTransfer`
(`ImplementsTransfer`) complete the safety part; `BothExit` is the liveness one.

*Distance vector.* `NextHopConnected` relates `dvTable` to `connections` (a message
logged as sent really is sent). `NoPhantomRoute` compares every finite distance
with the paths of the graph: however rumours circulate, no distance is shorter
than the cheapest path at the cheapest costs. It is a lower bound; that a table does not
keep a distance that is too long is said by the next three. They hold of a router and one of
its neighbours for as long as the router has missed nothing of what that neighbour says,
which the history variable `followed` records. `EntryFollowsNextHop` says that the
tests of `updateDistVec`, which ignore most updates, never ignore one that
matters: a router keeps no copy of its neighbours' tables and could not repair the
omission. `TwoNodeLoopIsTransient` is poisoned reverse: of two routers that route to a
destination through each other, one that has missed nothing is about to hear "out of
reach" from the other, so such a loop never counts to infinity. `QuietIsBest` is about the
loops that do count: a router that routes through live neighbours only, with nothing
missed, under way or left to say on any of its links (`Quiet`), holds the best of its
neighbours' offers. A count that stops before it has found the next best way, or
infinity, leaves a quiet router with an entry nobody offers. A router misses what is
said while the link is down, while the neighbour has given it up or after the neighbour
was restarted, what the network loses or its buffer has no room for - and what it
ignores itself (`NothingMissed`): see *An update that is ignored* below.
`SteadyStays` is that a settled network is left alone by itself (`Steady`: the tables solve
the equations, neighbours are known, and what is under way only repeats what the tables
say). The periodic updates, in any order and overlapping, with poisoned reverse that says
"infinite" of routes that are fine, announcements that offer the direct route again, and the
loss of any of these change nothing. `Converges` compares the
final tables with the shortest-path equations and the tie-break of
`readme.md:36`. In `dv_loops` and `dv_convergence` a real count to infinity around the
triangle, towards the node behind it, is reached (1 → 2 → 3 → 1, up to the limit); the
three-node loop is not excluded by any property because the code does not exclude it.
`QuietIsBest` and `Converges` say that the count comes to its end.

*Link state.* `MatrixExplained` ties every entry of every `adjMatrix` to the history:
it is what one end of the link said, in the newest of that end's packets the node has
got. It holds whatever order floods come in round cycles and across reconnections, and
also says that nobody's numbers run ahead of their owner's (an owner would then be
ignored). The code numbers the two ends apart, so the property does not say *which* end
is believed; that is the defect `ls_stale_link` shows. `CostsMatchMatrix` relates the two
copies of a link's cost, which four branches of the loop change separately.
`RoutesAreBest` is the work of `updateFwdTable`, against equations only the shortest paths
satisfy, and at the same time a claim about the handlers: none changes the tables the
function reads without calling it. In `ls_flooding` it is evaluated for every network of
four nodes with costs 1 and 2 (`AnyInit`). `SettledIsConverged` finds the errors that no
further traffic repairs: when nothing is under way and one more flood of any node would
teach nobody in its reach anything, the tables are the shortest paths of the real
network. `ls_stale_link` shows it violated, and the other run splits it into what is true
of the code and what is not: `OnlyForgottenLinksMislead` is `SettledIsConverged` for a
network in which no end of a failed link has forgotten the failure (`NoLinkForgotten`) and
no path is longer than the TTL; it holds always. `NothingForgotten` says that a settled
network has forgotten no failed link. It is not true in general: it holds where a periodic
flood meets one change at most, which `Scenario` of `MCLsRouter` sees to, whatever floods
cross, and `ls_stale_link` breaks it. What is true of every network is `ForgottenMeansMissed`: a node that routes over a
link of its own without being connected by it either has not had the last word of the other
end, or the other end still takes the link to be up. Words are lost with packets and
with links, so this is as much as the code can promise, and it is what goes wrong in
`ls_stale_link`. Agreement of the two ends on a link's cost is part of `Settled` (`Knows`
asks that a flood would change neither the matrix nor, at an end, the cost of its own
link): after cost commands at both ends whose floods cross they disagree until the next
flood. `Converges` says that this state is reached. The costs it is measured by are those
in the routers' own `costs`, which a flood of the other end overwrites (`Adopted`,
`ls_router.cpp:299-309`): that the routes settle on what the ends of a link agree on is
claimed, that they agree on the manager's last word is not. A flood that crosses the
manager's command may put the old cost back.

`FloodsInOrder` is about the packets under way: those of one end of a link are on each hop
in strictly ascending order, and none is ahead of its sender. So no packet crosses
a hop twice, which is why flooding round cycles ends even before the TTL does.
`SteadyStays` is that a settled network is left alone by itself: in a `Steady` network
neighbours are known, one more flood would tell nobody anything, and no packet under way
can reach anybody it would tell something new. Periodic floods that overlap, and the
loss of any packet, then change no cost, and no matrix and no table of a node that hears
anybody, and leave the network steady.

### What the violations show

* `sw_wrap`: `reliable_receiver.cpp:84` reduces `i + NFE` modulo `RWS` without
  reducing it modulo `MAX_SEQ_NO` first. 170 does not divide 5000, so after the
  first 5000 frames (about 7 MB) the delivery loop looks in the wrong slots.
* `sw_wrap_ack`: `%` at `reliable_sender.cpp:313` is negative for an
  acknowledgement beyond the wrap, which is then ignored.
* `sw_uninit`: the first timeout processes an uninitialized buffer.
* `sw_empty`: a transfer of 0 bytes never ends.
* `dv_lost_poison`: `vec_router.cpp:115` never repeats an infinite distance, so the
  loss of one update leaves a route to an unreachable node in place for ever
  (`readme.md:33` promises convergence within 5 seconds).
* `ls_stale_link`: the link of 1 and 3 fails, 1 notices and floods -1, 3 has not noticed and
  floods its cost, which overwrites the -1 at 2 and, forwarded, at 1. Then the link of 2
  and 3 fails too. 1 has no connection to 3, so `ls_utils.cpp:97` passes the link over,
  and no longer has it as gone, so `:137` does too; 3 is cut off. 2 routes to 3 through 1
  for ever.

**An update that is ignored.** One clause of `NothingMissed` was found by TLC and not by
reading. A turn drops the silent neighbours before it looks at what it has received, and
`vec_router.cpp:322` then ignores an update whose sender is out of reach. The sender is a
live neighbour, but if the route to it went by another one that was just dropped, the entry
for the sender is infinite at that moment. The update is gone; if it said "infinite",
`:115` never repeats it and the stale entry stays. TLC reaches such a state from the
converged kite with no loss and no restart: the cost of 1 to 3 is raised to 3 and an
update of 2 moves 1's route to 3, but not yet its route to 4, to the way through 2; the
links of 3 and 4 and of 1 and 2 fail; 3 tells 1 that 4 is out of reach, in the turn in
which 1 drops 2. From then on 1 routes to 4 through 3, which has no route. By the code's
clocks this takes periodic updates of 3 that are late or lost for the three seconds that 2
is silent; without that, one of them would have moved the second route as well.

It breaks the promise of `readme.md:33`, by the cause `dv_lost_poison` has a
counterexample for, and has no run of its own. The hazard is listed without a property: the clause
exempts exactly this router, and keeps the properties of `VecRouterHistory` from claiming
what the code does not do. `Converges` does not cover it, as it takes more changes than its
run has.

A comment at `ls_utils.cpp:315` says that the search of the tentative table "inherently
picks the lowest id". It picks the entry pushed first, which may be another one.
`ShortestPaths` (below) shows that the table does not depend on it.

### Bounds

* `sw_safety`: 5 frames, windows of 3, 8 sequence numbers. The window slides past
  the whole ring, the ring is reused, a frame can be two windows old, and
  sequence numbers do not wrap (the condition the proofs assume). The number of
  losses, duplicates and retransmissions is unbounded.
* `sw_liveness`: 3 frames, windows of 2; the ring is reused once.
* `sw_wrap`, `sw_wrap_ack`: 9 and 8 frames over 7 and 6 sequence numbers, under
  `KindNetwork`, an action constraint that removes the ambiguity every finite
  numbering has (no copy of a frame outlives its acknowledgement). 3 does not
  divide 7 as 170 does not divide 5000. These are counterexample runs: the
  constraint only makes the counterexample more telling.
* Routing: `MaxChanges` = 1 link or cost change, `MaxLosses` and `MaxSends` at most
  1. `MaxPending` lets a periodic update begin only while few updates are under
  way: updates are a second apart and a network of this size digests them in
  milliseconds; it is more than 0 except in the counterexample run, so updates of
  different turns do overlap. Without `FalseAlarms` a neighbour falls silent only
  if its link is down, and not in the middle of the digestion. `dv_safety` has
  `FalseAlarms`, so there a node may give up a live link at any turn. The code's
  `INFINITY_LIMIT` is 1000 for at most 256 nodes; a small limit lets counting reach
  it. In `dv_safety` it is 3, and node 2's costs file (`FarEnd`) puts node 3 at a
  distance of 3: node 3 is then beyond the limit for node 1, so a distance that is
  real and still too long is met as well as one that was counted up.
* In `dv_loops` one mishap happens (`OneMishap`): a link fails, an update is lost or the
  leaf is restarted. The two ends of a failed link notice at different times, so what one
  end has missed and the other has not is met with each. Mishaps together are left to the
  proofs, which bound nothing.
* `SteadyStays` is checked in `dv_loops`, where there are other ways and ties, and in `dv_safety`
  for messages and false alarms.
* `dv_loops` and `dv_lost_poison` start from `SteadyInit`, the tables of shortest paths
  with nothing under way. `dv_convergence` shows that this is where the routers arrive. It
  has three starts (`StartSpec`): the converged kite, whose tail 3–4 then fails, so that the
  three nodes of the triangle count to infinity towards node 4 (the limit is 4: the count
  goes round once before it is reached); a converged triangle whose side 1–3 costs more
  than the way through 2, in which a link fails, a cost is raised or a router is restarted;
  and a line of three from power-on, of which a link fails or a router is restarted. `Scenario` keeps to one mishap in each, since all of
  them on four nodes are beyond the time of a run.
* `MaxRestarts` is 1 in `dv_safety`, `dv_loops` and `dv_convergence`. In the last two a restart
  comes alone (`OneMishap`, `Scenario`): without loss and even when the neighbours do not notice, the tables
  settle again. Beside a failed link they need not: a router restarted before it has
  noticed the failure has nothing to announce, and its neighbour keeps the route through it
  for ever (on a line of three, the link of 1 and 2 fails and 2 is restarted). That is
  the omission `dv_lost_poison` shows, reached without a loss.
* `ls_flooding` has three kinds of starts: power-on with one link and two changes to come,
  a converged kite (a triangle with a tail) with two changes, and every network of four
  nodes with costs 1 and 2 through which one message is sent. `Scenario` is an action
  constraint that keeps the first two small: links fail and one comes up, one link
  changes its cost, periodic floods and losses come where they have something to meet. One
  link failing after the periodic flood, a loss during a flood, and floods that cross all
  happen; two failures with a periodic flood between them are left to `ls_stale_link`,
  since that is where `NothingForgotten`, and with it `SettledIsConverged`, breaks.
* `TTL` is 4, so that a packet crosses three links, the longest path four nodes can have;
  the code's 13 is enough for 13 nodes on a line. `Settled` speaks of the nodes within
  `TTL - 1` links only; in the runs that is every node (`EveryoneInReach`).
* `SteadyStays` is met in `ls_flooding` by the converged kite before and after its changes,
  under the periodic flood, and by the networks a message crosses.
* `MaxPending` and `FalseAlarms` are as for the other router. `MaxFloods` is 1; since a
  second flood could repair what a loss destroyed, `Converges` exempts behaviours with a
  loss, and the two halves of `SettledIsConverged` take over: they ask what floods could
  repair.
* Deadlock is not checked for the link-state routers: when every link has failed and all
  bounds are spent nothing is left to happen.

### Fairness

* Both transfer programs keep running (weak fairness of the sender's steps and of
  the close). The first frame of the window times out again and again because
  `RTO` is finite (strong fairness of a pass with position 0 expired). The network
  may lose any number of copies but not all of them: a frame sent for ever is
  received in the end (strong fairness per frame), an acknowledgement in the
  window likewise. A closed port answers for ever-repeated frames with an ICMP
  error that arrives in the end. Nothing is assumed of the order of receipts.
* Routers read what is in their socket (weak fairness per link). A neighbour that
  announces itself every 300 ms for ever is heard, infinitely often in a turn
  that finds the one-second update due and all dead neighbours past their three
  seconds (strong fairness of `HearOnTime`). This is a little more than the code states:
  that the turn which finds the update due also finds all dead neighbours silent is so
  because they stay silent. `dv_convergence` uses the same fairness with the condition
  under which each step can be taken written out (`FairnessSpelledOut`):
  `[]<>idle \/ []<><<step>>_vars` for the weak and `<>[]~possible \/ []<><<step>>_vars`
  for the strong one. A cut-off node hears nothing and gets
  no fairness: the code looks at its clocks only after a receipt, and `Converged`
  exempts it.
* The link-state routers get weak fairness of the same two things: a node with packets in
  its buffer receives one, and a node with something to hear (a new neighbour, or a dead
  one to be found silent) hears it once the traffic has been digested. Both are written
  out as `[]<>idle \/ []<><<step>>_vars`, which is weak fairness with the enabledness
  spelled out, as above. Nothing is assumed of the periodic flood: apart from losses the routers
  settle without it.

## 4. Proofs

`SlidingWindowProofs` proves, for all values of the constants, all that `sw_safety`
checks. Assumptions beyond the types of the constants:

* `NoWrap`: `NumFrames + RWS <= MAX_SEQ_NO`. It cannot be dropped: `sw_wrap` and
  `sw_wrap_ack` show what fails without it, and over a network that may hold a
  datagram for ever no finite numbering would do.
* `WindowsFit`: `SWS <= RWS` (both are 170).
* `HarmlessUninitAck`: the uninitialized `ack[]` names no frame of the first window
  (`sw_uninit` shows why).

**Argument.** The properties are not inductive. `IInv` adds what they lean on:
without wrap-around a sequence number *is* a place in the file, the window is the
stretch `LAR + 1 .. nextFrame - 1` (`WindowInv`); the receiver is ahead of what the
sender dropped and behind what it read (`DeliveryInv`); a buffered frame lies within
`RWS` of `NFE` and in the slot of its own number (`RingInv`), so that a slot read by
the delivery loop holds the frame the loop expects; acknowledgements in flight name
written frames or none (`NetworkInv`); `ack[]` holds one that has had its effect
(`SettledInv`); who may have stopped (`EndInv`). One lemma per action shows that it
preserves `IInv` (`SendWindowInv`, `ProcessAckInv`, `AcceptFrameInv`, ...), `StepInv`
collects them and `Invariance` concludes. The safety theorems follow from `IInv`;
`TimeoutIsHarmless` and `AckCounts` are action properties that hold of every step
from a state with `IInv`; `Refinement` shows that a receipt maps to `Deliver` or a
stutter and the sender's exit to `Finish`.

The module begins with the few facts about `%` that the SMT solver does not find
by itself (uniqueness of the residue within a window).

**Only model-checked**: liveness (`BothExit`, `Converges`), which needs `ENABLED`; of the
link-state routers also `NothingForgotten`, which is not true in general (`ls_stale_link`).

`VecRouterProofs` proves `VecTypeOK`, `NextHopConnected` and `NoPhantomRoute` for every
finite network, all costs and bounds, with lost updates, restarts and false alarms. The
assumptions are those `NeighborMonitor` and `VecRouter` state about their constants:
links join two different nodes both ways, costs are naturals, and `LeastCost`
satisfies the triangle inequality for every cost a link may come to have. The costs
of shortest paths do (the runs give it that value, computed by
`MCVecRouter!ShortestPaths`, and TLC evaluates the assumption); smaller solutions
only make the theorem weaker, so it is about the shortest paths.

**Argument.** A turn is a sequence of calls, and each of the operators that model them
maps a state of the node to a state of the node. `TurnState(n)` is the set of states
fit for every one of them: connections along links; costs the network may have; a
table whose distances are honest (not below `LeastCost`) and whose next hops are
connected; updates under way that are honest *for their sender*; nothing under way
where there is no link. One lemma per operator (`SendUpdatesOK`, `UpdateDistVecOK`,
`CheckHeartbeatsOK`, `LearnOK`, ...) shows that it keeps the set, `TurnOK` that a turn
hands on a state in which the datagram's sender is connected, and one lemma per
action that `RouterInv` - every node's state is in its `TurnState` - is inductive. It
has to speak of updates under way since those become table entries, and of costs
since `ReceiveDist` adds them. That the sets of nodes a loop runs over can be listed
by ID (`AscendingExists`) is proved from the well-foundedness of the naturals.

The invariant `RouterInv` is also checked by `dv_safety`.

The module also proves the two safety halves of convergence, for networks in which no link
costs nothing (`PositiveCosts`): `SettledNetworkStays` (`SteadyStays`, false alarms apart) and
`SettledTablesAreUnique`: two converged states with the same links and costs have the same
tables, next hops included, at every node that hears anybody. With `Converges` they say that
the routers find one table and keep it; that they find it is what TLC checks. The costs must
be positive: over links of cost 0 two nodes may hold routes through each other that solve all
equations, until poisoned reverse undoes them.

**Argument.** `Fits` reads `Converged` off a table: every entry is some neighbour's offer, and
no neighbour's is better. `NothingNecessary`: then none of the four reasons `updateDistVec` has
for noting an entry applies to what a neighbour repeats. An offer is no better than the entry,
and the next hop's own words repeat the entry - unless it answered "infinite", which it does to
a node it routes through, and two nodes routing through each other are each farther than the
other. So nothing is noted in a turn (`TurnCalm`), and what a turn sends repeats the tables
(`SendUpdatesCalm`). For uniqueness (`OneTable`), take the least distance about which two
tables differ: it is the offer of a neighbour that is nearer, about which they agree, and which
therefore makes the same offer in both (`LeastDifference`).

`VecHistoryProofs` proves `EntryFollowsNextHop`, `TwoNodeLoopIsTransient` and, for networks in
which no link costs nothing, `QuietIsBest`, for every finite network, all costs and bounds,
with everything that can go wrong.

**Argument.** `FollowInv` adds to `EntryFollowsNextHop` what is under way: of each
destination, the last word on a link is what its sender's table says now (`Current`), and
between a failure and its discovery nothing is routed over the link but to the neighbour
itself. It is kept because whoever changes an entry says so. `Tells(n, k, r, s)` is what
neighbour `k` hears of `n`'s going from state `r` to `s`: of every entry that changed, unless
`n` has dropped `k`. `Keeps` adds that what `n` routes through `k` it routed so before, but
for `k` itself, and that `n` adds only to its own words. A turn is a sequence of such changes,
so the relation is shown to compose (`TellsTrans`) and proved for each operator
(`UpdateDistVecKeeps`, `CheckHeartbeatsKeeps`, `LearnKeeps`, ...). `TurnKeeps` joins
them for a turn and `HearFollows`, `ReceiveDistFollows`, ... turn them into `FollowInv'`.
The cost of the link is a set in `followed`: a cost command changes the neighbour's own
entry and no other, so the entries through it go on with any cost the link has had since.
Without `followed` the invariant would be false from the first lost update on, and for the
links where nothing was lost as well. `TwoNodeLoopIsTransient` follows without induction:
the entries of a loop through each other are both poisoned, so the one that has missed
nothing must be about to hear of it.

`RestIsBest` needs no induction either. The entry of a quiet router is what its next hop says
now (`EntryFollowsNextHop`, with nothing under way), plus a cost the link has had; were it
not the present cost, the next hop's periodic update would change it, and nothing is left to
say. So it is an offer (`EntryIsOffered`). No neighbour has a better one (`NoBetterOffer`), or its
update would be noted - unless it poisons its offer because it routes through this router.
Then its own entry follows this router's, which has missed nothing in the other direction
either, and is farther by the cost of the link: here the costs must be positive. Where no
neighbour offers anything the entry is `Unreachable`, since a distance is infinite exactly
where there is no next hop (`HonestEntry`, a part of `RouterInv`).

`DijkstraProofs` proves `ShortestPaths`: for every finite view of a network with positive
costs, `UpdateFwdTable` returns a table of exactly the shortest paths, whose next hops are
neighbours, with ties broken by the last node before the destination. The last part
needs `OwnLinksAgree`: where `costs` and `adjMatrix` differ on an own link, line 388 takes
from `adjMatrix` what the first entries of the table took from `costs`.

**Argument.** The loop invariant: no confirmed node is farther than a tentative one
(`Ordered`); every link out of a confirmed node leads to an entry that is no worse
(`Explored`); every entry is the end of a path over confirmed nodes, by the next hop of
the lowest possible last node (`Reached`). `PassKeepsInv` shows that a pass of the loop keeps
it, `Progresses` that each pass confirms one more node, so that after as many passes as
there are nodes nothing is tentative. `PassIs` shows that the recursive function that
stands for the loop exists.

`LsRouterProofs` proves `LsTypeOK`, `MatrixExplained`, `CostsMatchMatrix` and `RoutesAreBest` for
every finite network, all positive costs, any TTL and bounds, with losses and false alarms.
Beyond the assumptions of `NeighborMonitor` it needs that no cost of a link is 0
(`LsAssumption`): a 0 in the matrix means that there is no link.

**Argument.** `Sound(n, s)` says what holds of node `n` between the calls a turn is made of:
its tables have their types, the matrix is symmetric and explained by the history, `costs`
matches it, the forwarding table is the best for both, and every packet under way is
*authentic*: it says what its sender has said under that number. The history only grows
(`Extends`), which is why the other nodes stay sound while one takes its turn (`Onlooker`):
what they have heard stays said. One lemma per function (`HeardFromOK`, `DropSilentOK`,
`FloodLSPOK`, `AcceptOK`, `SetCostOK`, ...) shows that it keeps `Sound`. Within a function the
matrix may be ahead of the history - a link is entered, or cut, before it is flooded - so
`ExplainedBut` names the links that are still to be spoken of, and the flood discharges
them. `TurnOK` puts the functions together and `TurnInv` turns them into `RouterInv'`.

`LsSettledProofs` proves `FloodsInOrder` and `ForgottenMeansMissed`, for the same networks
and with the same mishaps.

**Argument.** `TidyInv` adds three things to `Sound` for every node. What it has on
its hops is in order and not ahead of its numbers (`InSequence`): a flood takes the next
numbers of the node's own links, which nothing under way has yet, and `Accept` passes on
only what is newer than all it has passed on of that link and end (`SequenceConcat`,
`SequenceAppend`). The last thing it said of a link it is not connected by is that the link
is gone (`LastWords`): `DropSilent` says so in the same turn, in which it is the one exception.
And its table is the one it would compute now (`Current`), which says more than that it is the
best. The other nodes are not disturbed by a turn because it writes on the node's own
hops only (`Alone`). `ForgettingIsMissing` then needs no induction: if the node had heard
the other end's last word and neither is connected, the newest packet of either end says
that the link is gone, so `MatrixExplained` leaves no cost to believe.

The module also proves `OnlyForgottenLinksMislead`, for the same networks and with the same
mishaps, and `RepairedIsConverged`: whatever has failed, and whatever the nodes then forgot,
once all links work again a settled network routes by the shortest paths.

**Argument.** `BeliefsAreTrue`: what a node believes of the links of a node in its reach is
so. Of a link that is up, because the flood of its end would tell nothing new; of one that is
down, because its end would flood -1, or nobody has ever heard of it and its entry is 0. A
view that is right about all nodes a path can come to has the shortest paths of the network
(`OnlyReachMatters` in `DijkstraProofs`), and `LinksGoBothWays` says that paths lead only to
nodes in reach. When all links are up nothing is forgotten: the history tells that only
links are ever spoken of.

Last, the module proves `SteadyStays` (`SteadyNetworkStays`), for the same networks and with the
same mishaps; the property itself excepts false alarms, cost commands and link changes, and
a theorem about networks wider than the TTL says nothing of the nodes out of reach.

**Argument.** `Calm(n, s)` says that a turn of `n` that has come to `s` has changed nothing that
counts: if `n` hears anybody, its neighbours, matrix and table are as they were, and every
packet under way is `Idle`: it tells nobody it can come to anything new, `n` alone excepted
if `n` has sent it in this turn, and so has its number already. `TurnCalm`
takes `Calm` through the functions of a turn: nobody is new or silent; a flood tells what
`NothingNew` says is known in its reach (`FloodLSPCalm`). A packet that is fresh to `n` comes
to `n`, so `n` knows what it says, and the matrix, the costs and hence the table stay
(`AcceptCalm`; that the table is the one the code would compute anew is `Current` of
`TidyInv`); whoever the copies can come to, the packet could. This last step is about
`Within`, a recursive function: `WithinIs` shows that it exists and unfolds as it is written,
from paths of at most `k` links. `CalmStays` puts the turn back into the network: whoever
is in reach of a node that hears somebody hears somebody too (`NearHears`), so the nodes
that hear nobody, which may well change their tables, are told nothing.

## 5. Not modelled, and the plan

1. Restarts of a link-state router: its sequence numbers start at 1 again and the network
   ignores it until they have caught up.
2. A link that fails and comes back before anyone notices, and cost commands at both
   ends of a link at once, for the link-state router.
3. The RTT estimator (`reliable_sender.cpp:331-351`) with integer arithmetic: can
   `RTO` become negative?
4. Costs of zero for the distance-vector router, and a source file shorter than announced.

Not planned: networks wider than the TTL of 13 (the 8x8 grid of
`utility/make_grid_topo.py` is one; its opposite corners are 14 links apart), which are out
of TLC's reach; `manager_send.c`, whose two commands are inputs of the routers; log files,
scripts and the functions nothing calls; copies and reorderings of datagrams on one hop
of the routed network; corruption of datagrams (nothing in the code handles it).
