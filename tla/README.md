# Pessi Streamer in TLA+

Pessi Streamer carries video streams from servers to clients over an overlay of relay nodes, all of
it over UDP. These modules model the parts whose correctness depends on the order of events: the
reliable half of the transport; the packet handlers and checks of a node, each as one step and
again split where they await; the tasks of a client; a server and the way of its stream through a
line of relays; and the nodes and the server together, joined by a network that fails. TLC checks
them on small instances, and TLAPS proves the safety properties for every value of the constants.
`PROJECT.json` maps each definition to the lines it stands for and lists runs, mutants, hazards,
findings and theorems.

## 1. Inventory

| component | state | operations | interacts with |
|---|---|---|---|
| Reliable transport, `common/src/reliable.rs` | next id, `pending_packets` with retries and the waiter's channel, one task per pending packet | `send_reliable`, `send_ack`, `receive`, `handle_retransmission`, unreliable sends | everything above it; the network |
| Relay node, `node/src/node.rs`, `handle.rs`, `main.rs` | `neighbours`, `available_routes`, `interested`, `video_routes`, `pending_video_requests`, times of last pings and packets | handlers of RequestVideo, StopVideo, ClientPing, FloodPacket, NewNeighbour, VideoPacket; three checks; reactions to missing Acks | nodes, servers, clients by packets; its own tasks by the shared maps |
| Best route, `node.rs:113` | none | filter by status and offer, then delay, hops, load | reads the node's maps |
| Video relay, `handle.rs:192` | last sequence number and time of each stream | compare, note, pass on | parents and subscribers |
| Client, `client/src/client.rs` | `nodes`, `pending_pings`, `playing_videos` | Play, Stop, ping, ping answer, video packet, check for unresponsive nodes | nodes by packets; UI and player by shared maps and a channel |
| UI and player, `client/src/ui.rs`, `video.rs` | a child process and a channel of 1024 packets | the Play and Stop buttons, `launch`, `write` | the client's state |
| Server, `server/src/server.rs` | `videos` with subscribers and sequence numbers, `neighbours` | folder watch, one task per stream, RequestVideo, StopVideo, NewNeighbour, periodic floods | nodes by packets; ffmpeg |
| Bootstrapper, `bootstrapper/src/` | one read-only map | one answer per TCP connection | nodes and servers as they start |

What is hard here:

* **Concurrency.** Each process runs several tokio tasks on shared `DashMap`s. A handler reads a
  map, awaits a send, and writes what it decided before the await. Guards are held across awaits.
* **Delivery.** Reliable packets arrive at least once, in any order, and are acknowledged before
  they are handled; ids restart with the process. Video packets and a server's floods are
  unreliable.
* **Failure.** Processes start again with empty maps and the same address. Peers and clients fall
  silent, and a node finds out from missing floods, missing pings or missing Acks. Sends may fail.
* **Recovery.** Redirections, queued requests, pings that list what is played, and requests that
  are repeated have to put a stream back together, in any order.

What makes each component correct:

* Transport: an outcome told to a sender is true and final; every send has one; a restart breaks
  only what the missing state makes it break.
* Node: a subscriber always has a route or a place in the queue; a dead route is never kept without
  a place in the queue, or somebody is about to see to it, however the tasks interleave; the queue
  holds only what nobody offers; nobody loses a stream because somebody else left it; a stream is
  asked for that nobody watches in two ways only.
* Client: a stopped video stays stopped; none is left with a dead node but by a choice that comes too
  late; a queued one is served once a node offers it; the source of a video was asked for it, and
  was told to stop since only if Play was pressed again; no task dies on another task's step.
* Video relay: what relays drop is bounded by what the network did to the stream; old packets are
  not passed on.
* Server: a subscription that an entry's replacement, a restart or a late stop took away is made
  again.
* Overlay: until a fault takes something away each route is known at both ends; a stream comes back
  after losses, restarts, deaths and late pings, unless a node on its way has stopped or never asks
  again; when the server dies no node goes on believing in another; requests reach a server, not a
  circle of nodes.

## 2. Modules

### AtLeastOnce and ReliableUdp

`AtLeastOnce` is what the transport promises, with no network, timer or retry in it. `ReliableUdp`
is the code, step by step:

* A packet is its sender, the life of the sender's process, its id and its destination. Lives are
  history variables: neither the code nor a datagram has such a number, and that is what allows a
  late Ack of one life to be taken for another's.
* `SendReliable` ends at the await of `send_to`, and `RegisterPending` makes the entry and spawns
  the task, so an Ack may come in between.
* The retransmission task is `Retransmit`, `RetransmitFails`, `GiveUp`, `Expire`, `TaskEnds`. It
  holds the entry's guard across `send_to`, so a retransmission is one step, and drops it before it
  removes the entry, so giving up is two.
* `net` is a set that nothing leaves: a datagram may be received never, late, or many times.
* `holding` is the packet a receive loop has acknowledged and not yet handled. There is one loop
  per socket.
* `Restart` loses the socket's state. The network keeps its datagrams.

Left out: serialization, which fails for no packet the programs build; the 500 ms between retries,
since a task may wake at any time; the unreliable sends, which keep no state.

`ReliableUdp` implements `AtLeastOnce` under the mapping that takes the stages `sent` and `pending`
for `open`.

### Node

One action per handler and per background check, each from its first line to its return, with what
it hands to the socket in `sent`. The variables are the maps of `State`. The environment is open:
any peer, node or client may send any packet of its kind at any time. That includes loss,
duplication and reordering below, and peers that behave badly.

* Vectors used as sets are sets; delays and hops are left out, so `BestNodes` allows any active
  route that offers the video. Sequence numbers are left out, so a video packet may be dropped.
* Time is left out: a peer, client or stream may be found silent at any time.
* Any request upstream may fail to be sent, in any handler. The history variable `unsent` has the
  videos whose last request failed. A handler that stops there with `?` is an action of its own
  (`ClientPingFails`). A failed send in the video check ends the process and is a `Restart`.
* A node's address is the one it was started with. With the default, 0.0.0.0, the comparison at
  node.rs:300 never holds, and a node may then contact itself as a parent of a dead peer.
* `handle_unresponsive_node` is one step, so that a video whose route it takes (handle.rs:97) and
  then sets again for nobody (node.rs:269-273) goes from one peer to the other. `StreamsAreAskedFor`
  speaks of every change of a route, and names that case (`AskedAgainForNobody`).
* `handle_client_ping` waits for a lock that it holds itself when a ping leaves out a subscription.
  `locked` is what stays locked then. The packet task does nothing more (`Receiving`); the
  background tasks run on, and stop where they need a locked entry for writing
  (`UnresponsiveHangs`, `ClientCheckHangs`, `halted`). Which videos share a shard of the map is any
  choice.

What one action per handler hides, steps of two tasks between the awaits of a handler, is the
subject of NodeTasks.

### NodeTasks

The tasks of one node: the packet task, the two health checks, the check of the neighbours, and the
tasks of `handle_send_flood_packet_result` that wait for an Ack. What a task is at is one record,
`job[t]`: the stage, the address it serves, the videos its loop has yet to do, the request or stop
under way, and the videos kept for later. A step ends at an await, or where a lock is given up that
another task may want:

| code | steps |
|---|---|
| `handle_request_video` | `Subscribe`; `Choose`, which queues or begins a send; `Sent` sets the route. The entry of `interested` stays locked (`Locked`) |
| `handle_client_ping` | `ClientPing`; then `PingVideo` for each listed video, with the steps of a request |
| `handle_flood_packet`, `check_pending_videos` | `FloodPacket`; `ListPending`; `AskPending` for each; `ForgetPending` |
| `handle_stop_video`, in any task | `Stop`, which takes the subscriber out and counts the rest; `RemoveRoute` |
| neighbours' check, missing Ack | `Notice` and `Mark`, or `NotAcked`; then `handle_unresponsive_node`: `ListReceiving`, `ListSending`, the stops, `Redirect` and `Sent` for each video, `QueueRemaining` |
| health checks | `ClientSilent` and its stops; `VideoSilent` and `Sent` |

`overtaken` is history: the videos whose route was set to a peer that was dead by then, or that lost
their place in the queue while their route was dead, because a task wrote what it had read before
its await. Left out, since Node has them: failing sends, restarts, what becomes of video packets
and floods that are passed on, NewNeighbour, and the ping that stops the packet task. Each video
counts as received once, so that `VideoSilent` may happen to it. A retain of `handle_stop_video`
and its count are one step: a subscription that gets in between only saves the route.

### Client

The state and the tasks of one client. A step ends where a task awaits or gives up a lock:

| code | steps |
|---|---|
| Play (`ui_start_playing`) | `Play`: the click; `ChooseForPlay`: choose and ask; then `StartVideoProcess` or `LaunchFails` |
| Stop (`ui_stop_playing_id`) | `Stop`: the entry goes; then `SendStop` |
| packet task, ping answer | `HandlePingAnswer`; then for each queued video `ChooseForQueued`, `AssignQueued` |
| packet task, video packet | `ReceiveVideo` holds the entry; then `PlayerTakes` or `PlayerGone` |
| unresponsive check | `MarkUnresponsive`, `ListPlaying`; then for each video `ChooseForPlaying`, `AssignPlaying` |

`told` is history: for each node and video, whether the last packet about it was a request, a
request that could not be sent, or a stop. `presses` counts the presses of Play. Nodes are the
environment. A ping changes nothing in the client that is modelled, so that it is not a step here;
Overlay has the pings and what they do at the node. Ping numbers and round-trip times are left out:
an answer that matches no ping changes nothing that is modelled. `PlayerGone` merges the stop that
is sent and the removal of the entry.

### Server and Stream

`Server` is `server/src/server.rs`: the folder watch, one task per file from its start to ffmpeg's
end, the socket task, and the restart. The watch looks for a name in `videos`, and the entry is
made when ffmpeg runs: in between another pass may start the file again, or a second file may have
the same name, and the later entry then takes the place of the first with its subscribers and its
number. `VideoOf` gives the id of a file's name; different names are taken to have different ids.

`Stream` EXTENDS it by a line of `Hops` relays, of which the first asks the server for the stream.
A link is the sequence of the numbers on the way. `Relay` is `handle_video_packet`, with the
comparison as the code has it. Packets on a link are lost or overtaken; the first relay's requests
and stops (`mail`) arrive in any order and may arrive twice. Each such fault, and each failed send
of the server, counts against `MaxFaults`. `allowance` is history: how many drops the faults so far
explain, less the drops so far. A packet lost on link i may cost each relay from i on one more
packet, and one that is overtaken one more than that; a subscription that is made again while the
stream runs for somebody else costs one at each relay.

### Overlay

`Overlay` EXTENDS Node and takes the server from `Server` by INSTANCE; its nodes' actions are Node's
actions. What an action leaves in `sent` goes into `net`, and what a node handles comes out of it.

* The processes start with nothing: the server has no entry until its folder watch has started the
  file (`Watches`) and ffmpeg runs (`InsertVideo`).
* A fault is a reliable packet that is given up (`lost`) or handled twice (`repeated`), a request
  that cannot be sent (`unsent`), a live peer taken for dead (`alarm`), a restart of a node
  (`restart`) or of the server (`outage`), a second start of the file before its entry (`twice`,
  server.rs:229), a ping that comes too late (`late`), or a death for good (`death`). `Faults` is
  the set of sequences of faults that may happen. What follows from a fault is none: a packet to
  the dead that is given up, floods that stop.
* The client asks (`Plays`), then makes the entry (`MakesEntry`), and its pings list what had an
  entry when they were made. A ping is a reliable packet like the others: it may be lost, repeated,
  or come after a request that was sent later. If it then leaves out a subscription it stops the
  packet task of `Home` (handle.rs:36), which is the fault `late`; a behaviour without that fault
  loses such a ping (`IsLate`).
* A node whose packet task has stopped takes no packet and acknowledges none, and hears of no Ack
  (`Hearing`, `AckUnheard`); its checks run on.
* Time is left out, so whether a peer's floods have stopped is derived (`Floods`): from the server
  they come while both live; from another node while floods reach that node by a way that does not
  pass this one. One flood, and one ping, is under way at a time; a ping that would change nothing
  at the node is not sent.
* Video packets pass all relays in one step: `Fed` is the set of nodes that the stream reaches.
* `ServerIsBest` is assumed: a server that is itself a route is chosen, since its floods are not
  slower by 30 % than those that come through another node, and have fewer hops.
* The client plays one video at the node `Home` and does not stop it. `Home` does not die for good:
  the client's own change of node is Client's matter. Left out as well: an ffmpeg that ends, after
  which there is no stream to come back, and a ping whose own request upstream cannot be sent
  (`ClientPingFails`): it leaves what such a RequestVideo leaves, a subscriber without a route or a
  place until the next ping, and is a step of Node.

## 3. Runs

| run | instance | question |
|---|---|---|
| `ReliableUdpRestarts` | 1 sender, 2 receivers, 1 id per life, 2 lives, 2 retries, I/O errors, fair | types, what an outcome says, outcomes are final, refinement; does every send get an outcome? |
| `NodeFailover` | 1 node, 2 other peers, 1 client, 1 video, failing sends | subscribers have a source; dead routes are queued; the queue holds only what nobody offers; no watched video loses its route; for whom are streams asked for? |
| `NodePingRestores` | 1 node, 1 other peer, 2 clients, 1 video; **violated** | does a ping restore a subscription after a restart? |
| `NodePingEnds` | the same; **violated** | does a ping end one that it leaves out? |
| `NodeTasks` | 2 peers that flood, 1 client, 1 video, 2 tasks at a job at once, fair | which dead routes are left behind; are subscribers served, and queued videos asked of a live peer? |
| `NodeStaleRoute` | the same, only the client subscribes; **violated** | is a dead route moved once another peer floods? |
| `ClientTasks` | 2 nodes, 1 video, Play pressed twice, fair | no redirection starts a stopped video; which videos are left with a dead node; queued videos are served; was each source asked? |
| `ClientPanics` | 2 nodes, 1 video, 1 Play; **violated** | does the entry outlive the await before its `unwrap`? |
| `StreamLine` | 2 files of one name, 2 starts, 2 relays, 4 packets, 1 fault, fair | what relays drop; does a lost subscription come back? |
| `OldPackets` | 2 relays, 3 packets, 1 fault; **violated** | are old packets ignored? |
| `Overlay` | server - node - node - client, each fault alone and pairs of them, fair | undisturbed, is each route known at both ends? does the stream come back? is a dead server forgotten? |
| `OverlayCircle` | both nodes the server's neighbours, 1 false alarm, fair; **violated** | does a circle of requests break? |

What each violated run shows is in `PROJECT.json` under findings, with the sentence
of the repository it contradicts.

Bounds, and why they are enough:

* `MaxRetries` is 5 in the code and 2 here: the task does the same at each retry but the last.
* `MaxLife = 1` and `MaxSends = 1`: the id of the first life is used again in the second, by
  packets to the same destination and to the other one.
* `ParentLists` has the list a server sends (none) and one that names the node itself and another
  peer, which the code treats differently.
* One modelled node in an open environment of two peers is every situation of failover: the route
  dies while another offers the video, or none does. What one of two videos does to the other,
  where a list of them is cut short, is covered by the proofs, which are for any set of videos.
* NodeTasks: `MaxBusy = 2`. Each race listed as a hazard is between two tasks. Safety is proved
  for any number of them, of peers and of videos; liveness is checked for this one. `Steady` is a
  peer that goes on flooding and offers every video: without one a queued video waits for ever, and
  rightly.
* `MaxPlays = 2`: a second press before the first is done, and one after a Stop. Two nodes: one
  that dies and one to redirect to.
* StreamLine: two relays and four packets are what a loss takes to cost a packet at both; two starts
  replace an entry under a stream, or follow a restart; `MaxAsks = 2` is a stop that comes after the
  next request. With two faults it passes as well (2.3 million states), too slow to be kept.
* Overlay: two nodes have a redirection, a queued request, a parent of a dead peer to connect to,
  and each other's offers. A flood never comes back to a node with two of them, so that this branch
  (`WasHere`) is reached only in the proofs. Faults come once the client has asked, but for the
  second start. The pairs are a restart and a lost packet, in both orders, and a request that is not
  sent and a death. They leave out those after which the stream is lost for good: a death with a
  NewNeighbour that is given up, which cuts a node off (node.rs:189), and a death with a redirection
  that cannot be sent (node.rs:229 takes the video out of the queue all the same). The run has 89,057
  distinct states and takes three minutes.
* What `StreamRecovers` excepts is a state and not a kind of fault (`Hopeless`), and it has to last:
  the packet task of `Home` has stopped; `Home` knows of nobody who lives (`Alone`); a node on the
  way never asks again, because it has received no packet yet and its request is gone
  (`NeverAsksAgain`, node.rs:426). A restart of a node or of the server, with or without a packet
  lost, is otherwise recovered from. Circles (`OverlayCircle`) do not come about in this run, since
  the second node does not hear the server.
* CHECK_DEADLOCK is FALSE in `ReliableUdpRestarts`, `OldPackets`, `Overlay` and `OverlayCircle`,
  where the bounds can be used up or everything can have died, and in the client's runs, whose
  process ends with its packet task.

## 4. Fairness

* `ReliableUdp!FairSpec`: weak fairness of `RegisterPending` and `TaskStep` for each packet. tokio
  resumes a caller after `send_to` and runs a spawned task whose sleep is over. Nothing is assumed
  of the network, the receive loops or restarts. `EverySendResolves` has one exception: a `send_to`
  that fails in the retransmission task ends it without a word to its waiter (reliable.rs:204).
* `NodeTasks!FairSpec`: weak fairness of each task that has begun a job: tokio runs it and its sends
  end. Strong fairness of each client's ping and of the floods of `Steady`: they come again and
  again, and wait in the socket's buffer while the packet task is busy. Nobody else has to do
  anything. `SubscriberIsServed` needs the pings: `RemoveRoute` may take the route of somebody who
  has just subscribed, and the next ping asks again.
* `Client!FairSpec`: weak fairness of the packet task between its awaits and of the Play tasks,
  before the choice and after it. Strong fairness of the answers of a node that is connected, repeating
  the list it sent last: a node that is never marked answers again and again, or the check would
  mark it, and answers wait in the socket's buffer while the packet task is busy. A node may be
  silent for good once it is marked, and none is made to change what it offers. It is assumed
  that players go on reading: a paused one fills its channel and stops the packet task, which is a
  listed hazard. The premise of `QueuedIsServed` is a node that stays connected and keeps offering.

* `Stream!FairSpec`: the first relay asks again when it hears nothing, its request arrives in the
  end (it is retransmitted), and its packet task goes on. Nothing is assumed of ffmpeg, of the watch
  or of restarts.
* `Overlay!Fairness`: weak fairness of the arrival of requests, floods and new neighbours at each
  live peer and of pings at `Home`, each kind for itself, since a peer takes what comes to it in any
  order; of the giving up of a packet that nobody can take; and of the periodic tasks: floods, the
  folder watch and ffmpeg's start, the client's entry and its pings, the video check, the check for
  silent peers, and the Acks of new neighbours. Faults are never forced.

## 5. Proofs

`ReliableUdpProofs`, `NodeProofs`, `NodeTasksProofs`, `ClientProofs`, `StreamProofs`,
`StreamLedger`, `StreamLossProofs` and `OverlayProofs`, each from the ASSUMEs of the module it
extends, for any sets of sockets, peers, nodes, clients, files and videos and any bounds.

**Transport.** `AckedMeansTaken` is not inductive: it needs to be known where an Ack comes from. The
inductive invariant `IInv` adds: ids not yet given out name unsent packets (`UnusedIds`); only
packets of the current life are open (`OpenIsCurrent`); within one life an id is one packet
(`OnePacketPerId`), which is what lets an Ack, which carries the id alone, find the right packet;
the network holds data only of sent packets and Acks only of taken ones (`NetIsHonest`); what is
held or handled was taken, and was sent (`TakenWasSent`); a taken packet is handled or in hand
until its destination restarts (`TakenIsInHand`); the task expires with its retries used up
(`ExpiringHasTried`). From it follow the four invariants of the run, `OutcomesAreFinal`, and
`Refinement`: every step is a step of `AtLeastOnce` or a stutter.

The claim about restarts is as weak as the code makes it. In a sender's first life Acknowledged
means that this packet was taken; later, only that some packet with its id, of this life or an
earlier one, was. A delayed Ack of an earlier process confirms a packet that nobody has received.

**Node.** The three invariants are proved together, as `NInv`. `QueueIsNeeded` holds whatever sends
fail: a flood that offers a queued video empties its place, and a redirection queues only what
nobody offers. `SubscribersAreServed` and `DeadRoutesWait` except the videos in `unsent`: after a
failed send a subscriber may have neither route nor place. The second assumes also that the packet
task runs, since `UnresponsiveHangs` leaves a dead route behind. `WatchedKeepsItsRoute` and
`StreamsStartAskedFor` are action properties: routes are removed only together with the last
subscriber. One is set, or changed to another peer, only for a subscriber or a queued request, or
by `handle_unresponsive_node` for a video whose route was the dead peer and that nobody else
watches: it lists the videos before it stops the peer's own subscriptions (node.rs:238-247).

**NodeTasks.** `DeadRoutesAreHandled` is inductive together with the types (`Types`, which says also
what each stage of a job needs: `JobOK`). A peer is marked dead in the step in which its checker
takes it over, so its routes are in that checker's hands; each later step of the checker keeps them
(`LoopHandles`, `CheckerKeeps`, `StoppingKeeps`) until they are moved or queued; and every other
write of a route, or to the queue, either leaves the dead routes alone (`OthersKeep`) or is one
that `overtaken` records (`SentKeeps`, `PacketKeeps`). So the late writes are all that can leave a
route with a dead peer, and `NodeStaleRoute` shows that they do.

**Client.** `TypeCorrect`, and `StoppedStaysStopped`: no task but the one that Play spawned
makes an entry. `LateChoicesAreTheOnlyOnesLeft`: a video comes to be played from a node found dead,
with nobody left to move it, only when Play or an answer stores a choice that it made before. It
needs `CheckInv`: the check for unresponsive nodes does one thing at a time, and the node it has
chosen stays connected until it is stored, since no other task marks a node. So the check may give
a video back only to nodes that it has yet to look at. `SourcesAreAsked` needs two invariants: a
choice that a task holds was asked for (`AskInv`), and while Play was pressed once at most there is
one entry or one task with it, and no stop (`PlayInv`). So a stop reaches a source only behind a
second press.

**Stream and Server.** `TypeCorrect` needs that no number is higher than the packets sent so far
(`NumbersAreCounted`): a replaced entry starts from 0 again.

`LossBounded` is about what is on all the links at once, and its invariant is a ledger
(`StreamLedger`). Packets have ids in the order of sending; `due[j]` are those that relay j has yet
to see; `debts` are the drops that the network has made possible: `<<e, j>>` lets relay j drop
packet e, and `<<e, 0>>` marks a stray, one that has overtaken another or was overtaken. A packet
without a debt fits: its number is at most one more than that of the packet before it, which is
what `Relay` asks for to pass it on. The code keeps no such books, so the invariant says that some
ledger is right (`SomeLedger`), with no more debts than `allowance`. `StreamLossProofs` shows for
each step how the books change: a drop takes a debt away, a lost packet makes the next one a debt
at each relay behind the loss, an exchange makes a stray as well, and a subscription that is made
again, or a send that fails, makes the packet to come a debt at each relay. Since a relay drops only
what it has a debt for, and a debt is in the allowance, the allowance never falls below 0.
TLC checked the ledger first, with the books as ghost variables. It holds for any number of relays,
packets and faults, for whatever numbers the server's restarts and replaced entries give.

**Overlay.** `OInv`: the types; a node's own address is never among its neighbours, routes or those
it connects to (`OwnOK`); what is in the network comes from and goes to somebody else, and is typed
as Node's handlers take it (`NetOK`). From it `OverlayImplementsNode`: each step is a step of Node
or leaves the nodes alone. `OverlaySubscribersAreServed` follows from it by Node's theorems, with
no proof of its own: Node's environment is open enough to be the overlay.

`OverlayRoutesAreSubscribed` relates the maps of two processes, which no invariant of one node can.
`Linked`, that each route is subscribed at its end or has its request in the network, is lost by
one stop that crosses a request, so it has to be shown that nobody sends one: here a node stops a
video upstream only after it has taken its last subscriber for dead, or was itself sent a stop, and
it leaves a route only for one that it has taken for dead. Hence
`Smooth`, which holds while the overlay is undisturbed (`SInv`): nobody has crashed, no packet task
has stopped (`NobodyStuck`), each peer that
a node has as active still reaches it with floods (`ActiveReaches`, from what the floods under way
and the lists of neighbours say: `FloodsReach`), so nobody is found dead (`NobodySeemsDead`) and no
stop is sent (`NoStops`); the server's one task for the video is the one that makes the entry
(`StartedOnce`), and nobody is subscribed, or knows of the video, before it does (`UnknownAtFirst`),
so that the insert takes no subscription away. Then each action that sets a
route posts the request with it, and each request that is handled subscribes its sender. Repeated
packets and requests that cannot be sent are allowed for.

Every safety property of a passing run is a theorem. Only model-checked is what needs fairness and
ENABLED, which are beyond the provers: `EverySendResolves`, `SubscriberIsServed`, `QueuedIsAsked`,
`QueuedIsServed`, `StreamComesBack`, `StreamRecovers` and `DeathIsNoticed`. The
violated properties are counterexamples of TLC.

## 6. Not modelled

* Bootstrapper and neighbour fetch: a read-only map and an exchange repeated until it succeeds,
  before there is any state. Its answers are the constants `Neighbours` and `Known`.
* ffmpeg, codec detection, the players' command lines, drawing: child processes and I/O. That
  ffmpeg starts late, fails or ends, and that a player is paused or gone, is modelled.
* Times: every timeout may pass at any moment, or, in Overlay, when its cause is there. Properties
  about how long something takes are out of reach.
* The order among the routes that offer a video, by delay, hops and load: any of them may be the
  best (Overlay: the server, if it is one). It matters to how good a route is, not to whether there
  is one.
* What goes on costing without an effect on the state: dead leaves and dead nodes that are still
  sent a stream (handle.rs:177, server.rs:184), neighbours that are listed twice (node.rs:180), pings
  that are never answered (client.rs:389).

## 7. What is left to do

1. The best-route algorithms (`get_best_node_to_redirect`, `select_best_node`) as operators over
   windows of delays, checked against the four criteria of their comments, and as an implementation
   of `BestNodes`.
2. Overlay with three nodes, where floods come back and circles are longer; this needs a coarser
   network to stay within TLC's reach.
3. NodeTasks with failing sends and restarts; a proof that its tasks, run one at a time, are Node's
   actions.
4. What of `RoutesAreSubscribed` is left after a death, where stops cross requests: the next video
   check makes up for it, so far by TLC alone (`StreamRecovers`).
