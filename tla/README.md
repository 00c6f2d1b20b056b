# TLA+ models of AsynchronousDatabase

AsynchronousDatabase is a replicated key-value store. Nodes find each other
through etcd, place 256 partitions by rendezvous hashing with one copy per
availability zone, elect a leader per partition by creating a key in etcd, and
keep their records in RocksDB. The modules here model the part of it that
decides which write wins, whether a write that was acknowledged is kept, whether
a record survives being moved from node to node, what a read may say is not
there, and how a process asks others and stops.

Contents: [the system](#the-system), [the modules](#the-modules),
[the runs](#the-runs), [what is proved](#what-is-proved),
[where code and documents differ](#where-code-and-documents-differ),
[what is not modelled](#what-is-not-modelled), [the plan](#the-plan).

## The system

| component | state | operations | talks to |
| --- | --- | --- | --- |
| placement (`cluster/partition`) | none | owner, owners, leader, zones, holders | everything below |
| membership and leadership (`cluster/etcd_cluster`) | lease, member list, leader list, newest term per partition, claims to give up, what it vouches for | a pass per tick (`refresh`), `leader`, `accept`, `restore_terms`, `vouch` | etcd; called by request threads and by the reconciling thread |
| etcd client (`etcd/`) | the endpoint that last answered | lease, put, create, remove, range, watch; each walks the endpoints until one answers | etcd over HTTP |
| router (`router/`) | whether it drains | `route_record`, `lead_write`, `apply_write`, `read_here`, `read_record`, `scan_records`, `route_file` | leadership, store, forwarder |
| store (`repository/`) | records, terms, counts, schema on disk; terms, a block of counts and locks in memory | `write_record`, `import_records`, `clear_records`, `next_count`, tables, scans, exports | RocksDB |
| version (`record/`) | none | `is_newer` | store, write path |
| schema (`table/`) | tables and tombstones, with versions | create, drop, merge | store, router |
| rebuild (`rebuild/`) | none | fills an empty store before the node registers | store, transfer, membership |
| reconcile (`reconcile/`, the loop of `server/`) | the membership last acted on, passes left | fetch from holders, vouch, hand over, clear down | store, transfer, membership |
| transfer and relay (`transfer/`) | a bounded relay | export, import, stream | store, forwarder |
| scan (`scan/`) | none; the cursor is the client's | a page of one partition, answered by one copy | store, router |
| server, sessions (`server/`, `main`) | connections, the acceptor, the drain timer, the reconciling thread | serve, accept, read, answer, drain, close | all of the above |
| HTTP client and pool (`http/`) | idle connections | an exchange, and once more on a reused connection that broke; a stream and its stop | other nodes, etcd |

What makes this hard is listed line by line under `hazards` in `PROJECT.json`.
In short:

* **Two threads and etcd.** The membership thread and the request threads both
  read and create claims. What etcd answers about an existing claim is the name
  of its holder and not its term, so the term is put together from two pieces
  of state read at different times.
* **Deposed leaders.** A node that lost its lease goes on leading until its next
  pass. What stops it is a fence at each copy, kept in memory and restored from
  the store.
* **Calls to the store run side by side.** `write_record`, `import_records` and
  `clear_records` hold the same lock shared. Only `write_record` locks the
  stripe of its key.
* **Crashes** between the record and its term, between a reserved block of
  counts and its use, and between accepting a write and writing it.
* **Deliveries** that are late, lost or repeated.
* **A membership that moves under a pass.** The reconciling thread reads it
  five times in a pass and the membership thread replaces it at any time; no
  two nodes need have read the same one.
* **Copies that are short.** A node that lost its disk serves while it is being
  filled, and must not answer for what it was not given yet.
* **Connections** that are used again after an exchange was given up, or closed
  at the other end a moment before.
* **Stopping** anywhere between starting up and serving, more than once, while
  connections are accepted, read and answered on other threads.

Each component is correct when: the placement is one function all nodes agree
on, and moves only what it must; a term is ordered in by one node; a copy never
goes back to an older version, nor forgets the term it refused things by; a
count is not issued twice; an acknowledged write is on every copy and is later
than those acknowledged before it was asked for; a node says "not found" only
about what it has been filled with; a version that is given up stays in its zone;
a change of the membership is followed by a pass; a scan leaves nothing out and
repeats nothing; a call is given the answer to its own request; a process that is
told to stop ends, and cuts off no answer.

## The modules

```
Leadership         what leadership promises: implemented by EtcdCluster and WritePath
Partition          placement, a function of the membership
  Membership       registrations coming and going         -- PartitionProofs
  EtcdCluster      claims, terms, leader(), accept()      -- EtcdClusterProofs
  Vouching         a node's start, passes and what it vouches for -- VouchingProofs
  Handover         one record fetched and given up        -- HandoverProofs
Store              records and terms of one node          -- StoreProofs
Counts             counts in reserved blocks              -- StoreProofs
WritePath          a write from its leader to its copies  -- WritePathProofs
Schema             a table created, deleted and merged at every node -- StoreProofs
Transfer           a share read in pieces and taken in    -- VouchingProofs
Reads              reads, scans and files of a partition, copies dying and filled
                                                          -- AnswersProofs
Exchange           requests, connections and the pool; a stream and its stop
                                                          -- ExchangeProofs
Server             the life of a process, its connections and its end -- AnswersProofs
MC*                constants for TLC
```

**Leadership** is abstract: terms issued one after another, each to one node; the
fence of each node; the newest term in its store; who has ordered in which term.
`EtcdCluster` and `WritePath` instantiate it as `Promise`, with their own `claims`,
`terms`, `stored` and `ordered` in its place, and `PromiseKept` says that each
implements it.

**Partition** has no variables. A membership is a function from nodes to zones.
`OwnerOf` is what `owner_of` finds and `OwnerLoop` is how it looks for it, one
pass over a listing, written as a recursive function of the position. The scores are a constant of the module, so a property of
the placement that holds for every `Score` holds whatever the hash is. Nodes are
naturals because `owner_of` breaks a tie by name.

**Membership** adds the registrations. `RegisterNode` is `register_node`'s
put, `UnregisterNode` is the end of a lease, in `leave` or by itself.

**EtcdCluster** follows one partition at every node. Each node's variables are
the members of `etcd_cluster`: `leased` (`lease`), `members` (`member_list`),
`answered`, `leader` (`leader_list`), `terms`, `releasing`; `pass` says where
its membership thread is inside `refresh` and `call` where each request thread
is inside `leader`. A call that changes etcd is two steps, what etcd does and
what the node makes of the answer, and so is a read whose answer is used later.
The calls of `refresh` before `read_leaders` write only the node's own
registration and are one step. `claims` is the history of created claims, so
that term *t* is the *t*-th claim of this partition: revisions also count other
keys, which spreads the terms out and changes nothing about their order.
`stored` is the term the node's store remembers, and `ordered` the history of
which node stamped writes in which term. A behaviour is in one of `Worlds`, chosen
in `Init` and kept in `world`: which faults it may meet, which nodes stay
registered and do nothing else, and how many claims it may create. One without
the last three faults and `lost` is orderly, and most properties are about
those:

| fault | what it allows |
| --- | --- |
| `silent` | a call is not answered and did nothing |
| `lost` | a transaction was applied and its answer lost, or it was repeated at the next endpoint |
| `reboot` | a process ends and starts again once its claim has gone |
| `restart` | the same at any time, inside its lease too |
| `slow` | a claim goes while an answer that read it is on its way to the node |
| `race` | a thread reads the claim while another of the node waits to hear that it created it |

**Store** follows the records of one table in one partition of one node, and
the partition's term. Every read, write and lock of `write_record`,
`import_records` and `clear_records` is a step of its own. A record is its
version. `Crash` is the end of the process, and `Fail` the database refusing a
write, or a read whose failure the code looks at: `records` and `remembered` are
what survives. A refused read that the code takes for a missing key is modelled as
that: `Found` for the keys an import or a clear looks up, `CrashUnread` for
`load_terms`. `lost` is history, the newest term a start failed to read. A file hands in at
most one version of each key; keys that share a stripe count as one key.
`WriteRaise` reads the term a second time under `term_mutex`, which the model
leaves to the next step: only a thread holding that mutex changes it.

**Counts** is `next_count` and `reserve_counts`: the number on disk, the block in
memory, and the process ending between them. `ReserveUnread` is a reservation that
cannot read the number and begins from nothing; `forgotten` is history, the end of
the last block it so forgot.

**WritePath** is the composition: leadership and the store enter by what the
modules above say of them, and the routing of a write is modelled in full. A
claim opens a term (`Claim`), the thread that made it raises its node's fence when it hears so
(`Raise`), and a node leads in a claim of its own (`Lead`) from when any of its threads
hears of it, which for a second thread may be before that; a store
keeps the newest version it was handed (`KeepsLater`) and restores the fence its
records need (`TermRemembered`), as `Store` says where no read of a term is
refused. `own` is what a process created since it started. `early` is history: what
was acknowledged in a term its own node's fence had yet to reach. A carried write is a `leg` per copy: `sent`,
`accepted` once the fence let it by, `done` once it is in the store. It may be
taken again after it is done, arrive when nobody waits for it any more, or never
arrive. The copies are a constant: the placement does not change under a write.

**Vouching** follows one node. The members of `etcd_cluster` are `members`
(`member_list`), `generation`, `holding` and `since` (`held_since`), `filled`,
and `registrations`; `seen`, `registered` and `attempts` are the locals of the
loop in `server.cpp`, and `pass` says where the serving and then the reconciling
thread is and what it has read so far. The start is `Discover`, `ReturnToStore`
or `Rebuild`, `Start`; the loop is `NoteChange` and `StartPass`; a pass reads the
generation, the zones, the holdings and the holders in one step each, asks each
holder, and vouches. `ReadMembers` and `Register` are the membership thread, at
any point between. A share is asked for in all tables at once and is read whole
or not. `kept` and `brought` are history: what was held without a break since
the pass began, and what the store had when the node joined. The stop token,
which ends the process, and a node without etcd, which runs no pass, are left
out.

**Handover** follows one record through the reconciling threads of all nodes.
`listed` is the membership each node goes by, which is any set with the node in
it: nothing is assumed about how old it is. `held` is the version in each store.
`Begin` to `Take` is the fetch of a pass; `Walk`, `Copies`, `AskOwner` and
`Clear` the clear down, with the membership read in `Walk` (`holdings()`) and
again in `Copies` (`copies_of()`). The constant `Torn` says whether it may
change between those two. A call of the store is one step; the races inside one
are `Store`'s. A restart that loses the disk is left out.

**Schema** follows one table's name at every node: `entry` in memory (`tables`),
`saved` in the schema's record, `family` the column family. An operation is
`Order`ed, waits for `schema_lock` (`Locked`), looks (`Look`), acts (`Act`), is
carried, and is answered; at the other nodes it is `Accept`ed, waits for the lock
there, looks and acts. A pass reads a schema (`ReadSchema`) and merges it
(`MergeSchema`) without that lock. A call of the store is one step, because it
holds `handle_mutex` throughout, and ends as the database lets it (`StoreThrows`,
`Merge`): a crash in the middle of one is a refusal followed by `Restart`.
`Faults` chooses what may go wrong and `Requests` what is asked for. Leadership is
`WritePath`'s, and counts are taken to rise, as `Counts` says where no reservation
is refused its read. A carried operation is delivered at most once: a second delivery of
one is left out, as are names that depend on each other.

**Transfer** is one walk: the thread that asks (`Ask` to `Join`), one thread per
piece that takes (`Take`, `TakeNone`, `TakeIn`), a relay between them, and the
condition variables as threads that are `asleep` until they are notified. The
source answers with a file, with one that makes no progress, or not at all; the
store takes a file or refuses it.

**Reads** follows one client and one partition: a read of a key, a scan of a
range, or a walk of what one node holds. Around it the copies are written (`Write`,
at all or only some of them), die with or without their disks (`Die`), start again
on what they kept (`Return`), are rebuilt whole or in part (`Rebuild`), start with
nothing (`StartEmpty`), and are filled by a pass (`Fill`). `short` are the copies
that do not vouch for the partition, `tables` the nodes that have the table.
A read is `Get`, and then `Look` and `Miss` at each copy it is forwarded to, since
`read_here` looks the key up before it asks whether the node vouches for it; a page
is `Scan` or `Forward` with `Page`; a file is `AskFile`. A key is a number, and the
key followed by a zero byte, where a page resumes, the next number; `Listing` is a
set of them in the order an iterator comes to them, said by what it is and not by how
it is sorted, so that it can be proved about. `acked`,
`sure`, `thin` and `tainted` are history: what is on record as written, what of it
was there throughout, nodes that vouch for what they were never given, and whether
one of these answered. The membership stands.

**Exchange** follows calls that share a pool. A call is the forwarder's, to one
node, or the etcd client's, which walks the members (`kind`); it takes a
connection (`Attempt`) or makes one (`Connect`), writes, reads, fails or not, and
keeps the connection (`Keep`). `link`, `reused` and `got` are `exchange`'s locals,
`idle` the pool, `current` the member of etcd that answered last. A connection has
what is on its way there (`wire`), what came back (`back`) and what the process at
the other end is doing (`side`); that process answers, keeps the connection or
not, closes and dies as it likes. A deadline may pass at any step. `Staying` is
what is left of the pool when some of it is dropped or taken, written by the position of each so that it can be
proved about; `MCExchange` has TLC compare it with `SelectSeq` on every small pool.
`moved` is history: walks under which another call moved `current`. The stream has
a connection of its own: `Stream` to `CloseStream`.

**Server** follows a process from `Init`, with its port bound, to `exited`. `phase`
is where `main` is, `call` where each signal's `drain()` and `close()` is, `session`
where each connection is, with `told` the connections a `stop()` was dispatched to
and has not reached. Each handler of the acceptor's strand and of a connection's
own is a step; `Hold` and `Run` are two, because a connection's own strand may run
between them. `Run` stands where the read begins: `run()` sets `waiting` a moment before
(`session.cpp:252-254`), and a `stop()` in that moment has nothing to cancel, as one before it
has not, so both are `early`. `close()` is on a thread it does not join.

## The runs

| run | module, cfg | bounds | result |
| --- | --- | --- | --- |
| `membership` | MCMembership | 4 nodes, 3 zones, all 81 scorings of a partition by the scores 0..2 | `LeaderHoldsCopy`, `LoopFindsOwner`, `OnlyItsShareMoves`, `PreviousHolderIsAsked` |
| `leadership` | MCEtcdCluster | three worlds: nodes 2 and 3 trade the claim, with `reboot` and 2 claims; node 3 alone with `silent` and `reboot` and 3; node 3 alone with every fault and 3; one request thread | `FenceCovers`, `NoFenceAboveClaims`, `PromiseKept` |
| `term_race` | MCEtcdCluster, MCRace | nodes 2 and 3, 3 claims, fault `race` | `OneNodePerTerm` is violated |
| `store` | MCStore | 2 threads, 2 keys, 3 versions of 2 terms, all operations, any read refused; 6 blocks of 4 counts | `TermRemembered`, `TermNeverFalls`, `CountsRise` |
| `write_path` | MCWritePath | 3 nodes, 2 copies, 2 writes, 2 terms, 2 counts a node | `AckedOnEveryCopy`, `RealTimeOrder`, `PromiseKept` |
| `claim_beside` | MCWritePath, MCBeside | the same | `AnsweredInOrder` is violated |
| `reconcile` | MCReconcile | a walk of 2 pieces, 3 files each; 2 nodes, 2 zones, 2 partitions, 4 memberships, 1 registration, 2 attempts | `WholeIsTaken`, `WalkEnds`; `VouchedHeldThroughout`, `ChangeIsTried` |
| `handover` | MCHandover | 3 nodes of a zone, 2 versions, `Torn` | `ZoneKeepsNewest` |
| `schema` | MCSchema | 2 nodes, a create beside a delete or a create that disagrees, 2 terms, every fault but `unread` | `StampNamesOneEntry` |
| `scan` | MCReads | 2 copies and a node without, 3 keys, 2 deaths; a read, 3 scans, 3 ways of cutting a walk | `NotFoundIsTrue`, `ScanIsExact`, `PiecesCover` |
| `exchange` | MCExchange | 2 calls of any kind, 2 processes to ask, 4 connections, a pool of 1 | `OwnAnswer`, `PoolIsSpare`, `AsksEveryMember`, `StopIsHeard` |
| `shutdown` | MCServer | 2 connections, 2 signals, with a drain and without | `OnlyWaitersAreCut`, `StoreOutlivesUsers`, `ServingEnds` |

Why the bounds are enough. Placement properties compare two nodes of a zone
across one change, and four nodes leave a third of the zone and another zone
beside them. A term is misused when a node leads in a term another node made:
two claims are one hand-over, and three are a hand-over and a return, which every
counterexample found uses or fits in. A store's race needs two calls. A count is repeated across the end of a process,
and six blocks are as many of these, at each place within a block.
`write_path` needs a deposed leader, its successor and a copy outside both, and
a write of each, in two terms; what a third would add, the first leader coming back,
the theorems cover. A registration and no registration are what the loop compares. A partition that
is wrongly vouched for is lost and handed back under a pass, which is three
memberships, with the one the node starts on four; one partition moves and one
stays. A copy that is wrongly given up needs the node, the one that it asks, and
a third for that one to have given its own up to; `handover` has one
zone, where walks may be torn and it still holds; in a second zone a node is
asked only by a torn walk, and then it fails.
An operation on a table meets another operation, a merge of what it left behind,
or its own delivery at another node, which two nodes have all of. Three files
fill a relay, the hands of its taker and the way in; two pieces let one fail
while the other goes on. A read goes wrong by what one copy lost and another has,
with a third node that asks; two deaths are a copy lost while another is being
filled, and three keys let a page end between two. Two calls are one that leaves
a connection behind and one that takes it up, and four connections a second try
for each. A signal that finds another at work is two, a connection that is told
beside one that is not is two.

The runs of `EtcdCluster`, `WritePath`, `Exchange` and `Reads` switch
TLC's deadlock check off because of their bounds: with every claim, write
or connection used up, or the client answered, there is nothing left
to do. The other runs keep it on, `reconcile` for the walk: a node whose membership
stands runs no pass.
Parts that share no state are explored apart: in `exchange` the stream and the calls,
in `store` the records and the counts, and in `reconcile` the walk and the node,
one after the other. `exchange` takes its calls to be interchangeable, `store` its
threads, `schema` its nodes and `write_path` its writes and its copies, which they are. The fault
`unread` of `Schema`, a start that cannot read its schema, is left out of the run
for its size, and the theorems cover it.

Three runs state liveness. In `Vouching`, `FairSpec` asks weak fairness of the
reconciling thread (`Loop`) and of nothing else: the thread waits for a tick that
always comes, every request it makes has a timeout and each half of a pass has
its patience. Nothing is asked of the membership, of etcd or of the other nodes,
so `ChangeIsTried` promises that a pass begins and not that one succeeds; and it is
let off only by a membership, or a registration, that is another one, not by the
same one read again, which happens every tick. In
`Transfer`, `FairWalk` asks it of the thread that asks and of each that takes, which wait
for nothing else than each other. `ReconcileSpec` is the two together. In `Server`
`FairSpec` asks it of `main`, of the
reconciling thread, of each call of `close()` and of the handlers of each strand:
threads of the `io_context` run what is queued, timers fire, and a read or a write
ends after sixty seconds at the latest. Nothing is asked of the clients, nor of
whoever sends signals. It takes a request to be answered or given up by its
handler, and `nodes.stop()` to return, which it does not always (below).

## What is proved

| theorem | module | property |
| --- | --- | --- |
| `RegistryTypeCorrect`, `LeaderIsAnOwner`, `LoopIsOwner`, `OnlyOwnShareMoves`, `PreviousHolderAsked` | PartitionProofs | that the registry is a membership (`RegistryTypeOK`, which no run checks), and the properties of `membership` |
| `EtcdClusterTypeCorrect`, `NoFenceIsAboveTheClaims` | EtcdClusterProofs | `TypeOK`, `NoFenceAboveClaims`, in every world |
| `FencesCover`, `OrderlyTermsHaveOneNode`, `ClaimsKeepThePromise` | EtcdClusterProofs | `FenceCovers`, `OneNodePerTerm` in orderly worlds, `PromiseKept` |
| `StoreTypeCorrect`, `RecordsAreFenced`, `TermsOnlyRise`, `WritesKeepLater` | StoreProofs | `TypeOK`, `TermRemembered`, `TermNeverFalls`, `KeepsLater` |
| `CountsTypeCorrect`, `CountsNeverRepeat` | StoreProofs | `CountsTypeOK`, which no run checks, and `CountsRise` |
| `SchemaTypeCorrect`, `StampsNameOneEntry` | StoreProofs | `SchemaTypeOK`, `StampNamesOneEntry` |
| `WritePathTypeCorrect`, `AckedWritesAreKept`, `AnswersAreInOrder`, `WritesKeepThePromise` | WritePathProofs | `TypeOK`, `AckedOnEveryCopy`, `RealTimeOrder`, `PromiseKept` |
| `VouchingTypeCorrect`, `VouchesForKept` | VouchingProofs | `TypeOK`, `VouchedHeldThroughout` |
| `WalkTypeCorrect`, `WholeWalksAreTaken` | VouchingProofs | `WalkTypeOK`, `WholeIsTaken` |
| `HandoverTypeCorrect`, `ZoneNeverLosesNewest` | HandoverProofs | `TypeOK`, `ZoneKeepsNewest` |
| `ServerTypeCorrect`, `StoreIsLast`, `ShutdownCutsWaiters` | AnswersProofs | `TypeOK`, `StoreOutlivesUsers`, `OnlyWaitersAreCut` |
| `ReadsTypeCorrect`, `MissesAreTrue`, `ScansAreExact`, `WalksCover` | AnswersProofs | `ReadsTypeOK`, `NotFoundIsTrue`, `ScanIsExact`, `PiecesCover` |
| `ExchangeTypeCorrect`, `CallsGetTheirOwnAnswer`, `PoolHoldsTheSpare`, `WalksAskEveryMember`, `StopsAreHeard` | ExchangeProofs | `TypeOK`, `OwnAnswer`, `PoolIsSpare`, `AsksEveryMember`, `StopIsHeard` |

They hold for every value of the constants that satisfies the module's `ASSUME`:
any nodes, zones, scores, threads, keys, files, calls, connections and sizes of a
block of counts. Two say more of what they assume,
because the property is false without it (below): `WritesKeepLater` that only
`write_record` is called; `ZoneNeverLosesNewest` that no walk is torn or that there is
one zone (`WalksAtHome`). `FenceCovers`, `PromiseKept` of `EtcdCluster` and
`OrderlyTermsHaveOneNode` speak of orderly worlds, as the runs do.

Four properties say themselves where the code breaks what its comments promise, and
nothing more than that is let off. `TermRemembered`: a record above the term on disk
is within the terms a start failed to read. `TermNeverFalls`: but in such a start.
`CountsRise`: a count that does not rise is within a block a reservation failed to
read. `RealTimeOrder`: a write that is not the later one met no copy that refuses, of
those the other left refusing (`Refusing`), but the one of the node that orders it,
which that node writes without asking. With one copy there is no other, and with more
there is one unless the other write was acknowledged before its own node was fenced.
`FenceCovers` lets a fence be behind only by a claim of its node that has not been
heard of; what is then ordered behind it is `RealTimeOrder`'s exception. The theorems are
of `Spec`, which each `FairSpec` implies. Every invariant below was checked
by TLC, as an invariant of the component's run, before it was proved.

*Placement.* `Displaces` is a strict total order on the nodes of a partition
(`DisplacesOrder`), so a non-empty set of nodes has exactly one owner
(`OwnerExists`, `OwnerIsUnique`); existence goes through the largest score and
the least name of those that have it. `OwnerIsStable` says that taking nodes
away from a set leaves its owner if it stays, and everything else follows from
it: the leader is the owner of a larger set than its zone, a join is a leave
read backwards, and the asking node's zone without itself is the zone before it
joined. For the loop, the function that names the owner of the nodes listed so far
satisfies its recursion, since the owner of one node more is the new one or the old
one (`OneMore`): so there is such a function (`LoopExists`), and any other would
differ at a least position, where it steps from the same node (`LoopFindsBest`). The
registry is finite because nodes register one at a time, and a list of a finite set
that repeats none leaves none out (`ListsAll`).

*Leadership.* In every world a term in memory, on disk or on its way in a pass, a
call or an answer was once a claim's (`TermsSeen`), which gives
`NoFenceAboveClaims`. In orderly ones `OrderlyInv` adds what makes `term_of`
right though it reads the newest term seen and not the claim's own: the node that has
the claim, or that takes itself for the leader, created the claim of that term, and its fence is
there or the answer that raises it there is on its way. It is stated place by place, of the claim
(`ClaimOK`), of what a node believes (`NodeOK`), of its pass and of its calls
(`PassOK`, `CallOK`), and of what was ordered (`OrderedOK`). The refinement
follows: a step that creates a claim is the promise's `Issue`, one that raises a
fence or orders is its own, and the others change nothing that is mapped.

*Store.* `TermRemembered` is not inductive: a thread about to `put` without
raising the term relies on what `terms` was when it looked. `IInv` adds
`LockInv`, which says what a thread in each place holds, and `TermInv`: `terms`
is at most `remembered`, and equal to it unless a thread is between writing a
term and knowing it, with `term_mutex` held; a thread at `put` has a version in a
term no later than `terms`; an import past its terms carries nothing later than
`remembered`. `TermsOnlyRise` and, with `WriteInv`, `WritesKeepLater` follow from it.

*Counts.* What is in memory lies inside a block that is on disk, and the last
count handed out is never above the end of the last block, or of one that was
forgotten.

*Schema.* A term is one node's, whether it leads in it or ordered in it once
(`OneLeader`), and a count is one operation's of its node (`StampInv`), so a stamp
names one operation. Whatever is in memory, on disk or read and not yet merged is the
entry of an operation that was stamped (`EntriesInv`), and merging, refusing and
starting again only move such entries.

*Write path.* An acknowledged write was `done` at every other copy and written
to its leader's own. `IInv` carries this forward from the states before the
acknowledgement: a leg that is `done`, and a `sent` write at its own copy, is
held there or something later is, and `WriteRecordRises` keeps it so. For the order
of answers: counts rise within a term (`CountInv`); the fence of a copy that took an
acknowledged write, or of the node that ordered it fenced, is at its term, so a leader of an
older term that asks afterwards has no leg done there any more (`AfterAcked`, `NoOlderLeg`).

*Vouching.* `KeptInv` relates the generations to the history: no `since` is
above `generation`, and a partition that is held and was not held throughout the
pass was gained in a generation after the one the pass read. `vouch` leaves out
exactly those, so nothing about which memberships were read is needed.

*Transfer.* A file that was put is in the relay, in its taker's hands or in the
store, unless the store refused one (`FilesInv`). A piece whose answer is still to be
carried is one that was going when it was asked (`AskedInv`), so none is put after
its last; and a taker ends at a relay that is closed and empty (`RelayInv`), so at the
join nothing is on its way.

*Handover.* A node might give a copy up to one that is about to give its own up
to the first. `GiveInv` rules it out: whom a node asks displaces it, in its own
zone, whatever membership it went by; and once it has been answered with a
version, the node asked, or one of the zone that displaces that one in turn,
holds it or a later one. `Displaces` is a strict order that does not depend on
the membership (`DisplacesTransitive`, `DisplacesIrreflexive`), so the chain
never comes back to the node that asked.

*Server.* A connection that owes an answer is past its read, where a `stop()` does not
cut it (`OwedInv`). In a shutdown each connection that waits, or is about to, has
been told, or is noted by a `close()` that has yet to walk past it, or was told too
early (`TellInv`, with `ClosingInv`: the acceptor is closed only by a shutdown that has begun). Once
serving has ended nothing is pending, no connection is alive and every call of
`close()` is done (`AfterServing`), and the reconciling thread has ended when the
store goes (`ReconcilerInv`).

*Reads.* A copy that is up or has tables, vouches, and is not one of the `thin`, holds
everything acknowledged that is anywhere (`CopiesInv`); so a rebuild from such a copy,
a pass over all of them and a start on what the disk kept all give another. A read
has its miss from a copy that was up and vouched when it answered (`GetInv`).

*Scans and walks.* A set of keys has a listing: each key goes to its rank, one more
than the number of those before it (`ListingExists`), and the first *n* of a listing
are all that does not come after the *n*-th (`FirstOfListing`). `ScanInv`: everything
given is at the cursor or before it, and what was there throughout was given or is
`Ahead` of it, if no `thin` copy answered; a copy that vouches has all of that
(`CopiesInv`), so a page gives what is ahead up to its new cursor and nothing that was
given before (`PageGives`, `PageKeeps`). `PieceInv`: the pieces that are left are
apart from each other and from what was given, and what was held throughout was given
or is in one of them. They begin so because the one a key is in ends at the least
point that is not below it (`PiecesTile`); a file takes from one piece its first keys,
and leaves it beginning after the last of these (`FileGives`, `FileKeeps`). A
walk's source may lose its disk, and then nothing was held throughout.
`AnswersInv` puts these together with the types, which they need and which need them.

*Exchange.* `OwnAnswer` is not inductive, because connections are used again. What is
under way on the connection of a call that reads is its own request or its own answer
(`Carries`), and one that is in the pool, about to be written to or about to be kept
has nothing to be acted on and nothing to be read but its end (`Quiet`): `LinkInv` and
`PoolInv`, with `ConnInv` on connections that were closed or not made. `Staying`
picks connections out of the pool by position: that there is exactly one `Nth` of a set
of positions goes by the least position that is not counted. `WalkInv` counts the
members an undisturbed walk has asked from the one that answered last, modulo their
number; `StreamInv` says that only a stream that was begun is stopped.

Only model-checked: `ChangeIsTried`, `WalkEnds` and `ServingEnds`, being liveness
under fairness, which is out of the prover's reach. Every other property of the runs that pass is proved, `FenceCovers` and
`PromiseKept` of `EtcdCluster` for the orderly worlds they speak of.

## Where code and documents differ

The first two are runs expected to end in a counterexample; their quotes are under
`findings` in `PROJECT.json`.

* **Two nodes can stamp writes in one term** (`term_race`). `term_of` reads the
  newest term seen instead of the claim's own revision. Two threads of a node
  bring another node's term in: node 3 holds the claim, does not know its
  revision, and has seen the revision of node 2's claim through a write carried
  to it. The faults `restart`, `lost` and `slow`, put in the place of `race` in
  `MCRaceWorlds`, end the same way. Reading `create_revision` back with the claim
  would close all but `slow`. Without these four `PromiseKept` holds (`leadership`), and with it that
  a node orders only in terms it created itself.
* **A deposed leader's write is acknowledged behind its successor's** (`claim_beside`).
  A pass and a request thread of node n both create the claim. etcd applies one in
  term r, and its answer is on its way; the other thread is answered that the claim is
  there, that n holds it and at what revision, and `leader()` returns r without
  `raise_term` (`etcd_cluster.cpp:452-477`, and so does a pass, `776`). A write in r is
  written at n, carried to the copy m and acknowledged, with n's own fence still at an
  older term. A client then asks m, which led in that older term and does not know
  better: `lead_write` keeps m's own newer record without asking `accept`, n lets the
  write by its stale fence and keeps the newer record too, and the client is told of a
  write no copy has. `doc/database/cluster.md:248-251` says that a node raises its term as it
  wins the claim, so that this is refused. Raising the fence whenever the holder is the
  node itself would close it.

Four more have a trace that adding the property to a run's cfg, or taking its
exception out, produces:

* **An import can undo a write that arrives while it runs** (`KeepsLater` of
  `Store`, with 2 threads and 1 key). `import_records` reads a key and decides, a
  write of a later version lands, and the file is ingested above it
  (`rocksdb_repository.cpp:977-996`): it takes no stripe of `write_locks`.
  `repository.h:131-132` says "A key this store holds at a later version is kept".
  `clear_records` does the same, and deletes the write.
* **A node can join saying it is whole with nothing read**
  (`JoinsWholeOrIncomplete` of `Vouching`). Where the cluster has one zone
  `rebuild` has no zone to read from and answers whole (`rebuild.cpp:138`), so a
  second node of that zone vouches for its share at once, and is given no pass
  because nothing has changed since it joined. A node whose `discover` was not
  answered counts as alone and goes the same way. `doc/runbook/rebuild.md:194-196`
  says "When it appears in the membership it has either read the whole of its
  share or is saying it did not, in its own `incomplete`"; the comment at
  `rebuild.cpp:136-137`, that such a node "owns every key it is asked about", is
  true of a node alone.
* **A record can be answered as missing by the node that has just been given it**
  (`NotFoundIsTrue` of `Reads`, without the last disjunct of `Miss`'s `tainted`).
  `read_here` looks the key up, misses, and only then asks whether the node vouches
  for the partition (`router.cpp:620-629`); a pass that fetches the record and
  vouches in between makes the miss a 404. Asking before looking, as `scan_records`
  does, would close it. `doc/database/cluster.md:677-679` says "nothing is answered
  as absent that is not".
* **A node can vouch for what it was never given** (`thin` in `Reads`). A rebuild
  merges the tables before it reads the records, so a process that ends in
  between, or that joined short, leaves a store with tables, which the next
  process takes for whole (`rebuild.cpp:129`). A rebuild from a copy that is itself
  short counts as whole, since `route_file` answers with what there is; and one
  from a node that has no tables yet has nothing to read and is whole at once, as
  is a pass that was named none. The properties leave the answers of these nodes
  out.

The others are behaviours the models have, or stop short of, and no run states a property of:

* A walk can give up the copy its node has just come to own (`Handover`, with
  `Torn` and two zones). `walk_table` reads `holdings()` once and `copies_of()` for
  each partition; given the partition back in between, the node asks another zone
  (`reconcile.cpp:192`), where `doc/runbook/rebuild.md:308` says that only its own
  zone's owner is asked. Two such walks at once can take every copy of a record.
* A read that fails is taken for a key that is not there, in five places. A start that
  cannot read a partition's term has none (`rocksdb_repository.cpp:580`): the next write
  writes its own, lower, term over it, and a record of the higher one is then "on disk
  in a term the store does not remember", which the comment at `:547` says never happens. A
  reservation that cannot read the last one begins at nothing (`:309`) and issues
  counts again, which the comment at `:301-303` rules out. A start that cannot read the
  schema takes it for empty and drops every column family (`:470`, `:489`). An import
  takes a file's record over a later one (`:922`, `:973`), and a clear leaves what it was
  asked to drop (`:1033`). `TermRemembered`, `TermNeverFalls` and `CountsRise` say how far
  the first two go; `write_record` throws.
* The schema of a node can go backwards. An operation gets its term, or passes
  the fence, before it waits for `schema_lock` (`router.cpp:779`), and is applied
  without its version being compared: two of different terms are applied in the
  order the lock is given. A merge puts it right, a pass later.
* A restart forgets the term of a delete: the router restores the fence of the
  tables from live names only (`router.cpp:147`), where `doc/database/cluster.md:256`
  says that a node refuses what it refused before.
* Running a create again does not repair what was not written: it finds the table
  in memory and writes nothing (`router.cpp:802`).
* A merge that was refused a column family is not repaired by the next
  (`rocksdb_repository.cpp:418`), until the process starts again.
* A create does not restamp a table that stands (`router.cpp:802`), so an older
  tombstone still on its way through a pass drops it, with what was written to it
  since.
* A copy without the table answers a forwarded read with `table_not_found`
  (`rocksdb_repository.cpp:1101`), which `read_record` takes for the answer
  (`router.cpp:700`) though the next copy has the record, and so it is with scans
  (`router.cpp:870`). `missing_table` answers `node_incomplete` for just this
  reason, and only the node the client asked calls it (`"no table"` in `Reads`).
* A node asked under an older membership that has given the partition up is not
  short of it (`router.cpp:177`) and answers a miss, or an empty page, as the truth.
  `Reads` has one membership.
* The name of an instance is `std::rand()`, which nothing seeds
  (`rocksdb_repository.cpp:232`), so all processes draw the same, and a cursor is
  accepted by any. `doc/database/scans.md:142` says that a cursor belongs to the
  instance that issued it and that this is checked; the test that looks
  (`two_instances_do_not_share_a_keyspace`) has both in one process. `scan` runs
  with the one name there is, and scans are complete all the same.
* A connection accepted in a shutdown is told to stop by `hold()` before `run()` has
  set `waiting` and begun to read (`server.cpp:304`), and may so keep the process for the sixty
  seconds of a read. `doc/database/cluster.md:467` says that these are dropped. `early`
  in `Server` has them, and `OnlyWaitersAreCut` leaves them out.
* Without a drain `close()` runs in the signal handler (`server.cpp:456`), on any
  thread but the membership's, which blocks signals: on the reconciling thread it
  joins itself, and on one that holds a lock it takes it waits for itself. A second `close()`
  does not wait for the first to have left the cluster. A signal while the store is
  filled leaves the cluster before the node has joined it, and it then joins
  (`EndServe` comes all the same, and `~etcd_cluster` leaves). A signal after
  `serve()` has returned finds no server (`main.cpp:19`). The sixty seconds set
  before a read also bound handling the request and writing the answer
  (`session.cpp:250`).
* A stop that comes while the host of a stream is being looked up is lost
  (`missed` in `Exchange`): closing the connection cancels no lookup, and the
  connection is made after it. `beast_client.cpp:566-569` says the close is queued
  so as not to be "ahead of a connection the feed would then open"; etcd is given
  by names (`doc/database/cluster.md:41`), and `leave()` waits for the watch.
* A walk of etcd reads `current` again at each attempt (`etcd_client.cpp:409`); a
  call of another thread that moves it makes the walk ask one member twice and
  another not at all (`moved` in `Exchange`).

Two behaviours the models have that no document speaks of. A membership that
moves and moves back between two looks of the loop hands a partition over with
no pass to fetch it (`server.cpp:324`): the loop compares memberships and not
generations. A pass to which no node named its tables vouches for nothing and
may be the last all the same (`reconcile.cpp:395`). And one that `WritePath`
shows with a single copy, where there is no other to refuse the write: a deposed
leader acknowledges what it did not keep, because `lead_write` does not ask
`accept` about its own copy.

## What is not modelled

The components with status `not_modelled` in `PROJECT.json`, with the reasons.
Of the modelled parts: the bytes of keys, values, versions and JSON; the hash
itself; time, except that anything timed may happen at any time; what the watch
tells, which only makes passes come sooner; the share of claims made per pass,
which is a choice to make one or not; the health document, with the readiness that
is read for it; methods, paths and headers; the sockets' options.

## The plan

1. `Vouching` with the property that a partition gained is fetched before it is
   vouched for, where the loop looks between any two memberships.
2. An abstract `Schema` (each name at its newest version) that merging implements
   where operations are applied by version, with the behaviours above as properties,
   and names that depend on each other.
3. `WritePath` and `Reads` under a membership that moves.
