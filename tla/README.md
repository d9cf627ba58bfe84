# Edamame Alpha in TLA+

A verification project for the two programs of this repository: `edamame-core`
(origin and controller of a live HLS service) and `edamame-node` (a cache node).
It holds TLA+ modules translated from the Rust source, TLC configurations that
check them on small instances, and theorems that TLAPS checks for every value
of the constants. Line references are to `src/` at the modelled commit.

Contents: [the system](#the-system) · [modules](#modules) · [runs](#runs) ·
[what disagrees with the documents](#where-code-and-documents-disagree) ·
[proofs](#proofs) · [not modelled](#what-is-not-modelled)

## The system

A publisher PUTs segments to the core. The core keeps the canonical files,
remembers what is committed, and generates playlists. Cache nodes register,
send heartbeats with what they hold, and are told in the answer what to fetch.
A player asks the core for a playlist; all segment URLs in it point at one
ACTIVE node, chosen at that moment.

Everything the core knows is in one `CoreInner` (`core/mod.rs`) behind one
mutex: `channels`, `registry`, `snapshots`. It lives in memory only. The
segment files are outside the mutex and outlive the process.

| Component | State it keeps | Operations | What makes it correct |
|---|---|---|---|
| Registry (`core/registry.rs`, `domain/cache_node.rs`) | `nodes`: address, state, last heartbeat, health, load, retained ids | `register`, `heartbeat`, `evaluate_all` | states move along the documented edges only; DEAD only when a handler's stamp is more than the timeout past the record's; a node joins and resumes with nothing on record |
| Placement (`core/placement.rs`) | none | `select_active`, `prewarm_plan` | the choice is the best servable node by report; the plan is enough to become ACTIVE |
| Core HTTP handlers (`core/http.rs`) | none of their own | `put_segment`, `get_segment`, `get_playlist`, `put_node`, `post_heartbeat` | evaluation precedes every decision; 503 only if no node is servable |
| Ingest (`core/ingest.rs`, `domain/rendition.rs`) | `channels`: per rendition metadata, segments, commit log | `ingest_segment`, `required_segments` | acknowledged is stored; write-once; metadata sticks; the log is exact |
| Canonical storage (`core/storage.rs`) | files | `write_segment`, `read_segment` | a committed segment's file is complete |
| Manifest (`core/manifest.rs`, `domain/playlist.rs`, `domain/window.rs`) | `snapshots` | `regenerate`, `refresh_snapshot` | what is served can be played, aligned across renditions, and never goes back |
| Node cache (`node/cache.rs`) | files and `retained` | `store`, `get`, `evict` | what is reported can be served; a segment leaves only behind a newer one of its stream |
| Node loop (`node/heartbeat.rs`, `node/prewarm.rs`) | none | `register`, `heartbeat_once`, `put_prewarm` | reports never overstate; a known node becomes ACTIVE; a routed client finds what the playlist lists |
| Segment names, configuration, errors, `now_ms` | none | parsing and validation | inputs refused before any state is read |

Interactions: publisher → core (PUT), player → core (playlist), player → node
(segment), node → core (register, heartbeat, fetch of a segment file). The core
never calls a node. Inside the core the components are plain calls under the
mutex; `get_segment` alone takes no lock.

Where it is hard:

- **The clock is read before the mutex is taken** (`http.rs:125`, `:167`,
  `:183`). Handlers can be applied in another order than their stamps, and the
  clock is the wall clock (`lib.rs:23`), which may be set back.
- **There is no background evaluator.** A node changes state only when some
  handler evaluates everybody, possibly because of another node's heartbeat.
- **A PUT is not atomic.** Rendition and metadata are recorded before the
  conflict check and the write; the write can fail half way; the file can be
  read meanwhile; the process can stop at any step and forgets all it knew.
- **Snapshots are stale on purpose.** When the present state yields no valid
  playlist the last valid one is served; it was validated against the past.
- **Retries.** A publisher that lost an answer repeats the PUT.
- **Reports are old news.** A node reads what it holds, sends it later, and goes
  on storing and evicting; the core routes on the report until the next one.
- **A heartbeat may be lost before or after it took effect**, or abandoned by its
  node and served later; the plan in its answer is dropped at the first fetch
  that fails.
- **Anyone may prewarm anything.** `PUT /prewarm` takes any segment at any URL,
  and a segment far ahead evicts what the core requires.
- **Two programs with separate ideas of a window**: the core's live window is
  configurable, the node keeps a fixed 12 sequences behind its own edge.

`PROJECT.json` lists every such hazard at its line, with the properties that
would notice it going wrong, or why none does.

## Modules

```
U64 ── Window ── Manifest ──┬── Registry ── MCRegistry
                            │      │  (implements NodeLifecycle)
        CacheNodes ─────────┘      ├── RegistryProofs
                                   │
        Retention ──┬──────────────┴── Edamame ── MCEdamame
                    │                     │  (implements HeldSet)
                    │                     └── EdamameProofs ── EdamameRequestProofs
                    └── NodeCache ── MCNodeCache
        RetentionProofs     │  (implements HeldSet)
                            └── NodeCacheProofs

        Rendition ──────────┬── Origin ── MCOrigin
        Manifest ───────────┘      │  (implements SegmentStore)
        ManifestProofs             └── OriginProofs
```

**Pure operators.** `U64` has the saturating subtraction. `Window` is the live
window behind an edge. `Manifest` is window selection, gap check, alignment and
playlist content; a media playlist is the function from listed sequence numbers
to extensions, so `#EXT-X-MEDIA-SEQUENCE` is the least element of its domain
and the m3u8 text is left out. `CacheNodes` is the registry as a function from
ids to records, with `Register`, `Heartbeat`, `EvaluateAll`, the sort order and
the plan. `Rendition` is metadata conflict and merge. `Retention` is what a node
keeps: `is_evictable` and the choice `evict` makes with it, on sets of ids.

**`Registry`** is the control plane. Correspondence:

| Variable | Code |
|---|---|
| `nodes` | `Registry::nodes` |
| `committed` | key sets of `RenditionState::segments`, all streams |
| `clock` | what `now_ms()` would return now |
| `setBacks` | how often the wall clock has been set back |
| `stamps[t]` | the `now` of a handler on thread t that waits for the mutex |
| `reply` | the response of the last step |
| `reported`, `heard` | history, read by properties only |

`ReadClock(t)` is the `now_ms()` line, the only code a handler runs before the
mutex that matters here; `PutNode`, `HeartbeatUnknown`, `PostHeartbeat` and
`GetPlaylist` are the bodies under the mutex, one atomic action each. `Restart`
is a new process with an empty registry.
`stamps[t]` does not say which request the thread serves: the handler is chosen
when the lock is granted, which is equivalent because nothing the request
carries is used before. `Publish` is ingest as the registry sees it, `Tick` the
passing of time, `SetBack` the wall clock set to an earlier time. `reported[n]`
says that a report was applied since n joined or resumed; it says nothing of when
the report was made (a heartbeat that waited through the death and the
resumption of its node counts).

**`NodeLifecycle`** is the abstract specification: nodes join COLD, move along
its edges during evaluation passes, and leave DEAD by their own heartbeat only,
one at a time, landing in COLD as long as there is a window to fetch. With an
empty window they may be ACTIVE at once: that is what the code does and not what
the documents say (`ResumesCold` below). A restart of the core forgets them all
(`Forget`).

**`Origin`** is ingest, files and snapshots.

| Variable | Code |
|---|---|
| `streams` | `CoreInner::channels`, flattened to ⟨channel, rendition⟩ |
| `snapshots` | `CoreInner::snapshots` |
| `disk` | the canonical files: complete, cut (`Torn`) or `Missing` |
| `writing` | the PUT that is inside `fs::write`, holding the mutex |
| `accepted` | history: what was answered 200 or 201, and by which process |

`put_segment` is `RefuseMetadata` (409 before anything changes), `PutKnown`
(200 or 409 on a committed id), `StorageDown` (500, nothing written), or
`BeginWrite` → `FillFile` → `Commit` / `FailWrite`. `BeginWrite` already holds
the effect of `or_default()` and of the metadata merge, as the code does.
`writing` is the mutex: while it is taken no locked handler runs, but files can
be read. `GetPlaylist` is `get_playlist` from the point where a node is chosen;
`Restart` may happen between any two steps, loses the maps, keeps the files.
`GetSegment` is `get_segment`, which takes no lock and may answer a file in the
middle of a write; the read is one step, so a read that straddles two steps of
a write is not modelled. `Pulled` are the files that are asked for.

**`SegmentStore`** is its abstract specification: a write-once store that a
restart empties. `Registry`, which sees ingest as `Publish`, implements it too:
this is where the two halves of the core meet.

**`NodeCache`** is the data plane of one node: the map, the files, and fetches in
hand.

| Variable | Code |
|---|---|
| `retained` | `NodeCache::retained`, from ids to extensions |
| `disk` | the files under the cache directory |
| `fetches[t]` | a call of `fetch_and_store` that waits for the origin |
| `reply` | the response of the last step |
| `stored` | history: what the last store of each id has left of it, a body or a cut file |

`Wanted` are the files that tasks fetch. `BeginFetch` is the request to the origin, `FetchFails` the 502, `Store` the body
of `NodeCache::store` under the mutex, eviction and removal of files included; a
removal may fail silently (`let _ = fs::remove_file`). `StoreFails` is a
directory that cannot be made or a write that stops half way. `GetSegment` is the
handler with `NodeCache::get`; `Restart` loses the map, keeps the files, and may
cut one that was being written. A file is named by id *and* extension, the map
is keyed by id alone: that is where the two can part.

**`HeldSet`** is what a cache promises, seen from outside: a set of ids that a
store adds to and thins out, by comparing ids with each other. It knows no edge
and no saturating arithmetic. One `NodeCache` implements it with files, and the
caches of `Edamame` implement it as sets: this is where the node's two models meet.

**`Edamame`** is the running system: the core's registry and the snapshot of one
channel, nodes with their loop, and the requests between them. It extends
`Registry`: every handler of the core here *is* the action of that name there.

| Variable | Code |
|---|---|
| `requests` | registrations and heartbeats sent and not yet taken (`reqwest` send) |
| `handling[t]` | what the handler on thread t is answering |
| `renditions` | `ChannelState::renditions`, those without a segment included |
| `snapshot` | the ids the stored snapshot of the channel lists |
| `at[n]` | where the node's `main` / `run_loop` is: starting, ticking, waiting for an answer, fetching |
| `plan[n]` | what is left of the answer's `prewarm` list |
| `cache[n]` | the ids in the node's `retained` map |
| `connection[n]` | which connection the node uses: a new one after each request it abandons |
| `lives[n]` | how often the process has restarted |
| `faults` | how many things have gone wrong, all kinds together |

A node registers once (`SendRegister`) and then loops (`SendHeartbeat`,
`FetchNext`, `FetchFails`). It has one request under way and goes on whatever
becomes of it: the core may never take it (`RequestLost`), its answer may be lost,
or the connection may break while the request is under way or in hand (`GiveUp`),
in which case the core may serve it later, after requests that were sent after
it. `Arrive` is a handler that takes a request and reads the clock;
`ServeRegister`, `ServeUnknown`, `ServeHeartbeat`, `ServePlaylist` are the bodies
under the mutex. `Prewarm` is `PUT /prewarm` from outside at any moment, of any
segment, committed or not. `Ingest` is a committed PUT and `IngestFails` the first
one of a rendition, which could not be written but leaves the rendition behind:
while that has no segment, `regenerate` fails (`manifest.rs:23`). `NodeRestart` and
`CoreRestart` start a process again with empty maps, while requests of the former
life may still be under way. `TimeIsSetBack` is the clock of the core.
Renditions belong to one channel; file contents are `NodeCache`'s and `Origin`'s
matter, so a cache here is a set of ids. Nodes report health ok and load 0, as
`run_loop` does.

`MCRegistry`, `MCOrigin`, `MCNodeCache` and `MCEdamame` give the constants their
small values.

Operators whose comment says "Wrong on purpose" are plausible bugs, each a
variant of the definition below it. No behaviour uses them: they are there to
be swapped in, to see that a property notices.

## Runs

| Run | Instance | Distinct states | Shows |
|---|---|---|---|
| `registry` | 2 nodes, 1 stream, 1 sequence, window 1, loads {0, 1}, threshold 1, timeout 1, time 0..2, the clock set back once, 1 thread | 940,725 | types; routing follows the reports that were applied since a node joined or resumed; a plan suffices; no underflow kills a node; no record older than the timeout is routed to; `NodeLifecycle` implemented |
| `origin_ingest` | 1 rendition, 1 sequence, 2 extensions, 3 bodies of which two collide under the hash, 2 bandwidths, 1 resolution, 1 restart, 2 faults, every file pulled | 79,608 | types; acknowledged is stored up to the hash; committed is read whole; the log is exact; metadata sticks; nothing complete written over before a restart; `SegmentStore` implemented |
| `origin_playlist` | 2 renditions × sequences 0..3, window 3, 1 body, 1 fault, no restart, nothing pulled; renditions symmetric | 391,483 | every snapshot playable; snapshots never go back and lose segments at the old end only |
| `node_cache` | 2 streams, sequences 0..2, 4 files (one id in two extensions, one two ahead of it, one of the other stream), retention 1, 2 bodies, 2 tasks, 1 fault, 1 restart; bodies and tasks symmetric | 417,023 | types; what is held is served as last stored; span and eviction per stream; `HeldSet` implemented |
| `system` | 1 node, 2 renditions × sequences 0..1, window 1, retention 0, 1 handler, no time, and one fault of any kind: node restart, core restart, loss, abandoned request, failed fetch; renditions symmetric | 963,734 | types; no report overstates; nothing required is given up but for what is not committed; a routed client finds the fresh playlist on the node; a lost node stays lost; `HeldSet` implemented |
| `system_live` | 1 node, 1 rendition, sequences 0..1, window 1, retention 0, 2 handlers, timeout 0, time 0..1, and one fault of any kind but a node restart: core restart, loss, abandoned request, failed fetch, clock set back | 183,879 | one request of a connection under way; only silent nodes die; a known node becomes ACTIVE |
| `draining_stuck` | 1 node, sequences 0..1, window 1, 2 threads, time 0..4 | to the counterexample | a sentence of the documents that the code does not keep |
| `false_death` | the same | to the counterexample | the same |
| `resumed_active` | the same, 1 thread | to the counterexample | the same |
| `overwrite_after_restart` | 1 rendition, 1 sequence, 1 extension, 2 bodies that the hash tells apart, 1 restart, no fault | to the counterexample | the same |
| `window_too_wide` | 1 node, 1 rendition, sequences 0..2, window 3, retention 1, nothing goes wrong | to the counterexample | the same |
| `restarted_node_active` | 1 node, 1 rendition, 1 sequence, window 1, retention 0, one node restart | to the counterexample | the same |

Why these bounds. *Nodes*: load order, ties and "another node's heartbeat
evaluates me" need two; nothing compares three. What the system adds to the
registry (reports, plans, caches, loops) concerns one node at a time. *One
sequence* in `registry`: the window is empty or has moved past what a report
names, the two cases the registry tells apart; *window 1 with two sequences* is the
smallest in which a node's window moves past it, leaving one behind the edge that
retention 0 evicts. A window of two or more segments, with gaps in it and behind
it, is `origin_playlist`'s and the theorems'. *Loads 0 and 1 with threshold 1* are
"idle" and "overloaded", equality included. *Timeout 1 in time 0..2* allows in
time, exactly at the limit and late; a clock set back gives one thread what
overtaking gives two, a stamp older than the record it meets. With *timeout 0*,
one tick is a silence. *Two faults, one restart* at the origin: a failed write,
its repetition failing too or succeeding, and a file left over from an earlier
process. *Two tasks and two bodies* in `node_cache`: two fetches of one file
stored in either order. `MaxTime`, `MaxSetBacks`, `MaxRestarts`,
`MaxNodeRestarts` and `MaxFaults` are the only artificial bounds; they appear in
the guards of `Tick`, `SetBack`, the restarts, and what may fail.

What the runs leave to the proofs. `origin_playlist` has no restart and no
metadata, `origin_ingest` no second sequence. `system` has no clock, hence all
stamps are equal and one handler is enough (a request that a second one would
hold may as well be under way); it has no plan that spans a window. `system_live`
has no node restart, and plans of one item, so a fetch that fails drops nothing
but itself. One fault in either means that two
disturbances never meet there. The safety theorems have none of these bounds;
`KnownBecomesActive`, which is not proved, has them all.

Every run checks deadlock, and there is none: some handler can always be
served.

Symmetry is used only in runs without a liveness property and over values that
no operator tells apart (renditions; bodies and tasks of a node
cache). Node ids are ordered by the code and are therefore numbers, not model
values.

### Fairness

`Edamame!Fairness` is what the two processes do by themselves:

- *weak*, for each node: the next step of its loop. `run_loop` ticks for ever
  (`heartbeat.rs:115`) and every arm of a step ends in the next tick;
- *strong*, for each node: a request of its own, once sent, is taken by some
  handler. Strong, because the handlers of the model are few and may be busy
  with other requests each time; in the program the listener queues connections
  in order and tokio starts a handler for each;
- *weak*, for each handler: it gets the mutex and answers. No handler holds the
  mutex across an await, and none waits for anything else.

Nothing is assumed of clients, publishers, the clock, failures and restarts. The
bounds on them make every behaviour come to rest: each disturbance happens at
most so often, at any moment. That a request is answered or fails in the end is
part of the fairness: the HTTP client has no timeout, and a core that accepts
and never answers would stop a node's loop for good.

### What the properties say

- `RoutingFollowsReports`: an answered playlist names an ACTIVE node that
  qualifies by its last report and is first in (load, id) order among *all*
  qualifying nodes that are not DEAD; 503 means there is none. The states COLD,
  ACTIVE and DRAINING carry no memory beyond the report.
- `RoutedOnFreshReport` (FR-032): once something is required, a node is routed to
  only on a report the core applied after the node joined or resumed. What it
  applied before the death and the report that resumed the node never count; a
  report made before the death that the core gets round to after the resumption
  does count in the code, and the property does not exclude it.
- `PrewarmSuffices`: a COLD or ACTIVE node that fetches its whole plan and
  reports itself healthy and idle is ACTIVE at its next evaluation, unless the
  window has moved meanwhile.
- `DeadOnlyAfterSilence`: a step kills a node only if the handler's stamp is more
  than the timeout past the one on the record, so an older one never underflows;
  with a clock that is never set back the timeout has really passed. It judges by
  the record's stamp, which may itself have been moved back (`false_death`).
- `RoutedInTime`: there is no background evaluator, and routing needs none: the
  record of a routed node was within the timeout when the request read the clock.
- `AcknowledgedIsStored`: any 200 or 201 means committed under that extension
  and hash with a complete file of that hash, for as long as the process runs. So
  of two bodies that the hash tells apart one is refused; of two that collide both
  are accepted, see below.
- `CommitLogExact`, `MetadataSticks` (FR-041): across repeated, refused, failing
  and interrupted PUTs.
- `SnapshotPlayable`: every stored snapshot, stale or not, is gap-free, aligned
  across its renditions, within the window, and backed by complete files.
- `SnapshotAdvances`: no step drops a rendition from a snapshot or moves its
  last sequence back.
- `ListedStays`: what a playlist listed is listed again with the same extension,
  until it is older than everything listed. Late segments may come in at the old
  end, and `#EXT-X-MEDIA-SEQUENCE` may move back; nothing leaves from the middle.
- `KeptUntilRestart`: until the core restarts a complete file is never written
  again, be it committed or waiting for its commit.
- `CommittedReadWhole`: whatever PUT is being written, the bytes read without the
  mutex under a committed id are complete and of its hash. What a node is told to
  fetch is committed, so it never fetches a cut file while the core lives.
- `ServesLatest`: the file of every held id is there, under the extension on
  record, with the body that was stored last, by whichever task and under whichever
  extension, and cut only if a later store of that very file failed.
- `SpanBounded`, `LeavesOnlyBehind` (FR-015): per stream, a node keeps exactly
  what is within the retention of the highest sequence it holds, the new one
  included.
- `ImplementsHeldSet`, `ImplementsHeldSets`: every step of a node is storing one
  id, losing all of them, or nothing, seen as a set of ids.
- `KeepsRequired`: a running node gives up nothing that the core requires at that
  moment, if it keeps at least the live window, except for something that is not
  committed. The two judge by different edges: what is held, and what is
  committed.
- `OneRequestUnderWay`: a node waits exactly while one request of its present
  connection is sent or in hand, and never has two. So only a request that its
  node has given up on overtakes, or is overtaken by, another of that node; and a
  node waits for no answer that nobody will give.
- `OnlySilentNodesDie`: with a clock that is never set back, a node that has
  neither restarted nor given up on a request is declared DEAD only if no request
  of it was stamped within the timeout. Each of the three conditions is needed.
- `ReportsHold`: a report in flight, in hand, abandoned or on record may be old,
  but what it names is still held, or was evicted for something newer that is
  held, unless the node has restarted.
- `FreshRoutedCanServe` (FR-031): the node named in a playlist holds everything
  the playlist lists. Its exceptions are the ways the code does not keep this: a
  restart of the node; a snapshot kept for want of a valid window, a rendition
  without a segment included; a node that holds something the core has not
  committed; and a live window wider than the retention of nodes.
- `LostForGood`: a node whose registration was lost, or that a restarted core has
  forgotten, stays unknown until its own restart, whatever it reports.
- `KnownBecomesActive`: after a lost, late or abandoned message, a failed fetch, a
  silence or a restart of the core, every node the core knows is ACTIVE in the end
  and stays so, with one exception: it holds something so far ahead of a required
  segment that it evicts the segment the moment it stores it (the core has
  restarted and the stream has started over, or a prewarm from outside).

## Where code and documents disagree

Each is a run that TLC refutes.

1. **A DRAINING node can be stuck** (`draining_stuck`, `registry.rs:115`).
   Leaving DRAINING needs every required segment on record, but a DRAINING node
   gets no plan (`placement.rs:41`). If one is missing there, because the window
   moved while the node drained or because its report lacks one, it stays
   DRAINING however idle and healthy it is. `docs/README.md:33` promises ACTIVE.
2. **A live node can be declared DEAD** (`false_death`, `http.rs:183`). Two
   requests of one node, served out of order of their stamps, set
   `last_heartbeat_ms` back. DEAD is documented as "no heartbeat for the
   timeout". The earlier request must be one its node has given up on, or of a
   former life, or of another process with the same id; or the clock is set
   back: `OnlySilentNodesDie` is proved for a node without any of these.
3. **A DEAD node can become ACTIVE at once** (`resumed_active`,
   `registry.rs:62`). A resuming heartbeat clears what the node holds, and is
   evaluated at once: while the window is empty nothing is missing, so the node
   is ACTIVE in the answer. `docs/README.md:34`, `docs/api.md:31` and the comment
   at `registry.rs:59` say COLD.
4. **A stored segment can be overwritten after a restart**
   (`overwrite_after_restart`, `ingest.rs:89`). Conflicts are judged from
   memory, which is never rebuilt from the storage directory: two bodies under one
   id are both answered 201. `docs/api.md:56` promises 409. It takes the restart
   (or a collision): `KeptUntilRestart` is proved.
5. **A restarted node is routed to empty** (`restarted_node_active`,
   `registry.rs:26`). Registering again keeps state and report of the former
   life; until the first heartbeat of the new one, clients are sent there. The run
   judges the registration itself: it may not leave a record on which an
   evaluation makes a node ACTIVE that lacks a required segment.
6. **A live window above 13 never works** (`window_too_wide`,
   `bin/edamame-node.rs:14`). Nodes keep 12 sequences behind the edge, whatever
   `--retention-window` of the core says: that flag is validated and used
   nowhere else. A node then fetches a committed segment and evicts it in the
   same call, again and again, and stays COLD. With a window the retention
   covers, `KeepsRequired` is proved; with a wider one, `ReportsFit` proves that
   the core answers 503 once the required segments span more than the retention,
   rather than routing to a node that cannot hold them.

Consequences of the code that the models contain and no run of its own is spent
on:

- *Colliding bodies are the same body.* `ingest_segment` compares 64-bit hashes
  (`ingest.rs:90`), so a PUT of other bytes whose hash collides is answered 200 and
  its bytes are dropped, where `docs/api.md:54-56` and `ingest.rs:65` promise 409 for
  any other bytes. `origin_ingest` has such a pair, and `AcknowledgedIsStored` is
  stated up to the hash because of it.
- *A PUT that is not accepted leaves its mark*: rendition and metadata are recorded
  before the lookup and the write (`ingest.rs:84`). `MetadataSticks` is about what is
  recorded, whoever recorded it. A rendition whose first segment could not be
  written is known without one, and while it is, no snapshot of the channel is
  made (`manifest.rs:23`).
- *A prewarm from outside may evict what is required* (`prewarm.rs:28`,
  `cache.rs:84`): the exception of `KeepsRequired`, `FreshRoutedCanServe` and
  `KnownBecomesActive`. A stream that starts over after a restart of the core does
  the same.
- *A node whose registration was lost, or that the core has forgotten, is answered
  404 for ever* (`heartbeat.rs:117`): `LostForGood`, and the reason for "known" in
  `KnownBecomesActive`.
- *A report from before a death may be applied after the resumption*
  (`http.rs:189`): see `RoutedOnFreshReport`.
- The stored snapshot is served while renditions are not aligned, and from a node
  that need not hold it (`manifest.rs:131`); 202 for a segment that is evicted in the
  same call (`prewarm.rs:28`); files that no map names any more stay on disk
  (`cache.rs:91`); a cut file is answered with 200 while a first PUT is being written
  (`storage.rs:61`) and after a failed repetition of a store (`cache.rs:54`).

## Proofs

`tlapm` proves these for all values of the constants, from the named
assumptions only: `WindowAssumption` (a window is positive:
`WindowConfig::validate`), `CacheNodesAssumption` and `RegistryAssumption`
(ids, sequences and bounds are naturals, loads integers, 0 a load),
`OriginAssumption` (the hash is a function on the bodies; `Torn` and `Missing`
are not bodies), `RetentionAssumption`, `NodeCacheAssumption` and
`EdamameAssumption` (naturals again). Nothing is assumed of the sizes, the hash,
the threshold, or the relation of window and retention.

**`ManifestProofs`**: the live edge is always listed, a list fits the window,
and two gap-free lists with the same ends are the same list. The last one is
why it is enough that `regenerate` compares the ends. `CountFindsGaps` closes the
one step between model and code here: the code looks for a gap by comparing a
count with `edge - first + 1` (`manifest.rs:46`), the model by its meaning, and
the theorem says that the two agree on every committed set with a live edge.

**`RegistryProofs`**. The inductive invariant `IInv` is `TypeOK` together with
- no stamp, on a record or on a thread, lies in the future unless the clock has
  been set back: without it a late evaluation could kill a node before the
  timeout;
- every committed set is empty or has a greatest element: TLA+ does not know
  that a process stores finitely many segments, and `Max` needs it to say that
  a non-empty stream requires something;
- `UnreportedHoldsNothing`, the fact behind `RoutedOnFreshReport`: a node that is
  not DEAD and of which no report was applied since it joined or resumed has
  nothing on record.

| Theorem | Establishes |
|---|---|
| `TypeCorrect`, `Invariant` | `[]TypeOK`, `[]IInv` |
| `RoutingCorrect` | `[]RoutingFollowsReports`; key lemma: a node not DEAD after evaluation is ACTIVE *iff* it qualifies |
| `RoutedOnFreshReportHolds` | `[]RoutedOnFreshReport`: an unreported node holds nothing and something is required |
| `PrewarmSufficesHolds` | `[]PrewarmSuffices` |
| `DeadOnlyAfterSilenceHolds` | the action property, by cases on who evaluates (`DeathOfSilent`) |
| `RoutedInTimeHolds` | the action property: an evaluation at the handler's stamp leaves no node ACTIVE whose record is too old for it |
| `CommitsImplemented` | `Spec => Commits!StoreSpec`: `Publish` and `Restart` are the steps of `SegmentStore` |
| `ZeroThresholdServesNobody` | with threshold 0 and no negative load, no playlist is ever routed (`config.rs:58` lets 0.0 pass) |
| `LifecycleImplemented` | `Spec => Lifecycle!LifecycleSpec`, step by step |

**`OriginProofs`**. `StoreInv` is `TypeOK` with
- `WritingFresh`: the PUT in flight has a rendition, has found its id free, and
  its file is cut or complete. This is what the mutex buys: it makes the lookup
  before the write still true at the commit;
- `CommittedOnDisk`: a committed id has a complete file of its hash;
- `AcceptedRecorded`: what was acknowledged is what is recorded.

Snapshots add (`SnapshotInv`) a live edge for every rendition and every stored
list, and `SnapshotPlayable` itself, which is inductive given that no step but
a restart takes back a commit or touches its file (`StepKeeps`).

`KeptUntilRestart` is about every complete file and not only committed ones, and
needs `CompleteIsOwned`: before the first restart a complete file is that of a
committed segment or of the PUT in flight. `ListedStays` needs that a snapshot
agrees with the commits it was made of, and that a committed id that a later
window does not list is older than all that window lists (`UnlistedIsOlder`).

| Theorem | Establishes |
|---|---|
| `TypeCorrect`, `StoreInvariant`, `SnapshotInvariant` | `[]TypeOK`, `[]StoreInv`, `[]SnapshotInv` |
| `AcknowledgedIsStoredHolds` | `[]AcknowledgedIsStored` |
| `CommittedReadWholeHolds` | `[]CommittedReadWhole`, from `CommittedOnDisk` and that an answer is what the file holds |
| `MetadataSticksHolds` | the action property `MetadataSticks` |
| `CommitLogExactHolds` | `[]CommitLogExact`, with `LogInv` |
| `StoreImplemented` | `Spec => Store!StoreSpec`, the files as contents |
| `CommitsImplemented` | `Spec => Commits!StoreSpec`, the commits alone, as `Registry` sees them |
| `KeptUntilRestartHolds` | the action property `KeptUntilRestart` |
| `SnapshotPlayableHolds`, `SnapshotAdvancesHolds`, `ListedStaysHolds` | `[]SnapshotPlayable` and the action properties, for every window size |

**`RetentionProofs`** has the lemmas about `Keeping` that both node models rest
on: its result is within the retention, keeps the newest id of each stream, and
drops an id only behind a kept one of the same stream. `KeepingDeclared` says it
without edges: what is kept is what is not too far behind anything of its stream.

**`NodeCacheProofs`**. The inductive invariant `IInv` is `TypeOK`, `ServesLatest`,
`SpanBounded`, and that the held ids of every stream have a newest one (`Max` is a
CHOOSE, which says nothing of a set without a maximum).

| Theorem | Establishes |
|---|---|
| `TypeCorrect`, `Invariant` | `[]TypeOK`, `[]IInv` |
| `ServesLatestHolds`, `SpanBoundedHolds` | the two invariants |
| `LeavesOnlyBehindHolds` | the action property, by cases on what a store does |
| `HeldSetImplemented` | `Spec => HeldIds!HeldSpec`, by `KeepingDeclared` |

**`EdamameProofs`**. Every core handler of `Edamame` is the `Registry` action of
that name, so `RegistryImplemented` is a lemma that follows from the definitions;
it is what carries the registry's theorems over. The inductive invariant `EIInv` is
`EdamameTypeOK`, the registry's `IInv`, `ReportsHold`, and `CachesHaveNewest`: the
held ids of every stream have a newest one. Nothing is assumed of what is
prewarmed, so a cache may be ahead of the core; what makes `ReportsHold` inductive
is that a node evicts by its own edge, which it keeps holding (`StoreFacts`), and
that what is out of its reach once stays so until it restarts (`OutrunStays`).
`FreshRoutedCanServe` then follows from the registry's routing lemma (a routed
node holds `required` *by report*) and the window arithmetic: a required id is
within the window of the committed edge, so if the node holds nothing ahead of
that edge nothing has outrun it (`RequiredNotOutrun`).

| Theorem | Establishes |
|---|---|
| `EdamameTypeCorrect`, `EdamameInvariant` | `[]EdamameTypeOK`, `[]EIInv` |
| `ReportsHoldAlways` | `[]ReportsHold` |
| `FreshRoutedCanServeHolds` | `[]FreshRoutedCanServe`, for every window that the retention covers |
| `KeepsRequiredHolds` | the action property: what evicts a required segment is ahead of all that is committed |
| `HeldSetsImplemented` | `EdamameSpec => Caches!HeldSpec` |
| `RegistryTheoremsHold` | the registry's routing, prewarming, death and life cycle, for the running system |

**`EdamameRequestProofs`** is about the requests. `OneRequestUnderWay` is not
inductive: a node that gives up or restarts begins a connection, and a request of
that connection must not be under way already (`PastConnections`: no request is of
a connection to come); and a handler must not drop what it has in hand for the
next request (`StampedWhileHandling`: it holds a stamp exactly while it answers).
With these it is `FlowInv`. `OnlySilentNodesDie` then rests on `InOrder`: as long as
the clock was never set back and the node is on its first connection, the stamp on
record is the latest heard of, and a stamp in hand is not older; there is one
request to hold a stamp. `LostForGood` needs no invariant: a node becomes known by
a registration only, registers only when it starts, and starts only by a
restart; a lost node has no registration left. `FitInv` says of caches and of all
reports that they fit the retention; a report is what a cache held at one moment,
so it fits as the cache did.

| Theorem | Establishes |
|---|---|
| `FlowInvariant`, `OneRequestUnderWayHolds` | `[]FlowInv`, `[]OneRequestUnderWay` |
| `OnlySilentNodesDieHolds` | the action property, by `OrderInv` and the registry's `DeathOfSilent` |
| `LostForGoodHolds` | the action property, by `OnlyRegisteringJoins`, `OnlyRestartingStarts`, `OnlyStartingRegisters` |
| `ReportsFitHolds` | `[]ReportsFit`: no report spans more of a stream than the retention, so nobody is routed to while what is required does; by `FitInv` and the registry's `RoutingCorrect` |

Every safety property of the passing runs is proved as well as model-checked.
Only model-checked: `KnownBecomesActive` and the counterexamples. Out of the
prover's reach: liveness under fairness and ENABLED, and induction over data
(what a recursive definition computes for every input); no model here needs the
latter.

## What is not modelled

- **The composition of `Edamame` with `Origin` and `NodeCache`** as one state
  machine: `Edamame` sees ingest as `Publish` and a cache as a set of ids. The
  links are theorems on either side. Commits are the same `SegmentStore` in
  `Registry` and `Origin` (`CommitsImplemented`, twice), caches the same `HeldSet`
  in `Edamame` and `NodeCache`; what is committed is read whole
  (`CommittedReadWhole`), what is held is served (`ServesLatest`).
- **Several channels in `Edamame`**: the registry joins the required ids of all
  channels, and one channel of several renditions is that union; snapshots per
  channel are `Origin`'s.
- **Names** (`domain/segment.rs`): a request whose names do not parse is refused
  with 400 before it reads any state. The models start from the parsed triple.
- **m3u8 text, JSON, status texts, logging, argument parsing**: layout only.
- **The body of the registration** beyond the address: `capacity_hint` is
  discarded by the code. `committed_at_ms` of the commit log is never read.
- **Mutex poisoning**: no code under the mutex is known to panic.
- **Loss of power.** Files are not synced; a restart here is of the process.
- **A peer that accepts and never answers**: see Fairness.
- **Overflow at 2^64 − 1**: no arithmetic of the core adds to a sequence number
  or a time except `edge - first + 1` of the gap check, which overflows only for
  a window of 2^64; saturating subtraction is modelled.
- **`examples/bench.rs`, container build, CI**: not part of the program.
