# TLA+ models of the industrial data platform

The platform reads building and industrial telemetry at the edge, carries it over MQTT and
Kafka to a ClickHouse store, and configures its edge agents from a registry. This directory
holds TLA+ modules of its stateful parts, TLC configurations that check them on small
instances, and TLAPS proofs that hold for every value of the constants.

`EA/`, `CR/` and `AG/` below abbreviate the packages
`src/apps/edge_telemetry_agent/src/edge_telemetry_agent/`,
`src/apps/idp_config_registry/src/idp_config_registry/` and
`src/apps/idp_asset_graph_registry/src/idp_asset_graph_registry/`.

## 1. Inventory

| Component | State | Operations | Talks to | Correct when |
| --- | --- | --- | --- | --- |
| Edge delivery outbox (`EA/infrastructure/sqlite_outbox.py`, `EA/application/delivery.py`, `EA/infrastructure/mqtt_publisher.py`) | table `outbox` in SQLite; a batch in each worker's memory; messages inside the MQTT client | append, reserve_batch, recover_expired_inflight, mark_sent / mark_retry / mark_dead_letter, publish | MQTT broker; other processes through the SQLite file | an event is settled or stays within reach; "sent" is true; an attempt is published once |
| Edge ingestion (`EA/application/processing.py`, `EA/infrastructure/sqlite_point_state.py`, loop of `EA/application/southbound.py`) | table `point_state_cache`; the processor's in-memory states | process an observation, load, save, append | source emulator, outbox | sequences rise, gaps are explained by stops, drift is not lost |
| Edge configuration (`EA/application/configuration.py`, `EA/infrastructure/mqtt_retained_config.py`) | collected retained messages | collect, validate, build the runtime configuration | MQTT broker | only one consistent set is run, and only a torn one is refused |
| Config outbox (`CR/application/use_cases/config_event_publisher.py`, `config_outbox.py`, `CR/infrastructure/postgres/unit_of_work.py`, `CR/infrastructure/kafka/config_delivery.py`) | table `config_outbox`; batches in memory; messages inside the Kafka producer | store, reserve, publish, mark, operator's retry and dead-letter, delete for an agent | Kafka | a record is published or given up unless its publisher ended; "published" is true; revisions stay in order |
| Config rendering and revisions (`CR/application/use_cases/render_config.py`, `config_revisions.py`, `CR/infrastructure/backoffice_actions.py`) | revision tables | render, store, enter a revision by hand | registry tables, outbox | what is stored is complete but for what was deleted under it |
| Config registry CRUD (`tenants.py`, `assets.py`, `agents.py`, `sources.py`, `points.py`, `registry_graph.py`, both units of work) | registry tables, or dictionaries in memory | create, update, delete, delete a whole agent | API, backoffice | keys are unique, references exist, a deletion leaves nothing behind |
| Config delivery (`src/infra/local/redpanda-connect/kafka-to-mqtt-config.yaml`, `source-config-snapshot.yaml`) | retained messages, consumer offsets | forward a record, project a snapshot | Kafka, MQTT | the last record is what is retained |
| Telemetry ingestion (`src/infra/local/redpanda-connect/mqtt-to-kafka.yaml`) | cache of source configs | cache a config, enrich an event | MQTT, Kafka | an event is enriched with what it was made under, and none is missed without a reason |
| Asset graph and catalog (`AG/application/use_cases/asset_graph.py`, `catalog.py`, `AG/infrastructure/postgres/`, `AG/api/routers/`) | five tables without foreign keys | create, update, move, delete | API, Config Registry lookup | only what two overlapping requests contested can dangle; without overlap nothing does and the catalog is a forest |
| Telemetry store migrations (`src/tools/idp_telemetry_store`) | ledger table in ClickHouse | apply pending | ClickHouse | each migration is applied once, in order |
| KNX source emulator, synthetic config, demo stack, KNX demo, KNX project parser | connections, files | serve, seed, reset, parse | | |

A config travels registry tables, outbox, Kafka topic, retained MQTT messages, agent; a
measurement travels emulator, processor, edge outbox, MQTT, ingestion, Kafka, store. The two
meet at ingestion, which enriches a measurement with the config it was made under.

What is hard: several processes share one SQLite file or one PostgreSQL table and hold leases
that nothing enforces; marks are read-modify-write; publishers time out while the message is
still on its way; clocks differ; processes stop between two writes; use cases check and then
act without locks; a config is several messages of which an agent may see any mixture. The
hazards, each with its line and the properties that watch it, are in `PROJECT.json`.

## 2. Modules

| Module | Stands for |
| --- | --- |
| `EventDelivery` | the abstract promise of the edge outbox: tries, what arrived of them, earned outcomes |
| `EdgeOutbox` | the SQLite outbox and its delivery workers; implements `EventDelivery` |
| `EdgeOutboxProofs` | its inductive invariant, four safety properties, finality and the refinement, proved |
| `EdgeIngestion` | observation processor, point state cache and the append |
| `EdgeIngestionProofs` | sequence order, gaps, drift and the cache's counter, proved |
| `ConfigOutbox` | the config outbox, its publishers, the Kafka producer and the operator |
| `ConfigOutboxProofs` | its seven safety properties, and that only what was stored goes out, proved |
| `SerialRegistry` | the abstract promise of the Config Registry: use cases that run one at a time |
| `ConfigRegistry` | the registry on Postgres, its use cases overlapping; implements `SerialRegistry` |
| `ConfigRegistryProofs` | unique codes, true references and true repeated codes, proved |
| `ConfigStoringProofs` | what a storing transaction may leave out, proved |
| `ConfigRefinementProofs` | that the tables implement `SerialRegistry`, proved |
| `ConfigDelivery` | from the config topic to the agent that runs a config and the pipeline that enriches with it |
| `ConfigDeliveryProofs` | all its properties, proved |
| `AssetGraph` | the asset graph and the catalog tree of one tenant under concurrent requests |
| `AssetGraphProofs` | what overlap can lose, and sound references and the forest without it, proved |
| `MC*` | small instances and symmetry for TLC |

### EdgeOutbox

One action per method of `SQLiteOutbox`, each one SQLite transaction, and one per step of
`DeliveryWorker` between two of them. `held` is what a worker's list of records says:
the `attempt_count` read at reservation, or 0. `pc` is where it is: `publish` (about to
publish the first record of its batch), `acked` or `failed` (about to mark it). Instants are
relative: `Tick` brings every instant one second nearer and forgets differences beyond
`Horizon`, which `ClockAssumption` shows to be exact. `NowOffset` gives each worker its
possible clocks: 0 for `deliver-once`, others for the source adapter, which passes the time of
the observation (`southbound.py:122`).

`queued` holds the messages that failed publishes have left in a worker's MQTT client, at most
`MaxQueued` in all. `Transmit` is the client sending one of them: late, or once more after a
reconnect, since a message of QoS 1 (the only value the bootstrap schema allows) is repeated
until its PUBACK comes. So an attempt may be received any number of times, and a publish that
returns may have been sent more than once before. `delivered` is the set of attempts received at
least once: how often the broker saw one of them is not counted, because nothing in the code
bounds it. What the code does bound, and `OnePublishPerAttempt` states, is how often it hands an
attempt to a client.

`EventDelivery` knows only outcomes, tries and which tries have arrived, each any number of
times. The refinement mapping reads the outcome off the row's status and the tries off
`attempt_count`. Its `Reopen` step admits what the code really does: a slow worker's
`mark_retry` can turn a sent row back to pending, though only after a second try.

### EdgeIngestion

`hot` is `ObservationProcessor._states`, `cache` the table, `enqueued` the events appended per
point. Reading, saving and appending are separate steps because they are separate SQLite
connections; `Restart` may strike between any two.

### ConfigOutbox

A reservation is one step (`FOR UPDATE SKIP LOCKED` and commit). A mark is two: `ReadRow`
(`session.get`) and `WriteRow` (flush and commit), which writes only the columns that differ
from what was read, so two marks of one row can mix. `outcome` is what the delivery callback
has reported; `queue` is what earlier flush timeouts have left in the producer, which both
delays messages and makes the next `publish` raise. The producer has `acks=all` and no
`enable.idempotence`: `MessageResent` is a message that was written and whose answer was lost,
which librdkafka sends again (`resent` counts them, `MaxResends` bounds them).

A batch mixes the records of all agents, `AgentOf` names the agent of each revision, and
`DeleteForAgent(agent)` takes that agent's rows alone. If it falls between the read and the flush
of a mark, `WriteStale` ends the publisher, and what its batch still held stays inflight: the other
agents' records too. `stale` counts these ends as `crashes` counts the others. Of the publishers,
those in `Polling` run the worker loop, the others a `-batch` command that nobody need run again.
`OperatorReads` and `OperatorWrites` are the backoffice actions on any record. `NoLease` is a NULL
`lease_expires_at`.

### ConfigRegistry and SerialRegistry

A use case is one unit of work, and each unit of work one transaction at READ COMMITTED. Its
checks are a `Begin...` action that fills the client's `session`; its writes and the commit are
an action of their own (`AddPoint`, `DropSource`, ...), before which other clients may commit.
The writes look up the rows again, as the repositories do, and store nothing where the owner is
gone. Unique and foreign keys are conjuncts of the writes; a write they refuse is an `Abort`.
`Render` and the storing of what it rendered are two units of work of one call
(`backoffice_actions.py`). The storing transaction is as many steps as it has lookups, since READ
COMMITTED lets others commit between any two: `BeginStore` checks for a duplicate and finds the
agent, `StoreSourceRevision` looks up one source and the runtime revision by their codes,
`StoreRecord` the owner of one outbox record, and `StoreOutbox` is the commit alone. `left` is
what is still to be looked up, `kept` and `records` what was found. The inserts take key-share
locks on the agent and the sources (`LockedAgents`, `LockedSources`), which from then on nobody
else can delete; where the first lookup found no agent there is no such lock, and an agent that is
created meanwhile gets what the later lookups find (`OfRuntime`: a runtime revision of that name,
the transaction's own or one entered by hand). `SetPoint` writes back the key it was given or
read, over one another client has set since. `lost` is history: what was deleted since a client
rendered. `MaxLeaves` bounds sources and points together, `RowId` the rows of a table.

`SerialRegistry` is the in-memory unit of work: dictionaries keyed by codes, no rollback, and no
await that waits, so that a use case runs to its end alone. The mapping replaces rows by the codes
they are found under (`AgentPathOf`, `PointAt`, `RuntimeAt`, ... ). Two abstract steps are not what
one would write down first, and are there because the code does it: `StoreRendered` may leave out
what has vanished since the render, and stores for an agent created anew what its lookups found
there; and `DeleteRecordsOnly` takes away the outbox records of an agent the graph delete never
saw.

### ConfigDelivery

The composition of everything between the outbox and the event topic. `Publish` is all that is
assumed of `ConfigOutbox`: any record of a config that was ever stored, in any order, up to
`MaxCopies` times: `RevisionsKeepOrder` (violated) says that there is no order, `CopiesAreBounded`
that there are copies, the theorem `OnlyStoredIsLogged` that nothing else goes out. `DeliverEvent`
is all that is assumed of `EdgeOutbox`: any event, at any time. `ForwardRecord` is
`kafka-to-mqtt-config.yaml`, `retained` the broker's retained messages, `feed` and `inbox` the
ordered streams the broker sends to ingestion and to the agent. The collector subscribes in two
steps, runtime topic first, and keeps what it has collected when the connection is made again. The
cache of ingestion has two inputs: source configs that pass by on MQTT, and the snapshots, which a
new process reads from the beginning and of which compaction may have left only the newest.

A payload is what it was rendered from: its name (owner and revision), the sources it lists, and
an `edition`, which stands for the points and all that is said of them. Of the configs the
registry has (`stored`) no two share a name; that is the duplicate check of
`StoreRenderedAgentRuntimeConfig`. But `DeleteAgentRegistryGraph` takes an agent's revisions and
records away, after which a name may be given anew, to another edition, while what was logged,
forwarded, retained and cached under it stays (`rendered` is everything ever stored, `freed` the
names deleted). Ingestion reads editions in one place: an event whose source config it has in
another edition is enriched if its point is in that one too, and is an error
(`point_not_in_source_config`) if not. `EnrichEvent` leaves both open.

Faults are actions that spend the budget `MaxFaults`: the forwarder falls behind its offset, the
agent or ingestion loses its connection, ingestion restarts, a cache entry expires, an agent's
graph is deleted. Four histories name the excuses: `calm` (the agent began on one coherent set
that is still in place), `gap` and `expired` (what ingestion missed or dropped), `freed`.
Connection settings are left out, since nothing in this module reads them.

### AssetGraph

A request is: all the reads of its use case (`Begin`), for an update the repository's own
select (`Select`), and the flush with the commit (`Commit`), or a `Rollback`. `Flushed` writes the
columns in which the new row differs from the selected one, so that two updates of one row can
each write half. A commit that the unique constraints of bindings refuse writes nothing
(`WriteBinding`). `NodeRequests` to `CatalogRequests` are the routers: which use cases a client may
call.

Nothing but the use cases' own checks protects references. Two histories say when they can fail.
`races` counts the requests begun while another was under way. `contested` collects the rows that
one request deleted and another named while both were under way, and the attribute of a binding of
which two updates wrote half each (`Mixed`): `DanglingWasContested` says that no other row can be
missed. The reads of one use case are taken together, though READ COMMITTED lets each see a later
state. What that leaves out is a request that finds one table as it was before, and another as it
was after, commits of others: say a node's deletion, between whose two reads the node lost a
relationship and got an attribute. Such a commit falls while the deletion is under way and names
the row it deletes, so what it could lose is contested too.

## 3. Runs

| Run | Instance | Shows |
| --- | --- | --- |
| `edge_outbox_batches` | 2 workers, 2 events, batches of 2, 2 messages left in clients, no crash | a batch is interrupted by its own lease running out and by a second worker, messages arrive late and again; the four safety properties |
| `edge_outbox_live` | 2 workers on 2 clocks, 1 event, 2 messages left in clients, 1 crash | liveness, finality and refinement; the inductive invariant that is proved |
| `edge_ingestion` | 1 process, restarted at most twice, values around the threshold | order, gaps, drift |
| `edge_ingestion_cache` (violation) | same | the cache may name an event that does not exist |
| `config_outbox_live` | 2 publishers of which 1 polls, 2 agents with 1 record each, batches of 2, 1 crash, deletions | limits, finality, who strands records, and liveness without an operator |
| `config_outbox_operator` | 2 publishers, 1 record, 2 operator actions, 1 message sent again, 1 crash | what survives an operator; copies |
| `config_outbox_lease` (violation) | 1 crash | an expired lease is never given back |
| `config_outbox_order` (violation) | 2 publishers, 2 revisions of one scope | revisions overtake each other |
| `config_registry` | 2 clients, one chain of tenant, asset and agent, 2 sources, 1 point, 2 keys, 1 revision; 2 rows a table, 3 sources and points at once | codes, references and repeated codes hold under any overlap; a stored config loses only what was deleted under it; the tables implement the serial directory |
| `config_delivery` | 2 assets that share an agent code, 2 revisions, 2 sources, 2 renders of 1 source each, 1 start, 1 event, 1 fault anywhere (a deletion included) | an agent runs one render or refuses a torn set; enrichment is true; misses have an excuse; both pipelines catch up |
| `asset_graph` | 2 clients, 2 nodes, 2 keys, 1 relationship, 2 bindings, 1 point, 2 catalog nodes, 1 overlap | what overlap can lose; references and forest without |
| `asset_graph_cycle` (violation) | 2 clients, 2 catalog nodes | overlapping requests close a circle |

The bounds are the smallest at which the cases happen: two workers for a lease to be taken over,
two attempts for a retry and a limit, a batch of two for a lease that runs out in the middle, two
agents for a deletion that strands another's record, two nodes with two keys for a binding of which
two updates write half each. Two catalog nodes are enough for a parent, a child and a circle;
larger trees are covered by the proof of `CatalogIsForest`. In `config_registry` two clients are
enough for one to commit between another's checks, lookups and writes; two rows a table let an
agent be created anew under the code of one that is being deleted; three leaves are two sources of
which one has the point. The step of storing that needs the most (a revision with two sources of
which one is deleted in between) fits into it. In `config_delivery` two renders are what a torn set
is made of, by one asset (an old and a new revision, or one name with two editions) or by two; each
fault is tried at every point of every such behaviour, one at a time; any number of them together
is covered by the proofs. The deadlock check is off where the bounded model comes to its end:
`MCEdgeIngestion.cfg` stops after `MaxObservations`, `MCConfigDelivery.cfg` when everything is
published and delivered, `MCConfigRegistry.cfg` when rows run out.

Fairness. Both outboxes assume that time passes and that a batch that was begun carries on: a
publish comes back, if only by its timeout, and its outcome is marked. They differ in who begins
one. Of `EdgeOutbox` nothing is assumed: `deliver-once` runs one batch and exits
(`cli.py:203-230`), and the adapter delivers only after an observation it published
(`southbound.py:116-123`). Hence `NeverOutOfReach` and not that every event is settled: a stored
event is, again and again, settled or such that whoever calls `deliver_once` now finds it due, for
every worker and clock. An event that nothing comes after may stay pending for ever. Of
`ConfigOutbox` a publisher in `Polling` reserves again: `publish-config-outbox-worker` is an
endless loop (`__main__.py:98-138`) whose container is restarted when it ends
(`infra/local/compose.yaml`, `restart: unless-stopped`). There `EventuallySettled` holds with a
crash and with deletions, up to what a publisher that ended has left (`Abandoned`), of which
`InflightIsHeld` says how much and `config_outbox_lease` that it never comes back. Nothing is
assumed of the broker, of late messages, of crashes or of operators. `ConfigRegistry`,
`ConfigDelivery` and `AssetGraph` state safety only. A client need not call, and an agent that
refuses a set stops: that it ever gets a whole set depends on someone starting it again, which no
code does.

## 4. Proofs

`EdgeOutboxProofs`. `IndInv` relates the table (a lease exactly while inflight), the workers'
memory (no attempt is held that the table has not counted, no attempt has two holders) and the
messages in the clients (an unpublished attempt has none, a message is in one client's memory, an
acknowledged one has arrived). Each property alone is not inductive: that `mark_sent` is truthful
needs `AckedHasArrived`; that a dead letter was tried often enough needs `HeldIsCounted`, because
the worker that gives up compares its own old count. From `IndInv` follow the safety properties and
the step simulation of `EventDelivery`. `SentIsFinal` is a case split over the writers of a row:
the recovery and the reservation choose rows of other statuses, and a mark is written by a worker
that holds the record.

`EdgeIngestionProofs`. Under `OneProcess` (two processes do interfere, and the code does nothing
about it) `MemoryAgrees`, `SaveCounts` and `EventsAreCounted` give rising sequences.
`HeardInv` adds that the cached and the remembered value are close to what was last heard, and
that an event with the sequence number of a row has the value that row has published; hence no
drift past the threshold goes unheard. Missing numbers are counted against the appends that a
restart has cut off, hence every gap has a restart of its own.

`ConfigRegistryProofs`. `IndInv` is the conjunction of the run's invariants with `AllNamed` (a
unit of work has the arguments of its use case) and `HeldRows` (the rows a storing transaction
has locked are still there, under the codes by which it found them). `CodesAgree` is what would
break without the locks: the stored rows repeat codes that were read two steps earlier.
`LookupsPersist` says which lookups survive a deletion elsewhere, and the lemmas after it are
one per action.

`ConfigDeliveryProofs`. `AcceptedIsOneRender` holds because every message in flight, retained, or
collected was logged and so belongs to a render (`MessagesAreLogged`), and two renders share a name
only if the registry has deleted one of that name: the exception that this theorem and the next two
state, and all that it excepts. `RefusedOnlyIfTorn` needs that while `calm`, all the agent has or
is being sent is of one set. `MissedOnlyAfterGap` is the deepest: without a gap, whatever is ahead
of an event in the feed or already in the cache includes the config it was observed under
(`NothingMissed`), which rests on the broker's one ordered stream to ingestion and on the agent
learning of a config only from a message that was forwarded to ingestion too. `CaughtUpIsNewest`
and `ReplayRestoresCache` follow from `PassedIsRetained` and `ReadIsCached`, which say as much of
every position a pipeline has come to.

`AssetGraphProofs`. `DanglingWasContested` is about any overlap, so no state of the tables can be
assumed legal. Its invariant `ContestsKept` adds to it that what a pending write names exists or is
contested, and that of what a pending write deletes only contested rows are referred to. A commit
can only take away what its request removes and only make rows refer to what it names or what was
there (`CommitRemoves`, `CommitNames`, with `Mixed` for a row of two halves), and it puts the
meeting of the two into `contested`; one lemma per part of a row says so.

`PendingIsLegal` says that while nothing has overlapped the one pending write is still as legal as
when it was checked; with it each kind of commit keeps every reference alive. `GrowsAsForest` is
the same argument for the catalog: a pending write adds a node below one that is there, moves a
node where `MayAdopt` allows, or deletes one without children. `Descendants` is the least set that
holds the children and is closed under them, so that what a move does to it needs no induction over
paths: below a node whose branch the moved one joins there is, besides what was there, at most the
moved branch, and since the new parent was not in that branch no node comes to lie below itself.

`ConfigStoringProofs`. `RendersFollow`: every source that a client's render has listed, and that
nobody has deleted since, is still found; once the storing transaction has locked its agent it
has found one, and once it has locked its sources every such source is among them. The rest is
`IndInv` of `ConfigRegistryProofs`, above all that a locked row stays.

`ConfigRefinementProofs`. Every row is seen by the codes on the way to it. `Mapped`, which follows
from `IndInv`, says that a row is found by the codes it is mapped to and by no others, so that a
check on rows is the same check on paths. `PathsPersist`: a row that stays keeps its path, because
a deletion elsewhere cannot take away what it hangs on. `SeenAsBefore` and `PathsAfter` turn that
into what becomes of each set of paths. Then there is one lemma per commit, which shows it to be
one use case of `SerialRegistry` or nothing at all: a create whose parent has gone stores nothing;
a delete that finds its row gone deletes nothing. Two commits are not the use case they were called
as. `DeleteAgentRegistryGraph`, when it found no agent, is the whole deletion if there is none now
and `DeleteRecordsOnly` if one has appeared. A storing transaction is one abstract `StoreRendered`,
taken at its commit: the lookups before it change no table, the rows they found and locked are
still there (`HeldRows`, `KeptAt`), and a record that names no source is one of an agent
(`RecordsNamed`, an invariant of its own).

`ConfigOutboxProofs`. `Invariant` has six parts. `Shape` types a batch. `Earned`: a record that is
or is about to be marked published, by anyone, has been logged. `Hands`: the publishers that hold a
record, plus one if it is open to reservation or an operator has read it, are at most one more than
the operators' actions on it. `Strand`: an inflight record without a holder was left by a crash, at
most a batch for each, or by a publisher that a deletion ended, at most a batch less the deleted
record for each; a holder that would leave the row as it is because it has read its own verdict
there does not count. `Count`: without an operator, `attempt_count` is the number of failed
publishes, and the marks that are open know it. `Afford`: copies in the topic and on their way are
no more than the failures, the messages sent again, and one for an acknowledged publish.
`OnlyStoredIsLogged` is about the seam to `ConfigDelivery` and follows from `Shape` and
`OnlyStoredGoesOut`, which says the same of the messages still in the producers. All but liveness
is proved for any number of publishers, records, crashes and operators' actions.

What the proofs assume is named: `ASSUME`s on the constants (positive bounds, finite sets where
something is counted) and `OneProcess`. The theorems are about `Spec`; the live runs check
`FairSpec`, which implies it.

Only model-checked: liveness (`NeverOutOfReach` and `EventuallySettled`), since the prover handles
neither `ENABLED` nor fairness. Every other property of a passing run is a theorem.

## 5. Where code and documents disagree

Four runs end in a violation on purpose and are listed under `findings` in `PROJECT.json`: the
point state cache, the expired lease, the order of revisions and the catalog cycles.

Other things the models had to admit, which no document denies:

- `DeleteAgentRegistryGraph` deletes outbox records by the agent's codes even when it has found
  no agent (`registry_graph.py:62`). An agent created and rendered while the call runs keeps its
  revision, which then is never published (`DeleteRecordsOnly`).
- `StoreRenderedAgentRuntimeConfig` skips what it does not find: a vanished source loses its
  revision and record, and an agent that was deleted and created anew in the meantime gets
  outbox records without a stored revision, and source revisions if a runtime revision of that
  name has been entered by hand.
- Creates whose parent vanishes after the check, and source revisions of an unknown runtime
  revision, succeed and store nothing.
- A source revision name the caller chose may collide; the render route lets the unique
  violation through untranslated.
- Retained topics carry the agent code alone (`render_config.py:360`), which is unique only
  within its asset: agents of two assets overwrite each other's configs, and each refuses or
  runs what came last.
- Retained messages are never cleared: a deleted agent's config stays on the broker. If its agent
  is then created anew and rendered under an old revision name with other content, an old source
  payload beside the new runtime payload passes every check (`configuration.py:360-388`) and the
  agent runs the mixture; and the new cache entry replaces the old one, so that an event of an
  agent that runs on is enriched with other content or refused as `point_not_in_source_config`,
  with no gap at all.
- Deleting an agent while a publisher is between the read and the flush of a mark on its record
  ends that publisher, and the other agents' records of its batch stay inflight for good.
- No code begins another delivery when an event was rescheduled: the last event before a source
  falls silent may stay pending.
- Two overlapping updates of a telemetry binding can leave it at an attribute neither of them
  named, which need not exist.
- The Kafka producer is not idempotent and the MQTT client repeats unacknowledged messages: topics
  may hold a message more often than it was published.
- A torn set of retained messages that records logged out of order have left behind is refused
  at every start, until someone renders anew.
- A cache entry of ingestion lives 24 hours from when it was set and is not refreshed by use; of
  a compacted topic a restart gets back the newest revision of each source only. Telemetry of an
  older one goes to the errors from then on.
- What agents deliver while ingestion is disconnected is lost, since its session is a clean one.

## 6. Not modelled, and the plan

Left out of the modelled components: names, descriptions, settings and statuses, which no check
reads; the selects of one `Render`, and the reads of one asset graph use case, which READ COMMITTED
lets see different states;
the rejection of malformed messages, frames and files; connection and status messages, which no
code publishes yet; the Config Registry lookup of the asset graph, an HTTP call outside its
transactions; HTTP routing, schemas and backoffice views beyond which use case they call.

Left out for good: payload formats, the KNX demo and the project parser (sequential I/O), the
source emulator and the demo stack (test doubles), the synthetic seeder (a list of registry
calls), the telemetry store's migrations (one loop; its one hazard is listed).

Next, in this order:

1. Compose `AssetGraph` with the part of `ConfigRegistry` that its lookup reads, so that a stale
   `reference_status` can be stated.
2. Larger instances: two agents under one asset in `config_registry`, three sources in
   `config_delivery`.
3. The migrations of the telemetry store, with a crash between a statement and its ledger entry.
