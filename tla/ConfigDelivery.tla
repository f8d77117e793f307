--------------------------- MODULE ConfigDelivery ---------------------------
(***************************************************************************)
(* How a rendered config reaches the agent that runs it and the pipeline   *)
(* that enriches its telemetry.                                            *)
(*                                                                         *)
(* The publishers of ConfigOutbox log one record for the runtime config    *)
(* and one for each source, in no order one can rely on.  From the Kafka   *)
(* topic one pipeline sets the retained MQTT message of each record's      *)
(* topic, another one feeds the snapshots that the ingestion pipeline      *)
(* caches.  An agent that starts collects retained messages until it has a *)
(* set that looks complete, and accepts or refuses it; it never looks      *)
(* again.  What it observes travels with the revision of its source, and   *)
(* ingestion looks that revision up in its cache.                          *)
(*                                                                         *)
(* The retained topics name an agent by its code alone, which is unique    *)
(* only within its asset: this is one agent code, used by every Owner (an  *)
(* asset of a tenant).  A payload is what it was rendered from: a name, the *)
(* sources listed, and the edition, which stands for the points and all    *)
(* that is said of them.                                                   *)
(*                                                                         *)
(* Left out: connection settings and the schema of payloads; connection    *)
(* and status messages, which no code publishes yet; malformed messages.   *)
(***************************************************************************)
EXTENDS Naturals, Sequences, FiniteSets

CONSTANTS Owner, Rev, Source, AgentScope, None,
          MaxRenders, MaxLists, MaxCopies, MaxStarts, MaxEvents, MaxFaults  \* bounds

ASSUME ScopeAssumption == AgentScope \notin Source /\ IsFiniteSet(Source)

Scope == Source \union {AgentScope}
\* The contents that are rendered under one name, in the order they come up.
Edition == 0..MaxRenders
Config == [owner : Owner, rev : Rev, lists : SUBSET Source, edition : Edition]
Message == [config : Config, scope : Scope]

ASSUME NoneAssumption == None \notin Message

VARIABLES
    rendered,     \* history: the configs the registry has ever stored
    stored,       \* those it has still
    freed,        \* history: names of configs it has deleted
    configs,      \* the topic idp.edge.configs.v1
    forwarded,    \* how far kafka-to-mqtt-config has come in it
    retained,     \* the broker's retained message of each topic
    phase,        \* what the agent does, or how its last start ended
    subscribed,   \* the topics it has subscribed to
    inbox,        \* messages on their way to it
    docs,         \* the payloads it has collected, then those it runs
    pending,      \* events in its outbox
    online,       \* whether the ingestion pipeline is connected to the broker
    feed,         \* messages on their way to it
    snapshots,    \* how far it has read the snapshots made of the records
    cache,        \* its cache of source configs
    enriched,     \* the topic idp.telemetry.events.v1
    errors,       \* the topic idp.ingestion.errors.v1
    calm,         \* history: the agent began on one coherent set, still in place
    expired,      \* history: keys the cache has dropped and not set again
    gap,          \* history: the pipeline missed or dropped something
    starts, emitted, faults     \* counters that bound the model

agent == <<phase, subscribed, inbox, docs, calm, starts>>
telemetry == <<pending, emitted, enriched, errors>>
ingestion == <<online, feed, snapshots, cache, expired, gap>>
broker == <<forwarded, retained>>
registry == <<rendered, stored, freed, configs>>
vars == <<registry, broker, agent, telemetry, ingestion, faults>>

\* What disturbs the course of things: restarts, lost connections, the expiry of
\* entries, the deletion of a graph.
Fault == faults < MaxFaults /\ faults' = faults + 1

\* What events and source configs have in common: a revision of a source.  An
\* event does not carry the edition: it is the one it was observed under.
Item == [what : {"config", "event"}, owner : Owner, source : Source, rev : Rev,
         edition : Edition]

ItemOf(m) == [what |-> "config", owner |-> m.config.owner, source |-> m.scope,
              rev |-> m.config.rev, edition |-> m.config.edition]

-----------------------------------------------------------------------------
(* The registry and its topic.                                             *)

\* A config is known by its owner and revision.
Name(c) == <<c.owner, c.rev>>

\* Of what the registry has, a name is of one config, which lists a source.  The
\* content is one the name has had before or another.
Render(c) ==
    /\ Cardinality(rendered \union {c}) <= MaxRenders
    /\ c.lists # {} /\ Cardinality(c.lists) <= MaxLists
    /\ \A d \in stored : Name(d) # Name(c)
    /\ c.edition <= Cardinality({d.edition : d \in {d \in rendered : Name(d) = Name(c)}})
    /\ rendered' = rendered \union {c} /\ stored' = stored \union {c}
    /\ UNCHANGED <<freed, configs, broker, agent, telemetry, ingestion, faults>>

\* The revisions and the outbox records of an agent go, and their names may be
\* given anew; what was logged, forwarded, retained and cached stays.
DeleteAgentRegistryGraph(o) ==
    LET gone == {c \in stored : c.owner = o} IN
    /\ Fault
    /\ gone # {} /\ Cardinality(rendered) < MaxRenders
    /\ stored' = stored \ gone
    /\ freed' = freed \union {Name(c) : c \in gone}
    /\ UNCHANGED <<rendered, configs, broker, agent, telemetry, ingestion>>

\* ConfigOutbox: in any order, more than once, and by a publisher that has taken
\* the record also after it is deleted.
Publish(m) ==
    /\ m.config \in rendered
    /\ m.scope \in m.config.lists \union {AgentScope}
    /\ Cardinality({i \in 1..Len(configs) : configs[i] = m}) < MaxCopies
    /\ configs' = Append(configs, m)
    /\ UNCHANGED <<rendered, stored, freed, broker, agent, telemetry, ingestion,
                   faults>>

\* The topics are compacted by key: a record that has a successor may be gone.
Superseded(i) ==
    \E j \in (i + 1)..Len(configs) :
        <<configs[j].config.owner, configs[j].scope>>
            = <<configs[i].config.owner, configs[i].scope>>

-----------------------------------------------------------------------------
(* kafka-to-mqtt-config: from records to retained messages.                *)

\* Fault: a pipeline that restarts begins at the end of the topic.
ResumesAtEnd(k) == k = Len(configs)

\* The broker replaces the retained message and passes it to the subscribers;
\* ingestion takes the message of a runtime config and drops it.
ForwardRecord ==
    LET m == configs[forwarded + 1] IN
    /\ forwarded < Len(configs)
    /\ forwarded' = forwarded + 1
    /\ retained' = [retained EXCEPT ![m.scope] = m]
    /\ inbox' = IF m.scope \in subscribed THEN Append(inbox, m) ELSE inbox
    /\ feed' = IF online /\ m.scope # AgentScope
               THEN Append(feed, ItemOf(m)) ELSE feed
    /\ calm' = (calm /\ (phase = "collecting" => retained[m.scope] = m))
    /\ UNCHANGED <<registry, phase, subscribed, docs, starts, telemetry,
                   online, snapshots, cache, expired, gap, faults>>

SkipCompacted ==
    /\ forwarded < Len(configs) /\ Superseded(forwarded + 1)
    /\ forwarded' = forwarded + 1
    /\ UNCHANGED <<registry, retained, agent, telemetry, ingestion, faults>>

\* The offset committed for the consumer group lags behind what was forwarded.
Resumes(k) == k \in 0..(forwarded - 1)

RestartForwarder ==
    /\ Fault
    /\ forwarded > 0
    /\ \E k \in 0..Len(configs) : Resumes(k) /\ forwarded' = k
    /\ UNCHANGED <<registry, retained, agent, telemetry, ingestion>>

-----------------------------------------------------------------------------
(* The agent: RetainedConfigLoader, then build_agent_runtime_config.       *)

\* One set: a runtime config and every source it lists, of one render.
Coherent(messages) ==
    LET runtime == messages[AgentScope] IN
    /\ runtime # None
    /\ \A s \in runtime.config.lists :
            messages[s] # None /\ messages[s].config = runtime.config

NoDocs == [t \in Scope |-> None]

\* The session is a clean one: nothing is left of an earlier start.
StartAgent ==
    /\ phase \notin {"collecting", "running"} /\ starts < MaxStarts
    /\ starts' = starts + 1
    /\ phase' = "collecting" /\ docs' = NoDocs
    /\ subscribed' = {} /\ inbox' = <<>>
    /\ calm' = Coherent(retained)
    /\ UNCHANGED <<registry, broker, telemetry, ingestion, faults>>

\* The retained messages of these topics, in the order the broker likes.
Orders(set) ==
    {q \in [1..Cardinality(set) -> set] : \A x \in set : \E i \in DOMAIN q : q[i] = x}

RetainedOf(topics) == {retained[t] : t \in {t \in topics : retained[t] # None}}

\* on_connect subscribes to the runtime topic, then to all source topics.
Subscribe ==
    /\ phase = "collecting"
    /\ \E topics \in {{AgentScope}, Source} :
        /\ subscribed = IF topics = {AgentScope} THEN {} ELSE {AgentScope}
        /\ subscribed' = subscribed \union topics
        /\ \E q \in Orders(RetainedOf(topics)) : inbox' = inbox \o q
    /\ UNCHANGED <<registry, broker, phase, docs, calm, starts,
                   telemetry, ingestion, faults>>

\* The last payload of a topic counts.
OnMessage ==
    /\ phase = "collecting" /\ inbox # <<>>
    /\ docs' = [docs EXCEPT ![Head(inbox).scope] = Head(inbox)]
    /\ inbox' = Tail(inbox)
    /\ UNCHANGED <<registry, broker, phase, subscribed, calm, starts,
                   telemetry, ingestion, faults>>

\* A lost connection is an error only before the runtime config has come;
\* later the client connects anew, and keeps what it has collected.
OnDisconnect ==
    /\ Fault
    /\ phase = "collecting"
    /\ \/ docs[AgentScope] # None /\ UNCHANGED <<phase, docs, calm>>
       \/ /\ docs[AgentScope] = None
          /\ phase' = "failed" /\ docs' = NoDocs /\ calm' = FALSE
    /\ subscribed' = {} /\ inbox' = <<>>
    /\ UNCHANGED <<registry, broker, starts, telemetry, ingestion>>

\* Fault: the collector does not wait for the sources.
IsCompleteEarly == docs[AgentScope] # None

IsComplete ==
    /\ docs[AgentScope] # None
    /\ \A s \in docs[AgentScope].config.lists : docs[s] # None

Timeout ==
    /\ phase = "collecting" /\ ~IsComplete
    /\ phase' = "failed"
    /\ subscribed' = {} /\ inbox' = <<>> /\ docs' = NoDocs /\ calm' = FALSE
    /\ UNCHANGED <<registry, broker, starts,
                   telemetry, ingestion, faults>>

\* Fault: only the revision is compared.
MatchesRevision(source, runtime) ==
    source # None /\ source.config.rev = runtime.config.rev

\* What _validate_source_matches_agent_runtime compares.
Matches(source, runtime) ==
    /\ source # None
    /\ source.config.owner = runtime.config.owner
    /\ source.config.rev = runtime.config.rev

\* The runtime config is made of the listed sources only.
Accepted(runtime) ==
    [t \in Scope |-> IF t \in runtime.config.lists \union {AgentScope}
                     THEN docs[t] ELSE None]

BuildAgentRuntimeConfig ==
    LET runtime == docs[AgentScope] IN
    /\ phase = "collecting" /\ IsComplete
    /\ \/ /\ \A s \in runtime.config.lists : Matches(docs[s], runtime)
          /\ phase' = "running" /\ docs' = Accepted(runtime)
          /\ calm' = FALSE
       \/ /\ \E s \in runtime.config.lists : ~Matches(docs[s], runtime)
          /\ phase' = "refused" /\ docs' = NoDocs
          /\ UNCHANGED calm
    /\ subscribed' = {} /\ inbox' = <<>>
    /\ UNCHANGED <<registry, broker, starts, telemetry, ingestion, faults>>

StopAgent ==
    /\ phase = "running"
    /\ phase' = "stopped" /\ docs' = NoDocs
    /\ UNCHANGED <<registry, broker, subscribed, inbox, calm, starts,
                   telemetry, ingestion, faults>>

-----------------------------------------------------------------------------
(* Telemetry: the agent's events and the pipeline mqtt-to-kafka.           *)

\* Topic and payload name the agent's owner and the revision of its source.
Observe(s) ==
    /\ phase = "running" /\ emitted < MaxEvents
    /\ s \in docs[AgentScope].config.lists
    /\ pending' = pending \union
            {[what |-> "event", owner |-> docs[AgentScope].config.owner,
              source |-> s, rev |-> docs[s].config.rev,
              edition |-> docs[s].config.edition]}
    /\ emitted' = emitted + 1
    /\ UNCHANGED <<registry, broker, agent, enriched, errors,
                   ingestion, faults>>

\* EdgeOutbox: in any order, at any later time, under another config too.
\* The broker keeps nothing for a clean session that is not connected.
DeliverEvent(e) ==
    /\ pending' = pending \ {e}
    /\ feed' = IF online THEN Append(feed, e) ELSE feed
    /\ UNCHANGED <<registry, broker, agent, emitted, enriched, errors,
                   online, snapshots, cache, expired, gap, faults>>

\* Fault: the key of the cache leaves the revision out.
CacheKeyOfSource(x) == <<x.owner, x.source>>

CacheKey(x) == <<x.owner, x.source, x.rev>>

Cached(x) ==
    /\ cache' = {y \in cache : y.key # CacheKey(x)}
                    \union {[key |-> CacheKey(x), config |-> x]}
    /\ expired' = expired \ {CacheKey(x)}

Found(e) == {y \in cache : y.key = CacheKey(e)}

\* Fault: the source configs that come over MQTT are dropped.
CacheConfigDropped == UNCHANGED <<cache, expired, enriched, errors>>

CacheConfig == Cached(Head(feed)) /\ UNCHANGED <<enriched, errors>>

\* The event's point is in the edition it was observed under; in another, which
\* has come under the same name, it may be or not: then it is an error, as when
\* there is no entry at all.
EnrichEvent ==
    LET e == Head(feed) IN
    /\ \/ /\ \E y \in Found(e) :
                enriched' = enriched \union {[event |-> e, config |-> y.config]}
          /\ UNCHANGED errors
       \/ /\ \A y \in Found(e) : y.config.edition # e.edition
          /\ errors' = errors \union {e} /\ UNCHANGED enriched
    /\ UNCHANGED <<cache, expired>>

Ingest ==
    /\ feed # <<>>
    /\ \/ Head(feed).what = "config" /\ CacheConfig
       \/ Head(feed).what = "event" /\ EnrichEvent
    /\ feed' = Tail(feed)
    /\ UNCHANGED <<registry, broker, agent, pending, emitted,
                   online, snapshots, gap, faults>>

\* Fault: a snapshot is made of every record.
IsProjectedAlways(m) == TRUE

\* What source-config-snapshot passes on; a record it repeats changes nothing.
IsProjected(m) == m.scope # AgentScope

\* The input of idp.source.configs.v1, each record some time after it is logged.
ReadSnapshot ==
    LET m == configs[snapshots + 1] IN
    /\ snapshots < Len(configs)
    /\ snapshots' = snapshots + 1
    /\ \/ IsProjected(m) /\ Cached(ItemOf(m))
       \/ /\ IsProjected(m) => Superseded(snapshots + 1)
          /\ UNCHANGED <<cache, expired>>
    /\ UNCHANGED <<registry, broker, agent, telemetry,
                   online, feed, gap, faults>>

Disconnect ==
    /\ Fault
    /\ online /\ online' = FALSE
    /\ feed' = <<>> /\ gap' = TRUE
    /\ UNCHANGED <<registry, broker, agent, telemetry,
                   snapshots, cache, expired>>

\* Fault: the snapshots are read on from where the last process stood.
ReadsFromOn == snapshots

\* The snapshots have no consumer group: each process reads from the earliest.
ReadsFrom == 0

RestartIngestion ==
    /\ Fault
    /\ online' = FALSE /\ feed' = <<>> /\ gap' = TRUE
    /\ cache' = {} /\ expired' = {} /\ snapshots' = ReadsFrom
    /\ UNCHANGED <<registry, broker, agent, telemetry>>

\* The broker sends the retained messages again.
Connect ==
    /\ ~online /\ online' = TRUE
    /\ \E q \in Orders({ItemOf(m) : m \in RetainedOf(Source)}) : feed' = q
    /\ UNCHANGED <<registry, broker, agent, telemetry,
                   snapshots, cache, expired, gap, faults>>

\* An entry lives for 24 hours from when it was set, in use or not.
Expire(y) ==
    /\ Fault
    /\ cache' = cache \ {y} /\ expired' = expired \union {y.key} /\ gap' = TRUE
    /\ UNCHANGED <<registry, broker, agent, telemetry,
                   online, feed, snapshots>>

-----------------------------------------------------------------------------
\* The pipelines are up before the first config is rendered.
Init ==
    /\ rendered = {} /\ stored = {} /\ freed = {}
    /\ configs = <<>> /\ forwarded = 0
    /\ retained = [t \in Scope |-> None]
    /\ phase = "stopped" /\ subscribed = {} /\ inbox = <<>> /\ docs = NoDocs
    /\ pending = {} /\ enriched = {} /\ errors = {}
    /\ online = TRUE /\ feed = <<>> /\ snapshots = 0 /\ cache = {}
    /\ calm = FALSE /\ expired = {} /\ gap = FALSE
    /\ starts = 0 /\ emitted = 0 /\ faults = 0

Next ==
    \/ \E c \in Config : Render(c)
    \/ \E o \in Owner : DeleteAgentRegistryGraph(o)
    \/ \E c \in rendered, t \in Scope : Publish([config |-> c, scope |-> t])
    \/ ForwardRecord \/ SkipCompacted \/ RestartForwarder
    \/ StartAgent \/ Subscribe \/ OnMessage \/ OnDisconnect \/ Timeout
    \/ BuildAgentRuntimeConfig \/ StopAgent
    \/ \E s \in Source : Observe(s)
    \/ \E e \in pending : DeliverEvent(e)
    \/ Ingest \/ ReadSnapshot
    \/ Disconnect \/ RestartIngestion \/ Connect
    \/ \E y \in cache : Expire(y)

Spec == Init /\ [][Next]_vars

-----------------------------------------------------------------------------
(* Properties.                                                             *)

\* Topics hold records of stored configs, positions are within them.
TypeOK ==
    /\ rendered \subseteq Config /\ stored \subseteq rendered
    /\ freed \subseteq Owner \X Rev
    /\ configs \in Seq(Message)
    /\ forwarded \in 0..Len(configs) /\ snapshots \in 0..Len(configs)
    /\ retained \in [Scope -> Message \union {None}]
    /\ phase \in {"stopped", "collecting", "running", "refused", "failed"}
    /\ subscribed \in {{}, {AgentScope}, Scope}
    /\ inbox \in Seq(Message) /\ docs \in [Scope -> Message \union {None}]
    /\ pending \subseteq Item /\ errors \subseteq Item
    /\ feed \in Seq(Item)
    /\ cache \subseteq [key : Owner \X Source \X Rev, config : Item]
    /\ enriched \subseteq [event : Item, config : Item]
    /\ expired \subseteq Owner \X Source \X Rev
    /\ online \in BOOLEAN /\ calm \in BOOLEAN /\ gap \in BOOLEAN
    /\ starts \in Nat /\ emitted \in Nat /\ faults \in Nat

\* Whatever the order in which records are logged, forwarded again after a
\* restart and collected, across lost connections and under an agent code that
\* two assets share: an agent runs all sources its runtime config lists and no
\* other, each under the name of that config; and they are of one render, unless
\* the registry has deleted a config of this name.  (Then old payloads that are
\* still retained pass every check beside new ones.)
AcceptedIsOneRender ==
    LET runtime == docs[AgentScope] IN
    phase = "running" =>
        /\ runtime # None /\ runtime.config \in rendered
        /\ \A s \in runtime.config.lists :
                /\ docs[s] # None /\ Name(docs[s].config) = Name(runtime.config)
                /\ docs[s].config = runtime.config \/ Name(runtime.config) \in freed
        /\ \A s \in Source \ runtime.config.lists : docs[s] = None

\* An agent refuses a set only if the retained messages were a torn set when it
\* started or changed under it: what arrives twice, late, or across a new
\* connection is no reason.
RefusedOnlyIfTorn == phase = "refused" => ~calm

\* An event is enriched with the metadata of the revision it was observed
\* under, though the agent and the retained messages may be at another by then;
\* and with those it was observed under, unless the registry has deleted a
\* config of this name.
EnrichedByItsRevision ==
    \A x \in enriched :
        /\ <<x.config.owner, x.config.source, x.config.rev>>
                = <<x.event.owner, x.event.source, x.event.rev>>
        /\ x.config.edition = x.event.edition \/ Name(x.event) \in freed

\* An event is put to the errors only after the pipeline was disconnected or
\* restarted, or an entry of its cache expired, or if the registry has deleted
\* a config of its name: otherwise its own source config has always come before
\* it, and no other in its place.
MissedOnlyAfterGap == \A e \in errors : gap \/ Name(e) \in freed

IsLast(i) == \A j \in (i + 1)..Len(configs) : configs[j].scope # configs[i].scope

\* A forwarder that has caught up, however often it was restarted and went over
\* old records again, has left the last record of each topic as its retained
\* message.
CaughtUpIsNewest ==
    forwarded = Len(configs) =>
        \A i \in 1..Len(configs) : IsLast(i) => retained[configs[i].scope] = configs[i]

\* A pipeline that has read all snapshots, restarted or not, has the last config
\* of every source in its cache, unless the entry has expired since.
ReplayRestoresCache ==
    snapshots = Len(configs) =>
        \A i \in 1..Len(configs) :
            \/ configs[i].scope = AgentScope \/ Superseded(i)
            \/ CacheKey(ItemOf(configs[i])) \in {y.key : y \in cache} \union expired

=============================================================================
