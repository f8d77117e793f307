------------------------ MODULE ConfigDeliveryProofs ------------------------
(***************************************************************************)
(* For any number of owners, revisions, sources, copies, restarts, lost    *)
(* connections and deleted graphs: an agent runs payloads of one name,     *)
(* and of one render unless that name was deleted, refuses only a torn     *)
(* set, and its events are enriched by the revision they were observed     *)
(* under; and what a pipeline that has caught up has restored.             *)
(***************************************************************************)
EXTENDS ConfigDelivery, SequenceTheorems, FiniteSetTheorems, TLAPS

(* A name is given once, and anew only when the config that had it is gone. *)
RevisionsAreStoredOnce ==
    /\ \A c, d \in rendered : Name(c) = Name(d) => c = d \/ Name(c) \in freed
    /\ \A c \in rendered \ stored : Name(c) \in freed

(* What travels was rendered, and is kept under its own topic. *)
Logged == {m \in Message : m.config \in rendered}

Filed(map) ==
    /\ map \in [Scope -> Logged \union {None}]
    /\ \A t \in Scope : map[t] # None => map[t].scope = t

MessagesAreLogged ==
    /\ configs \in Seq(Logged) /\ inbox \in Seq(Logged)
    /\ Filed(retained) /\ Filed(docs)

(* Events and source configs are of what was rendered under their name. *)
Shown == {x \in Item : \E c \in rendered : Name(c) = Name(x) /\ c.edition = x.edition}

ItemsAreShown ==
    /\ feed \in Seq(Shown) /\ pending \subseteq Shown
    /\ \A y \in cache : y.config \in Shown

(* An entry of the cache is found under the revision of its config. *)
EntriesAreKeyed == \A y \in cache : y.key = CacheKey(y.config)

(* The forwarder: of what it has passed the last record of each topic is retained. *)
PassedIsRetained ==
    \A i \in 1..forwarded : IsLast(i) => retained[configs[i].scope] = configs[i]

(* The snapshots read since the last start are in the cache, or have expired. *)
Keys == {y.key : y \in cache}

ReadIsCached ==
    \A i \in 1..snapshots :
        \/ configs[i].scope = AgentScope \/ Superseded(i)
        \/ CacheKey(ItemOf(configs[i])) \in Keys \union expired

(* An agent that began on one coherent set has met nothing else. *)
InPlace == {m \in Message : retained[m.scope] = m}

CalmMeetsOneSet ==
    calm /\ phase = "collecting" =>
        /\ Coherent(retained)
        /\ inbox \in Seq(InPlace)
        /\ \A t \in Scope : docs[t] # None => docs[t] = retained[t]

(* While ingestion has missed nothing, the source config of whatever an agent *)
(* may run, and of whatever it has observed, is in the cache or ahead of it.  *)
ConfigsBefore(j) ==
    {i \in 1..Len(feed) : i < j /\ feed[i].what = "config"}

KnownBefore(j) == Keys \union {CacheKey(feed[i]) : i \in ConfigsBefore(j)}
Known == KnownBefore(Len(feed) + 1)

Announced == {m \in Message : m.scope # AgentScope => CacheKey(ItemOf(m)) \in Known}

NothingMissed ==
    ~gap =>
        /\ online /\ \A e \in errors : Name(e) \in freed
        /\ inbox \in Seq(Announced)
        /\ retained \in [Scope -> Announced \union {None}]
        /\ docs \in [Scope -> Announced \union {None}]
        /\ \A e \in pending : CacheKey(e) \in Known
        /\ \A j \in 1..Len(feed) :
                feed[j].what = "event" => CacheKey(feed[j]) \in KnownBefore(j)

IndInv ==
    /\ TypeOK /\ RevisionsAreStoredOnce /\ MessagesAreLogged
    /\ AcceptedIsOneRender /\ RefusedOnlyIfTorn /\ CalmMeetsOneSet
    /\ ItemsAreShown /\ EntriesAreKeyed /\ EnrichedByItsRevision
    /\ PassedIsRetained /\ ReadIsCached /\ NothingMissed

-----------------------------------------------------------------------------
(* Sequences and orders.                                                   *)

(* An order of a finite set is a sequence of its elements. *)
LEMMA OrderIsSeq ==
  ASSUME NEW S, IsFiniteSet(S), NEW q \in Orders(S) PROVE q \in Seq(S)
<1>1. Cardinality(S) \in Nat
  BY FS_CardinalityType
<1> QED BY <1>1, SeqDef DEF Orders

(* The retained messages of finitely many topics, and their items, are finitely many. *)
LEMMA RetainedIsFinite ==
  ASSUME NEW topics, IsFiniteSet(topics)
  PROVE  /\ IsFiniteSet(RetainedOf(topics))
         /\ IsFiniteSet({ItemOf(m) : m \in RetainedOf(topics)})
<1> DEFINE D == {t \in topics : retained[t] # None}
           f == [t \in D |-> retained[t]]
           g == [m \in RetainedOf(topics) |-> ItemOf(m)]
<1>1. IsFiniteSet(D)
  BY FS_Subset
<1>2. f \in Surjection(D, RetainedOf(topics))
  BY DEF RetainedOf, Surjection
<1>3. IsFiniteSet(RetainedOf(topics))
  BY <1>1, <1>2, FS_Surjection
<1>4. g \in Surjection(RetainedOf(topics), {ItemOf(m) : m \in RetainedOf(topics)})
  BY DEF Surjection
<1> QED BY <1>3, <1>4, FS_Surjection

(* So are those of the topics an agent subscribes to. *)
LEMMA TopicsAreFinite ==
  ASSUME NEW topics \in {{AgentScope}, Source} PROVE IsFiniteSet(topics)
BY ScopeAssumption, FS_Singleton

-----------------------------------------------------------------------------
(* Types.                                                                  *)

(* The item of a source config names its revision. *)
LEMMA ItemTyped ==
  ASSUME NEW m \in Message, m.scope # AgentScope
  PROVE  ItemOf(m) \in Item /\ ItemOf(m).what = "config"
BY DEF Message, Config, Scope, Item, ItemOf

(* The key of an item. *)
LEMMA KeyTyped ==
  ASSUME NEW x \in Item PROVE CacheKey(x) \in Owner \X Source \X Rev
BY DEF Item, CacheKey

(* What is retained can be delivered in any order. *)
LEMMA RetainedIsSeq ==
  ASSUME TypeOK, NEW topics \in {{AgentScope}, Source}, NEW q \in Orders(RetainedOf(topics))
  PROVE  q \in Seq(RetainedOf(topics)) /\ RetainedOf(topics) \subseteq Message
<1>1. q \in Seq(RetainedOf(topics))
  BY RetainedIsFinite, TopicsAreFinite, OrderIsSeq
<1>2. RetainedOf(topics) \subseteq Message
  BY DEF RetainedOf, TypeOK, Scope
<1> QED BY <1>1, <1>2

(* And so can the items ingestion takes from it. *)
LEMMA RetainedItemsAreSeq ==
  ASSUME TypeOK, MessagesAreLogged,
         NEW q \in Orders({ItemOf(m) : m \in RetainedOf(Source)})
  PROVE  q \in Seq({x \in Item : x.what = "config"})
<1> DEFINE S == {ItemOf(m) : m \in RetainedOf(Source)}
<1>1. q \in Seq(S)
  BY RetainedIsFinite, ScopeAssumption, OrderIsSeq
<1>2. \A m \in RetainedOf(Source) : m \in Message /\ m.scope # AgentScope
  BY ScopeAssumption DEF RetainedOf, TypeOK, MessagesAreLogged, Filed, Scope
<1>3. S \subseteq {x \in Item : x.what = "config"}
  BY <1>2, ItemTyped
<1> QED BY <1>1, <1>3, SeqMonotonic

(* What is put in the cache has its types. *)
LEMMA CachedTyped ==
  ASSUME TypeOK, NEW x \in Item, Cached(x)
  PROVE  /\ cache' \subseteq [key : Owner \X Source \X Rev, config : Item]
         /\ expired' \subseteq Owner \X Source \X Rev
BY KeyTyped DEF TypeOK, Cached

(* Every step keeps the types. *)
LEMMA TypeStep ==
  ASSUME IndInv, [Next]_vars PROVE TypeOK'
<1> USE DEF registry, broker, agent, telemetry, ingestion
<1>0. TypeOK /\ MessagesAreLogged
  BY DEF IndInv
<1>e. <<>> \in Seq(Message) /\ <<>> \in Seq(Item)
  BY EmptySeq
<1>1. ASSUME NEW c \in Config, Render(c) PROVE TypeOK'
  BY <1>0, <1>1 DEF TypeOK, Render
<1>22. ASSUME NEW o \in Owner, DeleteAgentRegistryGraph(o) PROVE TypeOK'
  <2>1. \A c \in rendered : Name(c) \in Owner \X Rev
    BY <1>0 DEF TypeOK, Config, Name
  <2>2. freed' \subseteq Owner \X Rev /\ stored' \subseteq rendered
    BY <1>0, <1>22, <2>1 DEF TypeOK, DeleteAgentRegistryGraph
  <2> QED BY <1>0, <1>22, <2>2 DEF TypeOK, DeleteAgentRegistryGraph, Fault
<1>2. ASSUME NEW c \in rendered, NEW t \in Scope, Publish([config |-> c, scope |-> t])
      PROVE  TypeOK'
  <2>1. [config |-> c, scope |-> t] \in Message
    BY <1>0 DEF TypeOK, Message
  <2>2. configs' \in Seq(Message) /\ Len(configs') = Len(configs) + 1
    BY <1>0, <1>2, <2>1, AppendProperties DEF TypeOK, Publish
  <2>3. Len(configs) \in Nat
    BY <1>0, LenProperties DEF TypeOK
  <2> QED BY <1>0, <1>2, <2>2, <2>3 DEF TypeOK, Publish
<1>3. CASE ForwardRecord
  <2> DEFINE m == configs[forwarded + 1]
  <2>1. m \in Message /\ forwarded + 1 \in 0..Len(configs)
    BY <1>0, <1>3, ElementOfSeq, LenProperties DEF TypeOK, ForwardRecord
  <2>2. inbox' \in Seq(Message)
    BY <1>0, <1>3, <2>1, AppendProperties DEF TypeOK, ForwardRecord
  <2>3. feed' \in Seq(Item)
    BY <1>0, <1>3, <2>1, ItemTyped, AppendProperties DEF TypeOK, ForwardRecord
  <2>4. retained' \in [Scope -> Message \union {None}] /\ forwarded' = forwarded + 1
    BY <1>0, <1>3, <2>1 DEF TypeOK, ForwardRecord, Message
  <2>5. calm' \in BOOLEAN
    BY <1>0, <1>3 DEF TypeOK, ForwardRecord
  <2> HIDE DEF m
  <2> QED BY <1>0, <1>3, <2>1, <2>2, <2>3, <2>4, <2>5 DEF TypeOK, ForwardRecord
<1>4. CASE SkipCompacted
  BY <1>0, <1>4, LenProperties DEF TypeOK, SkipCompacted
<1>5. CASE RestartForwarder
  BY <1>0, <1>5, LenProperties DEF TypeOK, RestartForwarder, Resumes, Fault
<1>6. CASE StartAgent
  BY <1>0, <1>6, <1>e DEF TypeOK, StartAgent, NoDocs, Coherent
<1>7. CASE Subscribe
  <2>1. PICK topics \in {{AgentScope}, Source} :
            /\ subscribed = IF topics = {AgentScope} THEN {} ELSE {AgentScope}
            /\ subscribed' = subscribed \union topics
            /\ \E q \in Orders(RetainedOf(topics)) : inbox' = inbox \o q
    BY <1>0, <1>7 DEF Subscribe
  <2>2. inbox' \in Seq(Message)
    <3>1. PICK q \in Orders(RetainedOf(topics)) : inbox' = inbox \o q
      BY <2>1
    <3>2. q \in Seq(Message)
      BY <1>0, RetainedIsSeq, SeqMonotonic
    <3> QED BY <1>0, <3>1, <3>2, ConcatProperties DEF TypeOK
  <2>3. subscribed' \in {{}, {AgentScope}, Scope}
    BY <2>1 DEF Scope
  <2> QED BY <1>0, <1>7, <2>2, <2>3 DEF TypeOK, Subscribe
<1>8. CASE OnMessage
  <2>1. Head(inbox) \in Message /\ inbox' \in Seq(Message)
    BY <1>0, <1>8, HeadTailProperties DEF TypeOK, OnMessage
  <2>2. docs' \in [Scope -> Message \union {None}]
    BY <1>0, <1>8, <2>1 DEF TypeOK, OnMessage
  <2> QED BY <1>0, <1>8, <2>1, <2>2 DEF TypeOK, OnMessage
<1>9. CASE OnDisconnect
  <2>1. inbox' \in Seq(Message) /\ faults' \in Nat
    BY <1>0, <1>9, <1>e DEF TypeOK, OnDisconnect, Fault
  <2>2. docs' \in [Scope -> Message \union {None}]
    BY <1>0, <1>9 DEF TypeOK, OnDisconnect, NoDocs
  <2> QED BY <1>0, <1>9, <2>1, <2>2 DEF TypeOK, OnDisconnect
<1>10. CASE Timeout
  BY <1>0, <1>10, <1>e DEF TypeOK, Timeout, NoDocs
<1>11. CASE BuildAgentRuntimeConfig
  <2>1. docs' \in [Scope -> Message \union {None}]
    BY <1>0, <1>11 DEF TypeOK, BuildAgentRuntimeConfig, Accepted, NoDocs
  <2> QED BY <1>0, <1>11, <2>1, <1>e DEF TypeOK, BuildAgentRuntimeConfig
<1>12. CASE StopAgent
  BY <1>0, <1>12 DEF TypeOK, StopAgent, NoDocs
<1>13. ASSUME NEW s \in Source, Observe(s) PROVE TypeOK'
  <2>1. [what |-> "event", owner |-> docs[AgentScope].config.owner,
         source |-> s, rev |-> docs[s].config.rev,
         edition |-> docs[s].config.edition] \in Item
    <3>1. docs[AgentScope] \in Message /\ docs[s] \in Message
      BY <1>0, <1>13 DEF IndInv, TypeOK, AcceptedIsOneRender, Observe, Scope
    <3> QED BY <3>1 DEF Message, Config, Item
  <2> QED BY <1>0, <1>13, <2>1 DEF TypeOK, Observe
<1>14. ASSUME NEW e \in pending, DeliverEvent(e) PROVE TypeOK'
  <2>1. feed' \in Seq(Item)
    BY <1>0, <1>14, AppendProperties DEF TypeOK, DeliverEvent
  <2> QED BY <1>0, <1>14, <2>1 DEF TypeOK, DeliverEvent
<1>15. CASE Ingest
  <2>1. Head(feed) \in Item /\ feed' \in Seq(Item)
    BY <1>0, <1>15, HeadTailProperties DEF TypeOK, Ingest
  <2>2. CASE CacheConfig
    <3>1. /\ cache' \subseteq [key : Owner \X Source \X Rev, config : Item]
          /\ expired' \subseteq Owner \X Source \X Rev
      BY <1>0, <2>1, <2>2, CachedTyped DEF CacheConfig
    <3> QED BY <1>0, <1>15, <2>1, <2>2, <3>1 DEF TypeOK, Ingest, CacheConfig
  <2>3. CASE EnrichEvent
    <3>1. \A y \in Found(Head(feed)) : y.config \in Item
      BY <1>0 DEF TypeOK, Found
    <3>2. enriched' \subseteq [event : Item, config : Item] /\ errors' \subseteq Item
      BY <1>0, <2>1, <2>3, <3>1 DEF TypeOK, EnrichEvent
    <3> QED BY <1>0, <1>15, <2>1, <2>3, <3>2 DEF TypeOK, Ingest, EnrichEvent
  <2> QED BY <1>0, <1>15, <2>2, <2>3 DEF Ingest
<1>16. CASE ReadSnapshot
  <2> DEFINE m == configs[snapshots + 1]
  <2>1. m \in Message /\ snapshots + 1 \in 0..Len(configs)
    BY <1>0, <1>16, ElementOfSeq, LenProperties DEF TypeOK, ReadSnapshot
  <2>2. CASE IsProjected(m) /\ Cached(ItemOf(m))
    <3>1. ItemOf(m) \in Item
      BY <2>1, <2>2, ItemTyped DEF IsProjected
    <3>2. /\ cache' \subseteq [key : Owner \X Source \X Rev, config : Item]
          /\ expired' \subseteq Owner \X Source \X Rev
      BY <1>0, <2>2, <3>1, CachedTyped
    <3> QED BY <1>0, <1>16, <2>1, <3>2 DEF TypeOK, ReadSnapshot
  <2>3. CASE UNCHANGED <<cache, expired>>
    BY <1>0, <1>16, <2>1, <2>3 DEF TypeOK, ReadSnapshot
  <2> QED BY <1>0, <1>16, <2>2, <2>3 DEF ReadSnapshot
<1>17. CASE Disconnect
  <2>1. feed' \in Seq(Item) /\ faults' \in Nat
    BY <1>0, <1>17, <1>e DEF TypeOK, Disconnect, Fault
  <2> QED BY <1>0, <1>17, <2>1 DEF TypeOK, Disconnect
<1>18. CASE RestartIngestion
  <2>1. feed' \in Seq(Item) /\ faults' \in Nat
    BY <1>0, <1>18, <1>e DEF TypeOK, RestartIngestion, Fault
  <2>2. snapshots' \in 0..Len(configs')
    BY <1>0, <1>18, LenProperties DEF TypeOK, RestartIngestion, ReadsFrom
  <2> QED BY <1>0, <1>18, <2>1, <2>2 DEF TypeOK, RestartIngestion
<1>19. CASE Connect
  <2>1. feed' \in Seq(Item)
    BY <1>0, <1>19, RetainedItemsAreSeq, SeqMonotonic DEF Connect, IndInv
  <2> QED BY <1>0, <1>19, <2>1 DEF TypeOK, Connect
<1>20. ASSUME NEW y \in cache, Expire(y) PROVE TypeOK'
  BY <1>0, <1>20 DEF TypeOK, Expire, Fault
<1>21. CASE UNCHANGED vars
  BY <1>0, <1>21 DEF TypeOK, vars
<1> QED BY <1>1, <1>2, <1>3, <1>4, <1>5, <1>6, <1>7, <1>8, <1>9, <1>10, <1>11,
     <1>12, <1>13, <1>14, <1>15, <1>16, <1>17, <1>18, <1>19, <1>20, <1>21, <1>22 DEF Next

-----------------------------------------------------------------------------
(* Messages, and what an agent accepts.                                    *)

(* A render leaves everything logged that was. *)
LEMMA LoggedGrows ==
  ASSUME MessagesAreLogged, rendered \subseteq rendered',
         UNCHANGED <<configs, inbox, retained, docs>>
  PROVE  MessagesAreLogged'
<1>1. Logged \subseteq Logged'
  BY DEF Logged
<1>2. configs' \in Seq(Logged') /\ inbox' \in Seq(Logged')
  BY <1>1, SeqMonotonic DEF MessagesAreLogged
<1>3. Filed(retained)' /\ Filed(docs)'
  BY <1>1 DEF MessagesAreLogged, Filed
<1> QED BY <1>2, <1>3 DEF MessagesAreLogged

(* What a topic retains was logged. *)
LEMMA RetainedIsLogged ==
  ASSUME MessagesAreLogged, NEW topics \in {{AgentScope}, Source}
  PROVE  \A m \in RetainedOf(topics) : m \in Logged /\ retained[m.scope] = m
BY DEF RetainedOf, MessagesAreLogged, Filed, Scope

(* A set that is complete and matches is of one name, and of one render unless *)
(* that name was deleted.                                                      *)
LEMMA MatchingIsOneRender ==
  ASSUME RevisionsAreStoredOnce, Filed(docs), IsComplete,
         \A s \in docs[AgentScope].config.lists : Matches(docs[s], docs[AgentScope])
  PROVE  \A s \in docs[AgentScope].config.lists :
            /\ docs[s] # None /\ Name(docs[s].config) = Name(docs[AgentScope].config)
            /\ \/ docs[s].config = docs[AgentScope].config
               \/ Name(docs[AgentScope].config) \in freed
<1>1. docs[AgentScope] \in Logged
  BY DEF IsComplete, Filed, Scope
<1>2. docs[AgentScope].config.lists \subseteq Source
  BY <1>1 DEF Logged, Message, Config
<1> SUFFICES ASSUME NEW s \in docs[AgentScope].config.lists
             PROVE  /\ docs[s] # None /\ Name(docs[s].config) = Name(docs[AgentScope].config)
                    /\ \/ docs[s].config = docs[AgentScope].config
                       \/ Name(docs[AgentScope].config) \in freed
  OBVIOUS
<1>3. docs[s] \in Logged /\ docs[s] # None
  BY <1>2 DEF Filed, Scope, Matches
<1>4. Name(docs[s].config) = Name(docs[AgentScope].config)
  BY DEF Matches, Name
<1> QED BY <1>1, <1>3, <1>4 DEF Logged, RevisionsAreStoredOnce

(* Every step keeps messages logged and renders apart. *)
LEMMA MessagesStep ==
  ASSUME IndInv, [Next]_vars
  PROVE  RevisionsAreStoredOnce' /\ MessagesAreLogged' /\ AcceptedIsOneRender'
<1> DEFINE Goal == RevisionsAreStoredOnce' /\ MessagesAreLogged' /\ AcceptedIsOneRender'
<1> USE DEF registry, broker, agent, telemetry, ingestion
<1>0. RevisionsAreStoredOnce /\ MessagesAreLogged /\ AcceptedIsOneRender /\ TypeOK
  BY DEF IndInv
<1>e. <<>> \in Seq(Logged)
  BY EmptySeq
<1>n. rendered' = rendered => Logged' = Logged
  BY DEF Logged
<1>1. ASSUME NEW c \in Config, Render(c) PROVE Goal
  <2>1. RevisionsAreStoredOnce'
    BY <1>0, <1>1 DEF RevisionsAreStoredOnce, Render, TypeOK, Name
  <2>2. MessagesAreLogged'
    BY <1>0, <1>1, LoggedGrows DEF Render
  <2>3. AcceptedIsOneRender'
    BY <1>0, <1>1 DEF AcceptedIsOneRender, Render
  <2> QED BY <2>1, <2>2, <2>3
<1>19. ASSUME NEW o \in Owner, DeleteAgentRegistryGraph(o) PROVE Goal
  <2>1. /\ UNCHANGED <<rendered, configs, inbox, retained, docs, phase>>
        /\ stored' \subseteq stored /\ freed \subseteq freed'
        /\ \A c \in stored \ stored' : Name(c) \in freed'
    BY <1>19 DEF DeleteAgentRegistryGraph
  <2>2. RevisionsAreStoredOnce'
    BY <1>0, <2>1 DEF RevisionsAreStoredOnce
  <2>3. MessagesAreLogged'
    BY <1>0, <2>1, LoggedGrows
  <2>4. AcceptedIsOneRender'
    BY <1>0, <2>1 DEF AcceptedIsOneRender
  <2> QED BY <2>2, <2>3, <2>4
<1>2. ASSUME NEW c \in rendered, NEW t \in Scope, Publish([config |-> c, scope |-> t])
      PROVE  Goal
  <2>1. [config |-> c, scope |-> t] \in Logged
    BY <1>0 DEF TypeOK, Message, Logged
  <2>2. configs' \in Seq(Logged)
    BY <1>0, <1>2, <2>1, AppendProperties DEF MessagesAreLogged, Publish
  <2>3. MessagesAreLogged'
    BY <1>0, <1>2, <1>n, <2>2 DEF MessagesAreLogged, Filed, Publish
  <2> QED BY <1>0, <1>2, <2>3
       DEF RevisionsAreStoredOnce, AcceptedIsOneRender, Publish
<1>3. CASE ForwardRecord
  <2> DEFINE m == configs[forwarded + 1]
  <2>1. m \in Logged
    BY <1>0, <1>3, ElementOfSeq, LenProperties DEF TypeOK, MessagesAreLogged, ForwardRecord
  <2>2. inbox' \in Seq(Logged)
    BY <1>0, <1>3, <2>1, AppendProperties DEF MessagesAreLogged, ForwardRecord
  <2>3. retained' = [retained EXCEPT ![m.scope] = m]
    BY <1>3 DEF ForwardRecord
  <2>4. Filed(retained)'
    BY <1>0, <1>3, <1>n, <2>1, <2>3 DEF MessagesAreLogged, Filed, ForwardRecord
  <2>5. MessagesAreLogged'
    BY <1>0, <1>3, <1>n, <2>2, <2>4 DEF MessagesAreLogged, Filed, ForwardRecord
  <2> QED BY <1>0, <1>3, <2>5
       DEF RevisionsAreStoredOnce, AcceptedIsOneRender, ForwardRecord
<1>4. CASE StartAgent
  <2>1. MessagesAreLogged'
    BY <1>0, <1>4, <1>e, <1>n DEF MessagesAreLogged, Filed, StartAgent, NoDocs
  <2> QED BY <1>0, <1>4, <2>1 DEF RevisionsAreStoredOnce, AcceptedIsOneRender, StartAgent
<1>5. CASE Subscribe
  <2>1. PICK topics \in {{AgentScope}, Source} :
            \E q \in Orders(RetainedOf(topics)) : inbox' = inbox \o q
    BY <1>5 DEF Subscribe
  <2>2. PICK q \in Orders(RetainedOf(topics)) : inbox' = inbox \o q
    BY <2>1
  <2>3. q \in Seq(Logged)
    BY <1>0, RetainedIsSeq, RetainedIsLogged, SeqMonotonic
  <2>4. inbox' \in Seq(Logged)
    BY <1>0, <2>2, <2>3, ConcatProperties DEF MessagesAreLogged
  <2>5. MessagesAreLogged'
    BY <1>0, <1>5, <1>n, <2>4 DEF MessagesAreLogged, Filed, Subscribe
  <2> QED BY <1>0, <1>5, <2>5 DEF RevisionsAreStoredOnce, AcceptedIsOneRender, Subscribe
<1>6. CASE OnMessage
  <2>1. Head(inbox) \in Logged /\ inbox' \in Seq(Logged)
    BY <1>0, <1>6, HeadTailProperties DEF MessagesAreLogged, OnMessage
  <2>2. Filed(docs)'
    BY <1>0, <1>6, <1>n, <2>1 DEF MessagesAreLogged, Filed, OnMessage
  <2>3. MessagesAreLogged'
    BY <1>0, <1>6, <1>n, <2>1, <2>2 DEF MessagesAreLogged, Filed, OnMessage
  <2> QED BY <1>0, <1>6, <2>3 DEF RevisionsAreStoredOnce, AcceptedIsOneRender, OnMessage
<1>7. CASE OnDisconnect
  <2>1. MessagesAreLogged'
    BY <1>0, <1>7, <1>e, <1>n DEF MessagesAreLogged, Filed, OnDisconnect, NoDocs
  <2> QED BY <1>0, <1>7, <2>1 DEF RevisionsAreStoredOnce, AcceptedIsOneRender, OnDisconnect
<1>8. CASE Timeout
  <2>1. MessagesAreLogged'
    BY <1>0, <1>8, <1>e, <1>n DEF MessagesAreLogged, Filed, Timeout, NoDocs
  <2> QED BY <1>0, <1>8, <2>1 DEF RevisionsAreStoredOnce, AcceptedIsOneRender, Timeout
<1>9. CASE BuildAgentRuntimeConfig
  <2> DEFINE runtime == docs[AgentScope]
  <2>1. runtime \in Logged /\ runtime # None /\ runtime.config.lists \subseteq Source
    BY <1>0, <1>9 DEF MessagesAreLogged, Filed, BuildAgentRuntimeConfig, IsComplete,
       Scope, Logged, Message, Config
  <2>2. Filed(docs)'
    BY <1>0, <1>9, <1>n DEF MessagesAreLogged, Filed, BuildAgentRuntimeConfig,
       Accepted, NoDocs
  <2>3. MessagesAreLogged'
    BY <1>0, <1>9, <1>e, <1>n, <2>2 DEF MessagesAreLogged, Filed, BuildAgentRuntimeConfig
  <2>4. AcceptedIsOneRender'
    <3> SUFFICES ASSUME phase' = "running" PROVE AcceptedIsOneRender'
      BY DEF AcceptedIsOneRender
    <3>1. /\ \A s \in runtime.config.lists : Matches(docs[s], runtime)
          /\ docs' = Accepted(runtime) /\ IsComplete /\ rendered' = rendered
      BY <1>9 DEF BuildAgentRuntimeConfig
    <3>2. \A s \in runtime.config.lists :
                /\ docs[s] # None /\ Name(docs[s].config) = Name(runtime.config)
                /\ docs[s].config = runtime.config \/ Name(runtime.config) \in freed
      BY <1>0, <3>1, MatchingIsOneRender DEF MessagesAreLogged
    <3>3. /\ docs'[AgentScope] = runtime
          /\ \A s \in runtime.config.lists : docs'[s] = docs[s]
          /\ \A s \in Source \ runtime.config.lists : docs'[s] = None
      BY <2>1, <3>1, ScopeAssumption DEF Accepted, Scope
    <3>4. runtime.config \in rendered'
      BY <2>1, <3>1 DEF Logged
    <3>5. freed' = freed
      BY <1>9 DEF BuildAgentRuntimeConfig
    <3> QED BY <2>1, <3>2, <3>3, <3>4, <3>5 DEF AcceptedIsOneRender
  <2> QED BY <1>0, <1>9, <2>3, <2>4 DEF RevisionsAreStoredOnce, BuildAgentRuntimeConfig
<1>10. CASE StopAgent
  <2>1. MessagesAreLogged'
    BY <1>0, <1>10, <1>n DEF MessagesAreLogged, Filed, StopAgent, NoDocs
  <2> QED BY <1>0, <1>10, <2>1 DEF RevisionsAreStoredOnce, AcceptedIsOneRender, StopAgent
<1>11. CASE UNCHANGED <<rendered, stored, freed, configs, retained, phase, inbox, docs>>
  <2>1. MessagesAreLogged'
    BY <1>0, <1>11, LoggedGrows
  <2> QED BY <1>0, <1>11, <2>1 DEF RevisionsAreStoredOnce, AcceptedIsOneRender
<1>12. CASE SkipCompacted \/ RestartForwarder
  BY <1>11, <1>12 DEF SkipCompacted, RestartForwarder
<1>13. ASSUME NEW s \in Source, Observe(s) PROVE Goal
  BY <1>11, <1>13 DEF Observe
<1>14. ASSUME NEW e \in pending, DeliverEvent(e) PROVE Goal
  BY <1>11, <1>14 DEF DeliverEvent
<1>15. CASE Ingest \/ ReadSnapshot
  BY <1>11, <1>15 DEF Ingest, ReadSnapshot
<1>16. CASE Disconnect \/ RestartIngestion \/ Connect
  BY <1>11, <1>16 DEF Disconnect, RestartIngestion, Connect
<1>17. ASSUME NEW y \in cache, Expire(y) PROVE Goal
  BY <1>11, <1>17 DEF Expire
<1>18. CASE UNCHANGED vars
  BY <1>11, <1>18 DEF vars
<1> QED BY <1>1, <1>2, <1>3, <1>4, <1>5, <1>6, <1>7, <1>8, <1>9, <1>10,
     <1>12, <1>13, <1>14, <1>15, <1>16, <1>17, <1>18, <1>19 DEF Next

-----------------------------------------------------------------------------
(* What an agent refuses.                                                  *)

(* What was retained when a calm start began is what the agent meets. *)
LEMMA CalmStep ==
  ASSUME IndInv, [Next]_vars PROVE CalmMeetsOneSet' /\ RefusedOnlyIfTorn'
<1> DEFINE Goal == CalmMeetsOneSet' /\ RefusedOnlyIfTorn'
<1> USE DEF registry, broker, agent, telemetry, ingestion
<1>0. CalmMeetsOneSet /\ RefusedOnlyIfTorn /\ MessagesAreLogged /\ TypeOK
  BY DEF IndInv
<1>e. <<>> \in Seq(InPlace)
  BY EmptySeq
<1>n. retained' = retained => InPlace' = InPlace
  BY DEF InPlace
<1>3. CASE ForwardRecord
  <2> DEFINE m == configs[forwarded + 1]
  <2>1. m \in Message
    BY <1>0, <1>3, ElementOfSeq, LenProperties DEF TypeOK, ForwardRecord
  <2>2. RefusedOnlyIfTorn'
    BY <1>0, <1>3 DEF RefusedOnlyIfTorn, ForwardRecord
  <2> SUFFICES ASSUME calm', phase' = "collecting" PROVE CalmMeetsOneSet'
    BY <2>2 DEF CalmMeetsOneSet
  <2>3. calm /\ phase = "collecting" /\ retained[m.scope] = m
    BY <1>3 DEF ForwardRecord
  <2>4. retained' = retained
    BY <1>0, <1>3, <2>3 DEF TypeOK, ForwardRecord
  <2>5. inbox' \in Seq(InPlace)
    BY <1>0, <1>3, <2>1, <2>3, AppendProperties DEF CalmMeetsOneSet, ForwardRecord, InPlace
  <2> QED BY <1>0, <1>3, <1>n, <2>3, <2>4, <2>5 DEF CalmMeetsOneSet, Coherent, ForwardRecord
<1>4. CASE StartAgent
  BY <1>4, <1>e, <1>n DEF CalmMeetsOneSet, RefusedOnlyIfTorn, Coherent, StartAgent, NoDocs
<1>5. CASE Subscribe
  <2>1. PICK topics \in {{AgentScope}, Source} :
            \E q \in Orders(RetainedOf(topics)) : inbox' = inbox \o q
    BY <1>5 DEF Subscribe
  <2>2. PICK q \in Orders(RetainedOf(topics)) : inbox' = inbox \o q
    BY <2>1
  <2>3. RetainedOf(topics) \subseteq InPlace
    BY <1>0, RetainedIsLogged DEF Logged, InPlace
  <2>4. q \in Seq(InPlace)
    BY <1>0, <2>3, RetainedIsSeq, SeqMonotonic
  <2>5. inbox \in Seq(InPlace) => inbox' \in Seq(InPlace)
    BY <2>2, <2>4, ConcatProperties
  <2> QED BY <1>0, <1>5, <1>n, <2>5 DEF CalmMeetsOneSet, RefusedOnlyIfTorn, Coherent, Subscribe
<1>6. CASE OnMessage
  <2>1. RefusedOnlyIfTorn'
    BY <1>6 DEF RefusedOnlyIfTorn, OnMessage
  <2> SUFFICES ASSUME calm', phase' = "collecting" PROVE CalmMeetsOneSet'
    BY <2>1 DEF CalmMeetsOneSet
  <2>2. calm /\ phase = "collecting" /\ retained' = retained
    BY <1>6 DEF OnMessage
  <2>3. Head(inbox) \in InPlace /\ inbox' \in Seq(InPlace)
    BY <1>0, <1>6, <2>2, HeadTailProperties DEF CalmMeetsOneSet, OnMessage
  <2>4. \A t \in Scope : docs'[t] # None => docs'[t] = retained'[t]
    BY <1>0, <1>6, <2>2, <2>3 DEF CalmMeetsOneSet, TypeOK, OnMessage, InPlace
  <2> QED BY <1>0, <1>n, <2>2, <2>3, <2>4 DEF CalmMeetsOneSet, Coherent
<1>7. CASE OnDisconnect
  BY <1>0, <1>7, <1>e, <1>n DEF CalmMeetsOneSet, RefusedOnlyIfTorn, Coherent, OnDisconnect
<1>8. CASE Timeout
  BY <1>8 DEF CalmMeetsOneSet, RefusedOnlyIfTorn, Timeout
<1>9. CASE BuildAgentRuntimeConfig
  <2> DEFINE runtime == docs[AgentScope]
  <2>1. CASE calm' = FALSE
    BY <2>1 DEF CalmMeetsOneSet, RefusedOnlyIfTorn
  <2>2. CASE calm /\ \E s \in runtime.config.lists : ~Matches(docs[s], runtime)
    <3>1. PICK s \in runtime.config.lists : ~Matches(docs[s], runtime)
      BY <2>2
    <3>2. runtime \in Message /\ runtime # None /\ docs[s] # None
      BY <1>0, <1>9 DEF BuildAgentRuntimeConfig, IsComplete, TypeOK, Scope
    <3>3. s \in Source
      BY <3>2 DEF Message, Config
    <3>4. /\ runtime = retained[AgentScope] /\ docs[s] = retained[s]
          /\ Coherent(retained)
      BY <1>0, <1>9, <2>2, <3>2, <3>3 DEF CalmMeetsOneSet, BuildAgentRuntimeConfig, Scope
    <3>5. Matches(docs[s], runtime)
      BY <3>2, <3>4 DEF Coherent, Matches
    <3> QED BY <3>1, <3>5
  <2>3. CASE ~calm /\ calm' = calm
    BY <2>3 DEF CalmMeetsOneSet, RefusedOnlyIfTorn
  <2> QED BY <1>0, <1>9, <2>1, <2>2, <2>3 DEF BuildAgentRuntimeConfig, TypeOK
<1>10. CASE StopAgent
  BY <1>10 DEF CalmMeetsOneSet, RefusedOnlyIfTorn, StopAgent
<1>11. CASE UNCHANGED <<retained, phase, inbox, docs, calm>>
  BY <1>0, <1>11, <1>n DEF CalmMeetsOneSet, RefusedOnlyIfTorn, Coherent
<1>1. ASSUME NEW c \in Config, Render(c) PROVE Goal
  BY <1>1, <1>11 DEF Render
<1>19. ASSUME NEW o \in Owner, DeleteAgentRegistryGraph(o) PROVE Goal
  BY <1>11, <1>19 DEF DeleteAgentRegistryGraph
<1>2. ASSUME NEW c \in rendered, NEW t \in Scope, Publish([config |-> c, scope |-> t])
      PROVE  Goal
  BY <1>2, <1>11 DEF Publish
<1>12. CASE SkipCompacted \/ RestartForwarder
  <2>1. CASE SkipCompacted
    BY <1>11, <2>1 DEF SkipCompacted
  <2>2. CASE RestartForwarder
    BY <1>11, <2>2 DEF RestartForwarder
  <2> QED BY <1>12, <2>1, <2>2
<1>13. ASSUME NEW s \in Source, Observe(s) PROVE Goal
  BY <1>11, <1>13 DEF Observe
<1>14. ASSUME NEW e \in pending, DeliverEvent(e) PROVE Goal
  BY <1>11, <1>14 DEF DeliverEvent
<1>15. CASE Ingest \/ ReadSnapshot
  BY <1>11, <1>15 DEF Ingest, ReadSnapshot
<1>16. CASE Disconnect \/ RestartIngestion \/ Connect
  BY <1>11, <1>16 DEF Disconnect, RestartIngestion, Connect
<1>17. ASSUME NEW y \in cache, Expire(y) PROVE Goal
  BY <1>11, <1>17 DEF Expire
<1>18. CASE UNCHANGED vars
  BY <1>11, <1>18 DEF vars
<1> QED BY <1>1, <1>2, <1>3, <1>4, <1>5, <1>6, <1>7, <1>8, <1>9, <1>10,
     <1>12, <1>13, <1>14, <1>15, <1>16, <1>17, <1>18, <1>19 DEF Next

-----------------------------------------------------------------------------
(* The cache.                                                              *)

(* What is shown stays shown. *)
LEMMA ShownGrows ==
  ASSUME rendered \subseteq rendered' PROVE Shown \subseteq Shown'
BY DEF Shown

(* The item of a message is shown. *)
LEMMA ItemIsShown ==
  ASSUME TypeOK, NEW m \in Logged, m.scope # AgentScope PROVE ItemOf(m) \in Shown
<1>1. ItemOf(m) \in Item
  BY ItemTyped DEF Logged
<1>2. Name(m.config) = Name(ItemOf(m)) /\ m.config.edition = ItemOf(m).edition
  BY DEF ItemOf, Name
<1> QED BY <1>1, <1>2 DEF Shown, Logged

(* Items of one name are of one edition, unless a config of it was deleted. *)
LEMMA SameEdition ==
  ASSUME RevisionsAreStoredOnce, NEW x \in Shown, NEW y \in Shown, CacheKey(x) = CacheKey(y)
  PROVE  x.edition = y.edition \/ Name(x) \in freed
<1>1. PICK c \in rendered : Name(c) = Name(x) /\ c.edition = x.edition
  BY DEF Shown
<1>2. PICK d \in rendered : Name(d) = Name(y) /\ d.edition = y.edition
  BY DEF Shown
<1>3. Name(x) = Name(y)
  BY DEF CacheKey, Name
<1> QED BY <1>1, <1>2, <1>3 DEF RevisionsAreStoredOnce

(* Every step leaves items shown. *)
LEMMA ItemsStep ==
  ASSUME IndInv, [Next]_vars PROVE ItemsAreShown'
<1> USE DEF registry, broker, agent, telemetry, ingestion
<1>0. ItemsAreShown /\ MessagesAreLogged /\ TypeOK
  BY DEF IndInv
<1>e. <<>> \in Seq(Shown)
  BY EmptySeq
<1>n. rendered' = rendered => Shown' = Shown
  BY DEF Shown
<1>1. ASSUME rendered \subseteq rendered', UNCHANGED <<feed, pending, cache>>
      PROVE  ItemsAreShown'
  <2>1. Shown \subseteq Shown'
    BY <1>1, ShownGrows
  <2>2. feed' \in Seq(Shown')
    BY <1>0, <1>1, <2>1, SeqMonotonic DEF ItemsAreShown
  <2> QED BY <1>0, <1>1, <2>1, <2>2 DEF ItemsAreShown
<1>2. ASSUME NEW c \in Config, Render(c) PROVE ItemsAreShown'
  BY <1>1, <1>2 DEF Render
<1>3. ASSUME NEW o \in Owner, DeleteAgentRegistryGraph(o) PROVE ItemsAreShown'
  BY <1>1, <1>3 DEF DeleteAgentRegistryGraph
<1>4. CASE \E c \in rendered, t \in Scope : Publish([config |-> c, scope |-> t])
  BY <1>1, <1>4 DEF Publish
<1>5. CASE ForwardRecord
  <2> DEFINE m == configs[forwarded + 1]
  <2>1. m \in Logged
    BY <1>0, <1>5, ElementOfSeq, LenProperties DEF TypeOK, MessagesAreLogged, ForwardRecord
  <2>2. m.scope # AgentScope => ItemOf(m) \in Shown
    BY <1>0, <2>1, ItemIsShown
  <2>3. feed' \in Seq(Shown)
    BY <1>0, <1>5, <2>2, AppendProperties DEF ItemsAreShown, ForwardRecord
  <2> QED BY <1>0, <1>5, <1>n, <2>3 DEF ItemsAreShown, ForwardRecord
<1>6. CASE SkipCompacted \/ RestartForwarder
  BY <1>1, <1>6 DEF SkipCompacted, RestartForwarder
<1>7. CASE StartAgent \/ Subscribe \/ OnMessage \/ OnDisconnect \/ Timeout
  BY <1>1, <1>7 DEF StartAgent, Subscribe, OnMessage, OnDisconnect, Timeout
<1>8. CASE BuildAgentRuntimeConfig \/ StopAgent
  BY <1>1, <1>8 DEF BuildAgentRuntimeConfig, StopAgent
<1>9. ASSUME NEW s \in Source, Observe(s) PROVE ItemsAreShown'
  <2> DEFINE e == [what |-> "event", owner |-> docs[AgentScope].config.owner,
                   source |-> s, rev |-> docs[s].config.rev,
                   edition |-> docs[s].config.edition]
  <2>1. pending' = pending \union {e}
    BY <1>9 DEF Observe
  <2>2. docs[s] # None /\ Name(docs[s].config) = Name(docs[AgentScope].config)
    BY <1>9 DEF IndInv, AcceptedIsOneRender, Observe
  <2>3. docs[s] \in Message /\ docs[s].config \in rendered
    BY <1>0, <2>2 DEF MessagesAreLogged, Filed, Logged, Scope
  <2>4. /\ e \in Item /\ Name(e) = Name(docs[s].config)
        /\ e.edition = docs[s].config.edition
    BY <2>2, <2>3 DEF Item, Message, Config, Name
  <2>5. e \in Shown
    BY <2>3, <2>4 DEF Shown
  <2> HIDE DEF e
  <2> QED BY <1>0, <1>9, <1>n, <2>1, <2>5 DEF ItemsAreShown, Observe
<1>10. ASSUME NEW e \in pending, DeliverEvent(e) PROVE ItemsAreShown'
  <2>1. feed' \in Seq(Shown)
    BY <1>0, <1>10, AppendProperties DEF ItemsAreShown, DeliverEvent
  <2> QED BY <1>0, <1>10, <1>n, <2>1 DEF ItemsAreShown, DeliverEvent
<1>11. ASSUME NEW x \in Shown, Cached(x) PROVE \A y \in cache' : y.config \in Shown
  BY <1>0, <1>11 DEF ItemsAreShown, Cached
<1>12. CASE Ingest
  <2>1. Head(feed) \in Shown /\ feed' \in Seq(Shown)
    BY <1>0, <1>12, HeadTailProperties DEF ItemsAreShown, Ingest
  <2>2. \A y \in cache' : y.config \in Shown
    BY <1>0, <1>11, <1>12, <2>1 DEF ItemsAreShown, Ingest, CacheConfig, EnrichEvent
  <2> QED BY <1>0, <1>12, <1>n, <2>1, <2>2 DEF ItemsAreShown, Ingest
<1>13. CASE ReadSnapshot
  <2> DEFINE m == configs[snapshots + 1]
  <2>1. m \in Logged
    BY <1>0, <1>13, ElementOfSeq, LenProperties DEF TypeOK, MessagesAreLogged, ReadSnapshot
  <2>2. m.scope # AgentScope => ItemOf(m) \in Shown
    BY <1>0, <2>1, ItemIsShown
  <2>3. \/ m.scope # AgentScope /\ Cached(ItemOf(m))
        \/ cache' = cache
    BY <1>13 DEF ReadSnapshot, IsProjected
  <2>4. \A y \in cache' : y.config \in Shown
    BY <1>0, <1>11, <2>2, <2>3 DEF ItemsAreShown
  <2> QED BY <1>0, <1>13, <1>n, <2>4 DEF ItemsAreShown, ReadSnapshot
<1>14. CASE Disconnect \/ RestartIngestion
  BY <1>0, <1>14, <1>e, <1>n DEF ItemsAreShown, Disconnect, RestartIngestion
<1>15. CASE Connect
  <2>1. PICK q \in Orders({ItemOf(m) : m \in RetainedOf(Source)}) : feed' = q
    BY <1>15 DEF Connect
  <2>2. \A m \in RetainedOf(Source) : m \in Logged /\ m.scope # AgentScope
    BY <1>0, ScopeAssumption DEF RetainedOf, MessagesAreLogged, Filed, Scope
  <2>3. {ItemOf(m) : m \in RetainedOf(Source)} \subseteq Shown
    BY <1>0, <2>2, ItemIsShown
  <2>4. q \in Seq(Shown)
    BY <2>3, RetainedIsFinite, ScopeAssumption, OrderIsSeq, SeqMonotonic
  <2> QED BY <1>0, <1>15, <1>n, <2>1, <2>4 DEF ItemsAreShown, Connect
<1>16. ASSUME NEW y \in cache, Expire(y) PROVE ItemsAreShown'
  BY <1>0, <1>16, <1>n DEF ItemsAreShown, Expire
<1>17. CASE UNCHANGED vars
  BY <1>1, <1>17 DEF vars
<1> QED BY <1>2, <1>3, <1>4, <1>5, <1>6, <1>7, <1>8, <1>9, <1>10, <1>12, <1>13,
     <1>14, <1>15, <1>16, <1>17 DEF Next

(* Entries are kept under the key of their config, and events find those. *)
LEMMA CacheStep ==
  ASSUME IndInv, [Next]_vars PROVE EntriesAreKeyed' /\ EnrichedByItsRevision'
<1> DEFINE Goal == EntriesAreKeyed' /\ EnrichedByItsRevision'
<1> USE DEF registry, broker, agent, telemetry, ingestion
<1>0. EntriesAreKeyed /\ EnrichedByItsRevision /\ ItemsAreShown /\ RevisionsAreStoredOnce
  BY DEF IndInv
<1>1. ASSUME NEW x, Cached(x) PROVE EntriesAreKeyed'
  BY <1>0, <1>1 DEF EntriesAreKeyed, Cached
<1>2. CASE UNCHANGED <<cache, enriched>> /\ freed \subseteq freed'
  BY <1>0, <1>2 DEF EntriesAreKeyed, EnrichedByItsRevision
<1>3. CASE Ingest
  <2>1. CASE CacheConfig
    <3>1. freed' = freed
      BY <1>3 DEF Ingest
    <3> QED BY <1>0, <1>1, <2>1, <3>1 DEF EnrichedByItsRevision, CacheConfig
  <2>2. CASE EnrichEvent
    <3>1. \A y \in Found(Head(feed)) : CacheKey(y.config) = CacheKey(Head(feed))
      BY <1>0 DEF Found, EntriesAreKeyed
    <3>2. Head(feed) \in Shown
      BY <1>0, <1>3, HeadTailProperties DEF ItemsAreShown, Ingest
    <3>3. ASSUME NEW y \in Found(Head(feed))
          PROVE  y.config.edition = Head(feed).edition \/ Name(Head(feed)) \in freed
      BY <1>0, <3>1, <3>2, SameEdition DEF ItemsAreShown, Found
    <3>4. freed' = freed
      BY <1>3 DEF Ingest
    <3>5. EnrichedByItsRevision'
      BY <1>0, <2>2, <3>1, <3>3, <3>4 DEF EnrichedByItsRevision, EnrichEvent, CacheKey
    <3> QED BY <1>0, <2>2, <3>5 DEF EntriesAreKeyed, EnrichEvent
  <2> QED BY <1>3, <2>1, <2>2 DEF Ingest
<1>4. CASE ReadSnapshot
  <2>1. EntriesAreKeyed'
    BY <1>0, <1>1, <1>4 DEF ReadSnapshot, EntriesAreKeyed
  <2> QED BY <1>0, <1>4, <2>1 DEF EnrichedByItsRevision, ReadSnapshot
<1>5. CASE RestartIngestion
  BY <1>0, <1>5 DEF EntriesAreKeyed, EnrichedByItsRevision, RestartIngestion
<1>6. ASSUME NEW y \in cache, Expire(y) PROVE Goal
  BY <1>0, <1>6 DEF EntriesAreKeyed, EnrichedByItsRevision, Expire
<1>13. CASE \E o \in Owner : DeleteAgentRegistryGraph(o)
  BY <1>2, <1>13 DEF DeleteAgentRegistryGraph
<1>7. CASE \/ \E c \in Config : Render(c)
           \/ \E c \in rendered, t \in Scope : Publish([config |-> c, scope |-> t])
  BY <1>2, <1>7 DEF Render, Publish
<1>8. CASE ForwardRecord \/ SkipCompacted \/ RestartForwarder
  BY <1>2, <1>8 DEF ForwardRecord, SkipCompacted, RestartForwarder
<1>9. CASE StartAgent \/ Subscribe \/ OnMessage \/ OnDisconnect \/ Timeout
  BY <1>2, <1>9 DEF StartAgent, Subscribe, OnMessage, OnDisconnect, Timeout
<1>10. CASE BuildAgentRuntimeConfig \/ StopAgent
  BY <1>2, <1>10 DEF BuildAgentRuntimeConfig, StopAgent
<1>11. CASE (\E s \in Source : Observe(s)) \/ (\E e \in pending : DeliverEvent(e))
  BY <1>2, <1>11 DEF Observe, DeliverEvent
<1>12. CASE Disconnect \/ Connect \/ UNCHANGED vars
  BY <1>2, <1>12 DEF Disconnect, Connect, vars
<1> QED BY <1>3, <1>4, <1>5, <1>6, <1>7, <1>8, <1>9, <1>10, <1>11, <1>12, <1>13 DEF Next

-----------------------------------------------------------------------------
(* What the pipelines restore.                                             *)

(* A record that is logged supersedes others and is superseded by none. *)
LEMMA LogGrows ==
  ASSUME TypeOK, NEW m \in Message, configs' = Append(configs, m),
         NEW i \in 1..Len(configs)
  PROVE  /\ configs'[i] = configs[i]
         /\ IsLast(i)' => IsLast(i)
         /\ Superseded(i) => Superseded(i)'
<1>1. /\ Len(configs') = Len(configs) + 1 /\ Len(configs) \in Nat
      /\ \A j \in 1..Len(configs) : configs'[j] = configs[j]
  BY AppendProperties, LenProperties DEF TypeOK
<1>2. \A j \in (i + 1)..Len(configs) :
            j \in (i + 1)..Len(configs') /\ configs'[j] = configs[j]
  BY <1>1
<1>3. configs'[i] = configs[i]
  BY <1>1
<1>4. IsLast(i)' => IsLast(i)
  BY <1>2, <1>3 DEF IsLast
<1>5. Superseded(i) => Superseded(i)'
  <2> SUFFICES ASSUME Superseded(i) PROVE Superseded(i)'
    OBVIOUS
  <2>1. PICK j \in (i + 1)..Len(configs) :
            <<configs[j].config.owner, configs[j].scope>>
                = <<configs[i].config.owner, configs[i].scope>>
    BY DEF Superseded
  <2>2. <<configs'[j].config.owner, configs'[j].scope>>
            = <<configs'[i].config.owner, configs'[i].scope>>
    BY <1>2, <1>3, <2>1
  <2> QED BY <1>2, <2>2 DEF Superseded
<1> QED BY <1>3, <1>4, <1>5

(* A record that has a successor is not the last of its topic. *)
LEMMA SupersededIsNotLast ==
  ASSUME NEW i \in Nat, Superseded(i) PROVE ~IsLast(i)
BY DEF Superseded, IsLast

(* What the forwarder has passed is retained, whatever it passes again. *)
LEMMA ForwarderStep ==
  ASSUME IndInv, [Next]_vars PROVE PassedIsRetained'
<1> USE DEF registry, broker, agent, telemetry, ingestion
<1>0. PassedIsRetained /\ TypeOK
  BY DEF IndInv
<1>l. Len(configs) \in Nat /\ forwarded \in 0..Len(configs)
  BY <1>0, LenProperties DEF TypeOK
<1>1. ASSUME NEW c \in rendered, NEW t \in Scope, Publish([config |-> c, scope |-> t])
      PROVE  PassedIsRetained'
  <2>1. [config |-> c, scope |-> t] \in Message
    BY <1>0 DEF TypeOK, Message
  <2>2. \A i \in 1..forwarded : configs'[i] = configs[i] /\ (IsLast(i)' => IsLast(i))
    BY <1>0, <1>1, <1>l, <2>1, LogGrows DEF Publish
  <2> QED BY <1>0, <1>1, <2>2 DEF PassedIsRetained, Publish
<1>2. CASE ForwardRecord
  <2> DEFINE m == configs[forwarded + 1]
  <2>1. /\ forwarded < Len(configs) /\ forwarded' = forwarded + 1
        /\ retained' = [retained EXCEPT ![m.scope] = m] /\ configs' = configs
    BY <1>2 DEF ForwardRecord
  <2>2. m \in Message
    BY <1>0, <1>l, <2>1, ElementOfSeq DEF TypeOK
  <2>3. retained'[m.scope] = m /\ \A t \in Scope : t # m.scope => retained'[t] = retained[t]
    BY <1>0, <2>1, <2>2 DEF TypeOK, Message
  <2> SUFFICES ASSUME NEW i \in 1..(forwarded + 1), IsLast(i)
               PROVE  retained'[configs[i].scope] = configs[i]
    BY <2>1 DEF PassedIsRetained, IsLast
  <2>4. CASE i = forwarded + 1
    BY <2>3, <2>4
  <2>5. CASE i \in 1..forwarded
    <3>1. configs[i] \in Message /\ retained[configs[i].scope] = configs[i]
      BY <1>0, <1>l, <2>5, ElementOfSeq DEF TypeOK, PassedIsRetained
    <3>2. configs[i].scope # m.scope
      BY <1>l, <2>1, <2>5 DEF IsLast
    <3> QED BY <2>3, <3>1, <3>2 DEF Message
  <2> QED BY <1>l, <2>4, <2>5
<1>3. CASE SkipCompacted
  <2>1. ~IsLast(forwarded + 1)
    BY <1>3, <1>l, SupersededIsNotLast DEF SkipCompacted
  <2> QED BY <1>0, <1>3, <1>l, <2>1 DEF PassedIsRetained, IsLast, SkipCompacted
<1>4. CASE RestartForwarder
  <2>1. forwarded' \in 0..(forwarded - 1) /\ UNCHANGED <<configs, retained>>
    BY <1>4 DEF RestartForwarder, Resumes
  <2> QED BY <1>0, <1>l, <2>1 DEF PassedIsRetained, IsLast
<1>5. CASE UNCHANGED <<configs, forwarded, retained>>
  BY <1>0, <1>5 DEF PassedIsRetained, IsLast
<1>6. CASE (\E c \in Config : Render(c)) \/ StartAgent \/ Subscribe \/ OnMessage
  BY <1>5, <1>6 DEF Render, StartAgent, Subscribe, OnMessage
<1>11. CASE \E o \in Owner : DeleteAgentRegistryGraph(o)
  BY <1>5, <1>11 DEF DeleteAgentRegistryGraph
<1>7. CASE OnDisconnect \/ Timeout \/ BuildAgentRuntimeConfig \/ StopAgent
  BY <1>5, <1>7 DEF OnDisconnect, Timeout, BuildAgentRuntimeConfig, StopAgent
<1>8. CASE (\E s \in Source : Observe(s)) \/ (\E e \in pending : DeliverEvent(e))
  BY <1>5, <1>8 DEF Observe, DeliverEvent
<1>9. CASE Ingest \/ ReadSnapshot \/ Disconnect \/ RestartIngestion \/ Connect
  BY <1>5, <1>9 DEF Ingest, ReadSnapshot, Disconnect, RestartIngestion, Connect
<1>10. CASE (\E y \in cache : Expire(y)) \/ UNCHANGED vars
  BY <1>5, <1>10 DEF Expire, vars
<1> QED BY <1>1, <1>2, <1>3, <1>4, <1>6, <1>7, <1>8, <1>9, <1>10, <1>11 DEF Next

(* To cache an item adds its key and drops none. *)
LEMMA CachedKeys ==
  ASSUME NEW x, Cached(x)
  PROVE  /\ Keys' = Keys \union {CacheKey(x)}
         /\ Keys \union expired \union {CacheKey(x)} \subseteq Keys' \union expired'
<1> DEFINE k == CacheKey(x)
           new == [key |-> k, config |-> x]
<1>1. /\ cache' = {y \in cache : y.key # k} \union {new}
      /\ expired' = expired \ {k} /\ new.key = k
  BY DEF Cached
<1> HIDE DEF k, new
<1>2. Keys' = Keys \union {k}
  BY <1>1 DEF Keys
<1> QED BY <1>1, <1>2 DEF k

(* The snapshots that were read are in the cache. *)
LEMMA SnapshotsStep ==
  ASSUME IndInv, [Next]_vars PROVE ReadIsCached'
<1> USE DEF registry, broker, agent, telemetry, ingestion
<1>0. ReadIsCached /\ TypeOK
  BY DEF IndInv
<1>l. Len(configs) \in Nat /\ snapshots \in 0..Len(configs)
  BY <1>0, LenProperties DEF TypeOK
<1>1. ASSUME NEW c \in rendered, NEW t \in Scope, Publish([config |-> c, scope |-> t])
      PROVE  ReadIsCached'
  <2>1. [config |-> c, scope |-> t] \in Message
    BY <1>0 DEF TypeOK, Message
  <2>2. \A i \in 1..snapshots : configs'[i] = configs[i] /\ (Superseded(i) => Superseded(i)')
    BY <1>0, <1>1, <1>l, <2>1, LogGrows DEF Publish
  <2> QED BY <1>0, <1>1, <2>2 DEF ReadIsCached, Publish, Keys
<1>2. ASSUME UNCHANGED <<configs, snapshots>>,
             Keys \union expired \subseteq Keys' \union expired'
      PROVE  ReadIsCached'
  BY <1>0, <1>2 DEF ReadIsCached, Superseded
<1>3. CASE UNCHANGED <<configs, snapshots, cache, expired>>
  BY <1>2, <1>3 DEF Keys
<1>4. CASE Ingest
  <2>1. CASE CacheConfig
    BY <1>2, <1>4, <2>1, CachedKeys DEF Ingest, CacheConfig
  <2>2. CASE EnrichEvent
    BY <1>3, <1>4, <2>2 DEF Ingest, EnrichEvent
  <2> QED BY <1>4, <2>1, <2>2 DEF Ingest
<1>5. CASE ReadSnapshot
  <2> DEFINE m == configs[snapshots + 1]
  <2>1. snapshots' = snapshots + 1 /\ configs' = configs
    BY <1>5 DEF ReadSnapshot
  <2>2. /\ Keys \union expired \subseteq Keys' \union expired'
        /\ m.scope = AgentScope \/ Superseded(snapshots + 1)
              \/ CacheKey(ItemOf(m)) \in Keys' \union expired'
    <3>1. CASE IsProjected(m) /\ Cached(ItemOf(m))
      BY <3>1, CachedKeys
    <3>2. CASE (IsProjected(m) => Superseded(snapshots + 1)) /\ UNCHANGED <<cache, expired>>
      BY <3>2 DEF Keys, IsProjected
    <3> QED BY <1>5, <3>1, <3>2 DEF ReadSnapshot
  <2> QED BY <1>0, <1>l, <2>1, <2>2 DEF ReadIsCached, Superseded
<1>6. CASE RestartIngestion
  BY <1>6 DEF RestartIngestion, ReadsFrom, ReadIsCached
<1>7. ASSUME NEW y \in cache, Expire(y) PROVE ReadIsCached'
  <2>1. Keys \union expired \subseteq Keys' \union expired'
    BY <1>7 DEF Expire, Keys
  <2> QED BY <1>2, <1>7, <2>1 DEF Expire
<1>8. CASE (\E c \in Config : Render(c)) \/ ForwardRecord \/ SkipCompacted \/ RestartForwarder
  BY <1>3, <1>8 DEF Render, ForwardRecord, SkipCompacted, RestartForwarder
<1>13. CASE \E o \in Owner : DeleteAgentRegistryGraph(o)
  BY <1>3, <1>13 DEF DeleteAgentRegistryGraph
<1>9. CASE StartAgent \/ Subscribe \/ OnMessage \/ OnDisconnect \/ Timeout
  BY <1>3, <1>9 DEF StartAgent, Subscribe, OnMessage, OnDisconnect, Timeout
<1>10. CASE BuildAgentRuntimeConfig \/ StopAgent
  BY <1>3, <1>10 DEF BuildAgentRuntimeConfig, StopAgent
<1>11. CASE (\E s \in Source : Observe(s)) \/ (\E e \in pending : DeliverEvent(e))
  BY <1>3, <1>11 DEF Observe, DeliverEvent
<1>12. CASE Disconnect \/ Connect \/ UNCHANGED vars
  BY <1>3, <1>12 DEF Disconnect, Connect, vars
<1> QED BY <1>1, <1>4, <1>5, <1>6, <1>7, <1>8, <1>9, <1>10, <1>11, <1>12, <1>13 DEF Next

-----------------------------------------------------------------------------
(* What ingestion cannot miss.                                             *)

(* Nothing changes for what is known if feed and cache do not change. *)
LEMMA KnownStays ==
  ASSUME UNCHANGED <<feed, cache>>
  PROVE  Known' = Known /\ \A j : KnownBefore(j)' = KnownBefore(j)
BY DEF Known, KnownBefore, ConfigsBefore, Keys

(* What comes in at the end of the feed takes nothing from what is known. *)
LEMMA FeedGrows ==
  ASSUME TypeOK, NEW x \in Item, feed' = Append(feed, x), cache' = cache
  PROVE  /\ Len(feed') = Len(feed) + 1 /\ feed'[Len(feed) + 1] = x
         /\ \A j \in 1..Len(feed) : feed'[j] = feed[j]
         /\ \A j \in 1..(Len(feed) + 1) : KnownBefore(j) \subseteq KnownBefore(j)'
         /\ Known \subseteq Known'
         /\ x.what = "config" => CacheKey(x) \in Known'
<1>1. /\ Len(feed') = Len(feed) + 1 /\ feed'[Len(feed) + 1] = x
      /\ \A j \in 1..Len(feed) : feed'[j] = feed[j]
      /\ Len(feed) \in Nat
  BY AppendProperties, LenProperties DEF TypeOK
<1>2. \A j : /\ \A i \in ConfigsBefore(j) : feed'[i] = feed[i]
             /\ ConfigsBefore(j) \subseteq ConfigsBefore(j)'
  BY <1>1 DEF ConfigsBefore
<1>3. \A j : KnownBefore(j) \subseteq KnownBefore(j)'
  BY <1>2 DEF KnownBefore, Keys
<1>4. Known \subseteq Known'
  <2>1. ConfigsBefore(Len(feed) + 1) \subseteq ConfigsBefore(Len(feed) + 1)'
    BY <1>1 DEF ConfigsBefore
  <2> QED BY <1>2, <2>1 DEF Known, KnownBefore, Keys
<1>5. x.what = "config" => CacheKey(x) \in Known'
  <2> SUFFICES ASSUME x.what = "config" PROVE CacheKey(x) \in Known'
    OBVIOUS
  <2>1. Len(feed') \in ConfigsBefore(Len(feed) + 1)' /\ feed'[Len(feed')] = x
    BY <1>1 DEF ConfigsBefore
  <2> QED BY <2>1 DEF Known, KnownBefore
<1> QED BY <1>1, <1>3, <1>4, <1>5

(* Taking the head off the feed moves what it announces into the cache. *)
LEMMA FeedShrinks ==
  ASSUME TypeOK, feed # <<>>, feed' = Tail(feed), Keys \subseteq Keys',
         Head(feed).what = "config" => CacheKey(Head(feed)) \in Keys'
  PROVE  /\ \A j \in 1..Len(feed') :
                /\ j + 1 \in 1..Len(feed) /\ feed'[j] = feed[j + 1]
                /\ KnownBefore(j + 1) \subseteq KnownBefore(j)'
         /\ Known \subseteq Known'
<1>1. /\ Len(feed') = Len(feed) - 1 /\ Len(feed) \in Nat \ {0}
      /\ \A j \in 1..Len(feed') : feed'[j] = feed[j + 1]
      /\ Head(feed) = feed[1]
  BY HeadTailProperties, EmptySeq DEF TypeOK
<1>2. ASSUME NEW j \in 1..(Len(feed') + 1)
      PROVE  KnownBefore(j + 1) \subseteq KnownBefore(j)'
  <2> SUFFICES ASSUME NEW i \in ConfigsBefore(j + 1)
               PROVE  CacheKey(feed[i]) \in KnownBefore(j)'
    BY DEF KnownBefore
  <2>1. CASE i = 1
    BY <1>1, <2>1 DEF KnownBefore, ConfigsBefore
  <2>2. CASE i # 1
    <3>1. i - 1 \in ConfigsBefore(j)' /\ feed'[i - 1] = feed[i]
      BY <1>1, <2>2 DEF ConfigsBefore
    <3> QED BY <3>1 DEF KnownBefore
  <2> QED BY <2>1, <2>2
<1>3. Known \subseteq Known'
  BY <1>1, <1>2 DEF Known
<1> QED BY <1>1, <1>2, <1>3

(* The agent's side stays announced when more is known. *)
LEMMA AnnouncedGrows ==
  ASSUME Known \subseteq Known' PROVE Announced \subseteq Announced'
BY DEF Announced

(* While there is no gap nothing is missed. *)
LEMMA IngestionStep ==
  ASSUME IndInv, [Next]_vars PROVE NothingMissed'
<1> USE DEF registry, broker, agent, telemetry, ingestion
<1>0. NothingMissed /\ TypeOK /\ MessagesAreLogged /\ AcceptedIsOneRender
  BY DEF IndInv
<1>e. <<>> \in Seq(Announced)
  BY EmptySeq
<1>n. UNCHANGED <<feed, cache>> => Announced' = Announced
  BY KnownStays DEF Announced
<1>1. CASE /\ UNCHANGED <<online, errors, inbox, retained, docs, pending, feed, cache, gap>>
           /\ freed \subseteq freed'
  BY <1>0, <1>1, <1>n, KnownStays DEF NothingMissed
<1>2. ASSUME UNCHANGED <<online, errors, freed, retained, pending, feed, cache, gap>>,
             ~gap => /\ inbox' \in Seq(Announced)
                     /\ docs' \in [Scope -> Announced \union {None}]
      PROVE  NothingMissed'
  BY <1>0, <1>2, <1>n, KnownStays DEF NothingMissed
<1>3. CASE ForwardRecord
  <2> SUFFICES ASSUME ~gap PROVE NothingMissed'
    BY <1>3 DEF ForwardRecord, NothingMissed
  <2> DEFINE m == configs[forwarded + 1]
  <2>1. m \in Message
    BY <1>0, <1>3, ElementOfSeq, LenProperties DEF TypeOK, ForwardRecord
  <2>2. Known \subseteq Known' /\ m \in Announced'
    <3>1. CASE m.scope = AgentScope
      BY <1>3, <2>1, <3>1, KnownStays DEF ForwardRecord, Announced
    <3>2. CASE m.scope # AgentScope
      <4>1. feed' = Append(feed, ItemOf(m)) /\ cache' = cache
        BY <1>0, <1>3, <3>2 DEF ForwardRecord, NothingMissed
      <4>2. ItemOf(m) \in Item /\ ItemOf(m).what = "config"
        BY <2>1, <3>2, ItemTyped
      <4> QED BY <1>0, <2>1, <4>1, <4>2, FeedGrows DEF Announced
    <3> QED BY <3>1, <3>2
  <2>3. \A j \in 1..Len(feed') :
            feed'[j].what = "event" => CacheKey(feed'[j]) \in KnownBefore(j)'
    <3>1. CASE m.scope = AgentScope
      BY <1>0, <1>3, <3>1, KnownStays DEF ForwardRecord, NothingMissed
    <3>2. CASE m.scope # AgentScope
      <4>1. feed' = Append(feed, ItemOf(m)) /\ cache' = cache
        BY <1>0, <1>3, <3>2 DEF ForwardRecord, NothingMissed
      <4>2. ItemOf(m) \in Item /\ ItemOf(m).what = "config"
        BY <2>1, <3>2, ItemTyped
      <4>3. Len(feed) \in Nat
        BY <1>0, LenProperties DEF TypeOK
      <4> QED BY <1>0, <4>1, <4>2, <4>3, FeedGrows DEF NothingMissed
    <3> QED BY <3>1, <3>2
  <2>4. inbox' \in Seq(Announced')
    <3>1. inbox \in Seq(Announced')
      BY <1>0, <2>2, AnnouncedGrows, SeqMonotonic DEF NothingMissed
    <3> QED BY <1>3, <2>2, <3>1, AppendProperties DEF ForwardRecord
  <2>5. /\ retained' \in [Scope -> Announced' \union {None}]
        /\ docs' \in [Scope -> Announced' \union {None}]
    BY <1>0, <1>3, <2>2, AnnouncedGrows DEF NothingMissed, ForwardRecord
  <2> QED BY <1>0, <1>3, <2>2, <2>3, <2>4, <2>5 DEF NothingMissed, ForwardRecord
<1>4. CASE StartAgent
  BY <1>2, <1>4, <1>e DEF StartAgent, NoDocs
<1>5. CASE Subscribe
  <2>1. PICK topics \in {{AgentScope}, Source} :
            \E q \in Orders(RetainedOf(topics)) : inbox' = inbox \o q
    BY <1>5 DEF Subscribe
  <2>2. PICK q \in Orders(RetainedOf(topics)) : inbox' = inbox \o q
    BY <2>1
  <2>3. ASSUME ~gap PROVE inbox' \in Seq(Announced)
    <3>1. RetainedOf(topics) \subseteq Announced
      BY <1>0, <2>3 DEF NothingMissed, RetainedOf, Scope
    <3>2. q \in Seq(Announced)
      BY <1>0, <3>1, RetainedIsSeq, SeqMonotonic
    <3> QED BY <1>0, <2>2, <2>3, <3>2, ConcatProperties DEF NothingMissed
  <2> QED BY <1>0, <1>2, <1>5, <2>3 DEF Subscribe, NothingMissed
<1>6. CASE OnMessage
  <2>1. ASSUME ~gap
        PROVE  inbox' \in Seq(Announced) /\ docs' \in [Scope -> Announced \union {None}]
    <3>1. Head(inbox) \in Announced /\ inbox' \in Seq(Announced)
      BY <1>0, <1>6, <2>1, HeadTailProperties DEF NothingMissed, OnMessage
    <3> QED BY <1>0, <1>6, <2>1, <3>1 DEF NothingMissed, OnMessage
  <2> QED BY <1>2, <1>6, <2>1 DEF OnMessage
<1>7. CASE OnDisconnect
  <2>1. ~gap => docs' \in [Scope -> Announced \union {None}]
    BY <1>0, <1>7 DEF NothingMissed, OnDisconnect, NoDocs
  <2> QED BY <1>2, <1>7, <1>e, <2>1 DEF OnDisconnect
<1>8. CASE Timeout
  BY <1>2, <1>8, <1>e DEF Timeout, NoDocs
<1>9. CASE BuildAgentRuntimeConfig
  <2>1. ~gap => docs' \in [Scope -> Announced \union {None}]
    BY <1>0, <1>9 DEF NothingMissed, BuildAgentRuntimeConfig, Accepted, NoDocs
  <2> QED BY <1>2, <1>9, <1>e, <2>1 DEF BuildAgentRuntimeConfig
<1>10. CASE StopAgent
  BY <1>0, <1>2, <1>10 DEF StopAgent, NoDocs, NothingMissed
<1>11. ASSUME NEW s \in Source, Observe(s) PROVE NothingMissed'
  <2> DEFINE e == [what |-> "event", owner |-> docs[AgentScope].config.owner,
                   source |-> s, rev |-> docs[s].config.rev,
                   edition |-> docs[s].config.edition]
  <2>1. pending' = pending \union {e}
    BY <1>11 DEF Observe
  <2>2. ASSUME ~gap PROVE CacheKey(e) \in Known
    <3>1. docs[s] # None /\ Name(docs[s].config) = Name(docs[AgentScope].config)
      BY <1>0, <1>11 DEF AcceptedIsOneRender, Observe
    <3>2. docs[s] \in Announced /\ docs[s].scope = s /\ s # AgentScope
      BY <1>0, <2>2, <3>1, ScopeAssumption
         DEF NothingMissed, MessagesAreLogged, Filed, Scope
    <3>3. CacheKey(e) = CacheKey(ItemOf(docs[s]))
      BY <3>1, <3>2 DEF CacheKey, ItemOf, Name
    <3> QED BY <3>2, <3>3 DEF Announced
  <2> HIDE DEF e
  <2> QED BY <1>0, <1>11, <1>n, <2>1, <2>2, KnownStays DEF NothingMissed, Observe
<1>12. ASSUME NEW e \in pending, DeliverEvent(e) PROVE NothingMissed'
  <2> SUFFICES ASSUME ~gap PROVE NothingMissed'
    BY <1>12 DEF DeliverEvent, NothingMissed
  <2>1. feed' = Append(feed, e) /\ cache' = cache /\ e \in Item /\ CacheKey(e) \in Known
    BY <1>0, <1>12 DEF DeliverEvent, NothingMissed, TypeOK
  <2>2. Known \subseteq Known' /\ Announced \subseteq Announced'
    BY <1>0, <2>1, FeedGrows, AnnouncedGrows
  <2>3. \A j \in 1..Len(feed') :
            feed'[j].what = "event" => CacheKey(feed'[j]) \in KnownBefore(j)'
    <3>1. Len(feed) \in Nat
      BY <1>0, LenProperties DEF TypeOK
    <3>2. \A j : j = Len(feed) + 1 => CacheKey(e) \in KnownBefore(j)'
      BY <1>0, <2>1, <3>1, FeedGrows DEF Known
    <3> QED BY <1>0, <2>1, <3>1, <3>2, FeedGrows DEF NothingMissed
  <2>4. inbox' \in Seq(Announced')
    BY <1>0, <1>12, <2>2, SeqMonotonic DEF NothingMissed, DeliverEvent
  <2> QED BY <1>0, <1>12, <2>2, <2>3, <2>4 DEF NothingMissed, DeliverEvent
<1>13. CASE Ingest
  <2> SUFFICES ASSUME ~gap PROVE NothingMissed'
    BY <1>13 DEF Ingest, NothingMissed
  <2>1. Keys \subseteq Keys' /\ (Head(feed).what = "config" => CacheKey(Head(feed)) \in Keys')
    <3>1. CASE Head(feed).what = "config" /\ CacheConfig
      BY <3>1, CachedKeys DEF CacheConfig
    <3>2. CASE Head(feed).what = "event" /\ EnrichEvent
      BY <3>2 DEF EnrichEvent, Keys
    <3> QED BY <1>13, <3>1, <3>2 DEF Ingest
  <2>2. /\ feed # <<>> /\ feed' = Tail(feed)
        /\ UNCHANGED <<online, inbox, retained, docs, pending, gap, freed>>
    BY <1>13 DEF Ingest
  <2>3. /\ \A j \in 1..Len(feed') :
                /\ j + 1 \in 1..Len(feed) /\ feed'[j] = feed[j + 1]
                /\ KnownBefore(j + 1) \subseteq KnownBefore(j)'
        /\ Known \subseteq Known' /\ Announced \subseteq Announced'
    BY <1>0, <2>1, <2>2, FeedShrinks, AnnouncedGrows
  <2>4. \A e \in errors' : Name(e) \in freed
    <3>1. CASE CacheConfig
      BY <1>0, <3>1 DEF CacheConfig, NothingMissed
    <3>2. CASE Head(feed).what = "event" /\ EnrichEvent
      <4>1. Head(feed) = feed[1] /\ 1 \in 1..Len(feed)
        BY <1>0, <2>2, EmptySeq, HeadTailProperties DEF TypeOK
      <4>2. CacheKey(Head(feed)) \in KnownBefore(1)
        BY <1>0, <3>2, <4>1 DEF NothingMissed
      <4>3. ConfigsBefore(1) = {}
        BY DEF ConfigsBefore
      <4>4. PICK y \in Found(Head(feed)) : TRUE
        BY <4>2, <4>3 DEF KnownBefore, Keys, Found
      <4>5. y.config.edition = Head(feed).edition \/ Name(Head(feed)) \in freed
        <5>1. Head(feed) \in Shown /\ y.config \in Shown
          BY <2>2, <4>4, HeadTailProperties DEF IndInv, ItemsAreShown, Found
        <5>2. CacheKey(Head(feed)) = CacheKey(y.config)
          BY <4>4 DEF IndInv, EntriesAreKeyed, Found
        <5> QED BY <5>1, <5>2, SameEdition DEF IndInv
      <4> QED BY <1>0, <3>2, <4>4, <4>5 DEF EnrichEvent, NothingMissed
    <3> QED BY <1>13, <3>1, <3>2 DEF Ingest
  <2>5. inbox' \in Seq(Announced')
    BY <1>0, <2>2, <2>3, SeqMonotonic DEF NothingMissed
  <2>6. \A j \in 1..Len(feed') :
            feed'[j].what = "event" => CacheKey(feed'[j]) \in KnownBefore(j)'
    BY <1>0, <2>3 DEF NothingMissed
  <2> QED BY <1>0, <2>2, <2>3, <2>4, <2>5, <2>6 DEF NothingMissed
<1>14. CASE ReadSnapshot
  <2> SUFFICES ASSUME ~gap PROVE NothingMissed'
    BY <1>14 DEF ReadSnapshot, NothingMissed
  <2>1. Keys \subseteq Keys' /\ feed' = feed
    BY <1>14, CachedKeys DEF ReadSnapshot, Keys
  <2>2. \A j : KnownBefore(j) \subseteq KnownBefore(j)'
    BY <2>1 DEF KnownBefore, ConfigsBefore
  <2>3. Known \subseteq Known' /\ Announced \subseteq Announced'
    BY <2>1, <2>2, AnnouncedGrows DEF Known
  <2>4. inbox' \in Seq(Announced')
    BY <1>0, <1>14, <2>3, SeqMonotonic DEF NothingMissed, ReadSnapshot
  <2> QED BY <1>0, <1>14, <2>1, <2>2, <2>3, <2>4 DEF NothingMissed, ReadSnapshot
<1>15. CASE Disconnect \/ RestartIngestion
  BY <1>15 DEF Disconnect, RestartIngestion, NothingMissed
<1>16. CASE Connect
  BY <1>0, <1>16 DEF Connect, NothingMissed
<1>17. ASSUME NEW y \in cache, Expire(y) PROVE NothingMissed'
  BY <1>17 DEF Expire, NothingMissed
<1>18. CASE \/ \E c \in Config : Render(c)
            \/ \E c \in rendered, t \in Scope : Publish([config |-> c, scope |-> t])
  BY <1>1, <1>18 DEF Render, Publish
<1>21. CASE \E o \in Owner : DeleteAgentRegistryGraph(o)
  BY <1>1, <1>21 DEF DeleteAgentRegistryGraph
<1>19. CASE SkipCompacted \/ UNCHANGED vars
  BY <1>1, <1>19 DEF SkipCompacted, vars
<1>20. CASE RestartForwarder
  BY <1>1, <1>20 DEF RestartForwarder
<1> QED BY <1>3, <1>4, <1>5, <1>6, <1>7, <1>8, <1>9, <1>10, <1>11, <1>12, <1>13,
     <1>14, <1>15, <1>16, <1>17, <1>18, <1>19, <1>20, <1>21 DEF Next

-----------------------------------------------------------------------------
(* The theorems.                                                           *)

(* Nothing is rendered, logged or cached yet. *)
LEMMA InitHolds == Init => IndInv
<1> SUFFICES ASSUME Init PROVE IndInv
  OBVIOUS
<1>1. /\ configs = <<>> /\ inbox = <<>> /\ feed = <<>>
      /\ \A S : <<>> \in Seq(S)
      /\ Len(<<>>) = 0
  BY EmptySeq DEF Init
<1>2. TypeOK
  <2>1. /\ configs \in Seq(Message) /\ inbox \in Seq(Message) /\ feed \in Seq(Item)
        /\ forwarded \in 0..Len(configs) /\ snapshots \in 0..Len(configs)
    BY <1>1 DEF Init
  <2> QED BY <2>1 DEF Init, TypeOK, NoDocs
<1>3. RevisionsAreStoredOnce /\ MessagesAreLogged
  BY <1>1 DEF Init, RevisionsAreStoredOnce, MessagesAreLogged, Filed, NoDocs
<1>4. AcceptedIsOneRender /\ RefusedOnlyIfTorn /\ CalmMeetsOneSet
  BY DEF Init, AcceptedIsOneRender, RefusedOnlyIfTorn, CalmMeetsOneSet
<1>5. ItemsAreShown /\ EntriesAreKeyed /\ EnrichedByItsRevision
  BY <1>1 DEF Init, ItemsAreShown, EntriesAreKeyed, EnrichedByItsRevision
<1>6. PassedIsRetained /\ ReadIsCached
  BY DEF Init, PassedIsRetained, ReadIsCached
<1>7. NothingMissed
  BY <1>1 DEF Init, NothingMissed, NoDocs
<1> QED BY <1>2, <1>3, <1>4, <1>5, <1>6, <1>7 DEF IndInv

(* The messages on their way, the broker, the agent and the caches, related. *)
THEOREM Invariance == Spec => []IndInv
<1>1. IndInv /\ [Next]_vars => IndInv'
  BY TypeStep, MessagesStep, CalmStep, ItemsStep, CacheStep, ForwarderStep, SnapshotsStep,
     IngestionStep DEF IndInv
<1> QED BY <1>1, InitHolds, PTL DEF Spec

(* Topics hold records of stored configs, positions are within them. *)
THEOREM TypeCorrect == Spec => []TypeOK
<1>1. IndInv => TypeOK
  BY DEF IndInv
<1> QED BY <1>1, Invariance, PTL

(* An agent runs payloads of one name, all of them, and of one render unless *)
(* that name was deleted, for any order, any number of copies and restarts,  *)
(* and any assets that share its code.                                       *)
THEOREM AgentsRunOneRender == Spec => []AcceptedIsOneRender
<1>1. IndInv => AcceptedIsOneRender
  BY DEF IndInv
<1> QED BY <1>1, Invariance, PTL

(* An agent refuses only what was torn or changed under it. *)
THEOREM RefusalsAreEarned == Spec => []RefusedOnlyIfTorn
<1>1. IndInv => RefusedOnlyIfTorn
  BY DEF IndInv
<1> QED BY <1>1, Invariance, PTL

(* Events are enriched by the revision they were observed under, and by what *)
(* it said then unless its name was deleted.                                 *)
THEOREM EnrichmentIsTrue == Spec => []EnrichedByItsRevision
<1>1. IndInv => EnrichedByItsRevision
  BY DEF IndInv
<1> QED BY <1>1, Invariance, PTL

(* Without a gap in ingestion and a deletion of its name no event misses its *)
(* source config.                                                            *)
THEOREM NoMissWithoutGap == Spec => []MissedOnlyAfterGap
<1>1. IndInv => MissedOnlyAfterGap
  BY DEF IndInv, NothingMissed, MissedOnlyAfterGap
<1> QED BY <1>1, Invariance, PTL

(* A forwarder that has caught up has left the newest record of each topic. *)
THEOREM ForwarderCatchesUp == Spec => []CaughtUpIsNewest
<1>1. IndInv => CaughtUpIsNewest
  BY DEF IndInv, PassedIsRetained, CaughtUpIsNewest
<1> QED BY <1>1, Invariance, PTL

(* A pipeline that has read all snapshots has the newest config of each source. *)
THEOREM IngestionCatchesUp == Spec => []ReplayRestoresCache
<1>1. IndInv => ReplayRestoresCache
  BY DEF IndInv, ReadIsCached, ReplayRestoresCache, Keys
<1> QED BY <1>1, Invariance, PTL

=============================================================================
