--------------------------- MODULE ConfigRegistry ---------------------------
(***************************************************************************)
(* The Config Registry on Postgres: the tables of the directory and of the *)
(* config revisions, and the use cases that clients (the HTTP API and the  *)
(* backoffice) run on them side by side.                                   *)
(*                                                                         *)
(* A use case is a unit of work of its own, at READ COMMITTED: it checks   *)
(* (a Begin action), and later writes and commits (a Commit action); in    *)
(* between other clients commit.  The write looks the rows up again and,   *)
(* where they are gone, returns without a word; what the tables themselves *)
(* refuse (a unique or a foreign key) rolls the call back (Abort).  A call *)
(* that its checks refuse changes nothing and is not an action.            *)
(*                                                                         *)
(* Left out: names, descriptions, status and settings, which no check and  *)
(* no constraint reads (so the updates that change only these are not      *)
(* actions), and point_ref, which is treated exactly as point_key.         *)
(***************************************************************************)
EXTENDS Naturals, FiniteSets

CONSTANTS Client, TenantCode, AssetCode, AgentCode, SourceCode, PointCode,
          PointKey, Revision, RowId, None, AgentScope,
          MaxLeaves     \* bound on the sources and points there are at once

ASSUME NoneAssumption ==
    /\ None \notin RowId \union TenantCode \union AssetCode \union AgentCode
                \union SourceCode \union PointCode \union PointKey \union Revision
    /\ AgentScope \notin SourceCode

VARIABLES
    tenants, assets, agents, sources, points,   \* the tables, sets of rows
    runtimes, sourceRevs, outbox,
    session,    \* what the unit of work of each client has read so far
    lost        \* history: the sources deleted since the client rendered

directory == <<tenants, assets, agents, sources, points>>
config == <<runtimes, sourceRevs, outbox>>
tables == <<directory, config>>
vars == <<tables, session, lost>>

Tenant == [id : RowId, code : TenantCode]
Asset == [id : RowId, tenant : RowId, code : AssetCode]
Agent == [id : RowId, asset : RowId, code : AgentCode]
Source == [id : RowId, agent : RowId, code : SourceCode]
Point == [id : RowId, tenant : RowId, source : RowId,
          code : PointCode, key : PointKey]
AgentPath == TenantCode \X AssetCode \X AgentCode
\* The rows of the config tables repeat the codes of what they refer to.
Runtime == [id : RowId, agent : RowId, path : AgentPath, rev : Revision,
            lists : SUBSET SourceCode]
SourceRev == [source : RowId, runtime : RowId, path : AgentPath,
              code : SourceCode, srev : Revision, rev : Revision]
OutboxRow == [agent : RowId, source : RowId \union {None}, path : AgentPath,
              code : SourceCode \union {AgentScope}, rev : Revision]

Op == {"none", "create tenant", "delete tenant", "create asset", "delete asset",
       "create agent", "delete agent", "create source", "delete source",
       "create point", "update point", "delete point", "runtime revision",
       "source revision", "rendered", "storing", "recording", "delete graph"}

\* What a unit of work remembers: its arguments, what a Render listed; of a
\* config being stored, the rows that are still to be looked up and those that
\* are inserted; what a graph delete found and is to delete besides.
UseCase ==
    [op : Op, t : TenantCode \union {None}, a : AssetCode \union {None},
     g : AgentCode \union {None}, s : SourceCode \union {None},
     p : PointCode \union {None}, key : PointKey \union {None},
     rev : Revision \union {None}, srev : Revision \union {None},
     lists : SUBSET SourceCode, left : SUBSET (SourceCode \union {AgentScope}),
     agent : RowId \union {None}, kept : SUBSET Source,
     records : SUBSET OutboxRow,
     had : SUBSET {"tenant", "asset", "agent"}, with : SUBSET {"tenant", "asset"}]

Idle == [op |-> "none", t |-> None, a |-> None, g |-> None, s |-> None,
         p |-> None, key |-> None, rev |-> None, srev |-> None,
         lists |-> {}, left |-> {}, agent |-> None, kept |-> {}, records |-> {},
         had |-> {}, with |-> {}]

\* A uuid4 is never handed out twice; the model takes one that no row
\* has, and stops inserting where RowId, its bound on the rows of a table, is
\* used up.
Fresh(table) == CHOOSE i \in RowId : \A r \in table : r.id # i
Room(table) == \E i \in RowId : \A r \in table : r.id # i
RoomForLeaf == Cardinality(sources) + Cardinality(points) < MaxLeaves

-----------------------------------------------------------------------------
(* Looking rows up by their public codes.                                  *)

TenantRows(t) == {r \in tenants : r.code = t}

AssetRows(t, a) ==
    {r \in assets : r.code = a /\ \E q \in TenantRows(t) : r.tenant = q.id}

AgentRows(t, a, g) ==
    {r \in agents : r.code = g /\ \E q \in AssetRows(t, a) : r.asset = q.id}

SourceRows(t, a, g, s) ==
    {r \in sources : r.code = s /\ \E q \in AgentRows(t, a, g) : r.agent = q.id}

\* A point is found by its tenant and code, along the chain of its owners.
PointRows(t, p) ==
    {r \in points : r.code = p
        /\ \E q \in sources : /\ r.source = q.id
                              /\ \E x \in agents, y \in assets :
                                    /\ q.agent = x.id /\ x.asset = y.id
                                    /\ \E z \in TenantRows(t) : y.tenant = z.id}

KeyRows(t, a, g, s, key) ==
    {r \in points : r.key = key
        /\ \E q \in SourceRows(t, a, g, s) : r.source = q.id}

RuntimeRows(path, rev) == {r \in runtimes : r.path = path /\ r.rev = rev}

\* Fault: the insert of the revision takes no lock on the agent.
LockedAgentsNone == {}

\* What a transaction that is storing a config has inserted holds a key-share
\* lock on the agent and the source it refers to: no other transaction can
\* delete them before it ends.
LockedAgents ==
    UNION {{session[c].agent}
            \union {r.agent : r \in session[c].kept \union session[c].records}
                : c \in Client}

LockedSources ==
    UNION {{r.id : r \in session[c].kept}
            \union {r.source : r \in session[c].records} : c \in Client}

-----------------------------------------------------------------------------
(* The steps of a unit of work.                                            *)

Begin(c, call) ==
    /\ session[c] = Idle
    /\ session' = [session EXCEPT ![c] = call]
    /\ UNCHANGED <<tables, lost>>

Done(c) == session' = [session EXCEPT ![c] = Idle]

\* A constraint refuses the write, or the connection is lost: rolled back.
Abort(c) ==
    /\ session[c] # Idle
    /\ Done(c)
    /\ lost' = [lost EXCEPT ![c] = {}]
    /\ UNCHANGED tables

-----------------------------------------------------------------------------
(* Tenants, assets, agents and sources.                                    *)

BeginCreateTenant(c, t) ==
    /\ TenantRows(t) = {}
    /\ Begin(c, [Idle EXCEPT !.op = "create tenant", !.t = t])

AddTenant(c) ==
    LET do == session[c] IN
    /\ do.op = "create tenant" /\ Room(tenants)
    /\ \A r \in tenants : r.code # do.t
    /\ tenants' = tenants \union {[id |-> Fresh(tenants), code |-> do.t]}
    /\ Done(c)
    /\ UNCHANGED <<assets, agents, sources, points, config, lost>>

BeginDeleteTenant(c, t) ==
    /\ \E q \in TenantRows(t) : \A r \in assets : r.tenant # q.id
    /\ Begin(c, [Idle EXCEPT !.op = "delete tenant", !.t = t])

DropTenant(c) ==
    LET do == session[c]  rows == TenantRows(do.t) IN
    /\ do.op = "delete tenant"
    /\ \A q \in rows, r \in assets : r.tenant # q.id
    /\ tenants' = tenants \ rows
    /\ Done(c)
    /\ UNCHANGED <<assets, agents, sources, points, config, lost>>

BeginCreateAsset(c, t, a) ==
    /\ TenantRows(t) # {} /\ AssetRows(t, a) = {}
    /\ Begin(c, [Idle EXCEPT !.op = "create asset", !.t = t, !.a = a])

AddAsset(c) ==
    LET do == session[c] IN
    /\ do.op = "create asset" /\ Room(assets)
    /\ AssetRows(do.t, do.a) = {}
    /\ assets' = assets \union
            {[id |-> Fresh(assets), tenant |-> q.id, code |-> do.a]
                : q \in TenantRows(do.t)}
    /\ Done(c)
    /\ UNCHANGED <<tenants, agents, sources, points, config, lost>>

BeginDeleteAsset(c, t, a) ==
    /\ \E q \in AssetRows(t, a) : \A r \in agents : r.asset # q.id
    /\ Begin(c, [Idle EXCEPT !.op = "delete asset", !.t = t, !.a = a])

DropAsset(c) ==
    LET do == session[c]  rows == AssetRows(do.t, do.a) IN
    /\ do.op = "delete asset"
    /\ \A q \in rows, r \in agents : r.asset # q.id
    /\ assets' = assets \ rows
    /\ Done(c)
    /\ UNCHANGED <<tenants, agents, sources, points, config, lost>>

BeginCreateAgent(c, t, a, g) ==
    /\ AssetRows(t, a) # {} /\ AgentRows(t, a, g) = {}
    /\ Begin(c, [Idle EXCEPT !.op = "create agent", !.t = t, !.a = a, !.g = g])

AddAgent(c) ==
    LET do == session[c] IN
    /\ do.op = "create agent" /\ Room(agents)
    /\ AgentRows(do.t, do.a, do.g) = {}
    /\ agents' = agents \union
            {[id |-> Fresh(agents), asset |-> q.id, code |-> do.g]
                : q \in AssetRows(do.t, do.a)}
    /\ Done(c)
    /\ UNCHANGED <<tenants, assets, sources, points, config, lost>>

\* Checked by the codes in the revisions and records, enforced by their ids.
BeginDeleteAgent(c, t, a, g) ==
    /\ \E q \in AgentRows(t, a, g) : \A r \in sources : r.agent # q.id
    /\ \A r \in runtimes \union outbox : r.path # <<t, a, g>>
    /\ Begin(c, [Idle EXCEPT !.op = "delete agent", !.t = t, !.a = a, !.g = g])

DropAgent(c) ==
    LET do == session[c]  rows == AgentRows(do.t, do.a, do.g) IN
    /\ do.op = "delete agent"
    /\ \A q \in rows : /\ q.id \notin LockedAgents
                       /\ \A r \in sources \union runtimes \union outbox :
                                r.agent # q.id
    /\ agents' = agents \ rows
    /\ Done(c)
    /\ UNCHANGED <<tenants, assets, sources, points, config, lost>>

BeginCreateSource(c, t, a, g, s) ==
    /\ AgentRows(t, a, g) # {} /\ SourceRows(t, a, g, s) = {}
    /\ Begin(c, [Idle EXCEPT !.op = "create source",
                             !.t = t, !.a = a, !.g = g, !.s = s])

AddSource(c) ==
    LET do == session[c] IN
    /\ do.op = "create source" /\ Room(sources) /\ RoomForLeaf
    /\ SourceRows(do.t, do.a, do.g, do.s) = {}
    /\ sources' = sources \union
            {[id |-> Fresh(sources), agent |-> q.id, code |-> do.s]
                : q \in AgentRows(do.t, do.a, do.g)}
    /\ Done(c)
    /\ UNCHANGED <<tenants, assets, agents, points, config, lost>>

BeginDeleteSource(c, t, a, g, s) ==
    /\ \E q \in SourceRows(t, a, g, s) : \A r \in points : r.source # q.id
    /\ \A r \in sourceRevs \union outbox : <<r.path, r.code>> # <<<<t, a, g>>, s>>
    /\ Begin(c, [Idle EXCEPT !.op = "delete source",
                             !.t = t, !.a = a, !.g = g, !.s = s])

\* Every client that has rendered this agent and not stored yet loses the source.
Lose(path, codes) ==
    lost' = [d \in Client |->
                IF /\ session[d].op \in {"rendered", "storing", "recording"}
                   /\ <<session[d].t, session[d].a, session[d].g>> = path
                THEN lost[d] \union codes ELSE lost[d]]

\* Fault: the point's foreign key does not restrict the delete.
DropSourceUnchecked(c) ==
    LET do == session[c]  rows == SourceRows(do.t, do.a, do.g, do.s) IN
    /\ do.op = "delete source"
    /\ \A q \in rows : q.id \notin LockedSources
    /\ \A q \in rows, r \in sourceRevs \union outbox : r.source # q.id
    /\ sources' = sources \ rows
    /\ Lose(<<do.t, do.a, do.g>>, {q.code : q \in rows})
    /\ Done(c)
    /\ UNCHANGED <<tenants, assets, agents, points, config>>

DropSource(c) ==
    LET do == session[c]  rows == SourceRows(do.t, do.a, do.g, do.s) IN
    /\ do.op = "delete source"
    /\ \A q \in rows : q.id \notin LockedSources
    /\ \A q \in rows, r \in points \union sourceRevs \union outbox :
            r.source # q.id
    /\ sources' = sources \ rows
    /\ Lose(<<do.t, do.a, do.g>>, {q.code : q \in rows})
    /\ Done(c)
    /\ UNCHANGED <<tenants, assets, agents, points, config>>

-----------------------------------------------------------------------------
(* Points.                                                                 *)

BeginCreatePoint(c, t, a, g, s, p, key) ==
    /\ SourceRows(t, a, g, s) # {}
    /\ PointRows(t, p) = {} /\ KeyRows(t, a, g, s, key) = {}
    /\ Begin(c, [Idle EXCEPT !.op = "create point", !.t = t, !.a = a, !.g = g,
                             !.s = s, !.p = p, !.key = key])

\* Fault: no unique constraint on the code in the tenant.
PointRefusedByKey(row, others) ==
    \E r \in others : r.source = row.source /\ r.key = row.key

\* Neither the code in the tenant nor the key in the source may be taken.
PointRefused(row, others) ==
    \E r \in others : \/ r.tenant = row.tenant /\ r.code = row.code
                      \/ r.source = row.source /\ r.key = row.key

NewPoints(do) ==
    {[id |-> Fresh(points), tenant |-> z.id, source |-> q.id,
      code |-> do.p, key |-> do.key]
        : q \in SourceRows(do.t, do.a, do.g, do.s), z \in TenantRows(do.t)}

AddPoint(c) ==
    LET do == session[c] IN
    /\ do.op = "create point" /\ Room(points) /\ RoomForLeaf
    /\ \A row \in NewPoints(do) : ~PointRefused(row, points)
    /\ points' = points \union NewPoints(do)
    /\ Done(c)
    /\ UNCHANGED <<tenants, assets, agents, sources, config, lost>>

\* The key must be free in the source of the point, or its own.
BeginUpdatePoint(c, t, p, key) ==
    \E row \in PointRows(t, p) :
        /\ \A r \in points \ {row} : <<r.source, r.key>> # <<row.source, key>>
        /\ Begin(c, [Idle EXCEPT !.op = "update point", !.t = t, !.p = p,
                                 !.key = key])

\* The point is read anew and gets the key, also where the client did not change
\* it and another has meanwhile.
SetPoint(c) ==
    LET do == session[c]
        rows == PointRows(do.t, do.p)
        new == {[row EXCEPT !.key = do.key] : row \in rows}
    IN
    /\ do.op = "update point"
    /\ \A row \in new : ~PointRefused(row, points \ rows)
    /\ points' = (points \ rows) \union new
    /\ Done(c)
    /\ UNCHANGED <<tenants, assets, agents, sources, config, lost>>

BeginDeletePoint(c, t, p) ==
    /\ PointRows(t, p) # {}
    /\ Begin(c, [Idle EXCEPT !.op = "delete point", !.t = t, !.p = p])

DropPoint(c) ==
    LET do == session[c] IN
    /\ do.op = "delete point"
    /\ points' = points \ PointRows(do.t, do.p)
    /\ Done(c)
    /\ UNCHANGED <<tenants, assets, agents, sources, config, lost>>

-----------------------------------------------------------------------------
(* Config revisions, entered by hand in the backoffice: no outbox record.  *)

BeginRuntimeRevision(c, t, a, g, rev) ==
    /\ AgentRows(t, a, g) # {} /\ RuntimeRows(<<t, a, g>>, rev) = {}
    /\ Begin(c, [Idle EXCEPT !.op = "runtime revision",
                             !.t = t, !.a = a, !.g = g, !.rev = rev])

AddRuntimeRevision(c) ==
    LET do == session[c]  path == <<do.t, do.a, do.g>> IN
    /\ do.op = "runtime revision" /\ Room(runtimes)
    /\ RuntimeRows(path, do.rev) = {}
    /\ runtimes' = runtimes \union
            {[id |-> Fresh(runtimes), agent |-> q.id, path |-> path,
              rev |-> do.rev, lists |-> {}] : q \in AgentRows(do.t, do.a, do.g)}
    /\ Done(c)
    /\ UNCHANGED <<directory, sourceRevs, outbox, lost>>

\* One revision of a source is stored once.
SourceRevTaken(path, s, srev) ==
    \E r \in sourceRevs : r.path = path /\ r.code = s /\ r.srev = srev

BeginSourceRevision(c, t, a, g, s, srev, rev) ==
    /\ SourceRows(t, a, g, s) # {} /\ ~SourceRevTaken(<<t, a, g>>, s, srev)
    /\ Begin(c, [Idle EXCEPT !.op = "source revision", !.t = t, !.a = a,
                             !.g = g, !.s = s, !.srev = srev, !.rev = rev])

\* Nothing is stored, and success is reported, when the runtime revision it
\* belongs to is not there.
NewSourceRevisions(do) ==
    {[source |-> q.id, runtime |-> r.id, path |-> <<do.t, do.a, do.g>>,
      code |-> do.s, srev |-> do.srev, rev |-> do.rev]
        : q \in SourceRows(do.t, do.a, do.g, do.s),
          r \in RuntimeRows(<<do.t, do.a, do.g>>, do.rev)}

AddSourceRevision(c) ==
    LET do == session[c] IN
    /\ do.op = "source revision"
    /\ ~SourceRevTaken(<<do.t, do.a, do.g>>, do.s, do.srev)
    /\ sourceRevs' = sourceRevs \union NewSourceRevisions(do)
    /\ Done(c)
    /\ UNCHANGED <<directory, runtimes, outbox, lost>>

-----------------------------------------------------------------------------
(* Rendering a config and storing it: two units of work.                   *)

\* The API may name the revisions of the sources (here, all of them alike);
\* by default they are named after the config's.
Render(c, t, a, g, rev, srev) ==
    LET listed == {s \in SourceCode : SourceRows(t, a, g, s) # {}} IN
    /\ listed # {}
    /\ Begin(c, [Idle EXCEPT !.op = "rendered", !.t = t, !.a = a, !.g = g,
                             !.rev = rev, !.srev = srev, !.lists = listed])

\* Storing is one transaction that looks every row up for itself, and inserts
\* what refers to it right after: other clients commit between the lookups.  First
\* the runtime revision, of the agent if it is there.
BeginStore(c) ==
    LET do == session[c]
        storing == [do EXCEPT !.op = "storing", !.left = do.lists]
        rows == AgentRows(do.t, do.a, do.g)
    IN
    /\ do.op = "rendered"
    /\ RuntimeRows(<<do.t, do.a, do.g>>, do.rev) = {}
    /\ \/ rows = {} /\ session' = [session EXCEPT ![c] = storing]
       \/ \E q \in rows :
            session' = [session EXCEPT ![c] = [storing EXCEPT !.agent = q.id]]
    /\ UNCHANGED <<tables, lost>>

\* The runtime revision the source revisions belong to: the one inserted, or one
\* of this name stored since, for the agent that was created anew meanwhile.
OfRuntime(do) ==
    IF do.agent # None THEN {Fresh(runtimes)}
    ELSE {r.id : r \in RuntimeRows(<<do.t, do.a, do.g>>, do.rev)}

\* Then the revision of each source listed, if source and runtime revision are
\* there.
StoreSourceRevision(c) ==
    LET do == session[c] IN
    \E s \in do.left :
        LET rows == IF OfRuntime(do) = {} THEN {}
                    ELSE SourceRows(do.t, do.a, do.g, s)
            kept == [do EXCEPT !.left = @ \ {s}, !.kept = @ \union rows]
        IN  /\ do.op = "storing"
            /\ session' = [session EXCEPT ![c] =
                    IF kept.left # {} THEN kept
                    ELSE [kept EXCEPT !.op = "recording",
                                      !.left = do.lists \union {AgentScope}]]
            /\ UNCHANGED <<tables, lost>>

\* Fault: only the sources get an outbox record.
NewRecordsOfSources(do, x) ==
    {[agent |-> r.agent, source |-> r.id, path |-> <<do.t, do.a, do.g>>,
      code |-> x, rev |-> do.rev] : r \in SourceRows(do.t, do.a, do.g, x)}

\* The outbox record of the agent, or of one source, if they are there.
NewRecords(do, x) ==
    LET record(q, source) ==
            [agent |-> q, source |-> source, path |-> <<do.t, do.a, do.g>>,
             code |-> x, rev |-> do.rev]
    IN  IF x = AgentScope
        THEN {record(q.id, None) : q \in AgentRows(do.t, do.a, do.g)}
        ELSE {record(r.agent, r.id) : r \in SourceRows(do.t, do.a, do.g, x)}

\* Then the outbox records, the agent's first.
StoreRecord(c) ==
    LET do == session[c] IN
    \E x \in do.left :
        /\ do.op = "recording"
        /\ AgentScope \in do.left => x = AgentScope
        /\ session' = [session EXCEPT
                ![c].left = @ \ {x}, ![c].records = @ \union NewRecords(do, x)]
        /\ UNCHANGED <<tables, lost>>

\* Fault: the add does not return when the agent is gone; only sources
\* with points get a revision.
NewRuntimesRegardless(do) ==
    {[id |-> Fresh(runtimes), agent |-> do.agent, path |-> <<do.t, do.a, do.g>>,
      rev |-> do.rev, lists |-> do.lists]}

KeptSourceRevsWithPoints(do) ==
    {[source |-> q.id, runtime |-> i, path |-> <<do.t, do.a, do.g>>,
      code |-> q.code, srev |-> do.srev, rev |-> do.rev]
        : q \in {x \in do.kept : \E r \in points : r.source = x.id},
          i \in OfRuntime(do)}

\* The revisions the transaction commits.
NewRuntimes(do) ==
    IF do.agent = None THEN {}
    ELSE {[id |-> Fresh(runtimes), agent |-> do.agent,
           path |-> <<do.t, do.a, do.g>>, rev |-> do.rev, lists |-> do.lists]}

KeptSourceRevs(do) ==
    {[source |-> q.id, runtime |-> i, path |-> <<do.t, do.a, do.g>>,
      code |-> q.code, srev |-> do.srev, rev |-> do.rev]
        : q \in do.kept, i \in OfRuntime(do)}

\* The commit.  A revision or an idempotency key that is taken refuses the whole
\* call.
StoreOutbox(c) ==
    LET do == session[c]  path == <<do.t, do.a, do.g>> IN
    /\ do.op = "recording" /\ do.left = {} /\ Room(runtimes)
    /\ do.agent # None => RuntimeRows(path, do.rev) = {}
    /\ \A q \in do.kept : ~SourceRevTaken(path, q.code, do.srev)
    /\ \A r \in outbox, n \in do.records :
            <<r.path, r.code, r.rev>> # <<n.path, n.code, n.rev>>
    /\ runtimes' = runtimes \union NewRuntimes(do)
    /\ sourceRevs' = sourceRevs \union KeptSourceRevs(do)
    /\ outbox' = outbox \union do.records
    /\ Done(c)
    /\ lost' = [lost EXCEPT ![c] = {}]
    /\ UNCHANGED directory

-----------------------------------------------------------------------------
(* Deleting the graph of an agent: one transaction, statement by statement *)
(* from the leaves up.                                                     *)

BeginDeleteGraph(c, t, a, g, with) ==
    Begin(c, [Idle EXCEPT
        !.op = "delete graph", !.t = t, !.a = a, !.g = g, !.with = with,
        !.had = {x \in {"tenant", "asset", "agent"} :
                    \/ x = "tenant" /\ TenantRows(t) # {}
                    \/ x = "asset" /\ AssetRows(t, a) # {}
                    \/ x = "agent" /\ AgentRows(t, a, g) # {}}])

DeleteGraph(c) ==
    LET do == session[c]
        path == <<do.t, do.a, do.g>>
        gone == IF "agent" \in do.had THEN AgentRows(do.t, do.a, do.g) ELSE {}
        goneSources == {r \in sources : \E q \in gone : r.agent = q.id}
        ofAsset == AssetRows(do.t, do.a)
        byCode(table) == IF "agent" \in do.had
                         THEN {r \in table : r.path # path} ELSE table
    IN
    /\ do.op = "delete graph"
    /\ \A q \in gone : q.id \notin LockedAgents
    /\ \A q \in goneSources : q.id \notin LockedSources
    /\ outbox' = {r \in outbox : r.path # path}
    /\ sourceRevs' = byCode(sourceRevs)
    /\ runtimes' = byCode(runtimes)
    /\ points' = {r \in points : \A q \in goneSources : r.source # q.id}
    /\ \A q \in goneSources, r \in sourceRevs' \union outbox' : r.source # q.id
    /\ sources' = sources \ goneSources
    /\ \A q \in gone, r \in runtimes' \union outbox' : r.agent # q.id
    /\ agents' = agents \ gone
    /\ assets' = IF /\ {"asset"} \subseteq do.had \cap do.with
                    /\ \A q \in ofAsset, r \in agents' : r.asset # q.id
                 THEN assets \ ofAsset ELSE assets
    /\ tenants' = IF /\ {"tenant"} \subseteq do.had \cap do.with
                     /\ \A q \in TenantRows(do.t), r \in assets' : r.tenant # q.id
                  THEN tenants \ TenantRows(do.t) ELSE tenants
    /\ Lose(path, {q.code : q \in goneSources})
    /\ Done(c)

-----------------------------------------------------------------------------
Init ==
    /\ tenants = {} /\ assets = {} /\ agents = {} /\ sources = {} /\ points = {}
    /\ runtimes = {} /\ sourceRevs = {} /\ outbox = {}
    /\ session = [c \in Client |-> Idle]
    /\ lost = [c \in Client |-> {}]

Commit(c) ==
    \/ AddTenant(c) \/ DropTenant(c) \/ AddAsset(c) \/ DropAsset(c)
    \/ AddAgent(c) \/ DropAgent(c) \/ AddSource(c) \/ DropSource(c)
    \/ AddPoint(c) \/ SetPoint(c) \/ DropPoint(c)
    \/ AddRuntimeRevision(c) \/ AddSourceRevision(c)
    \/ BeginStore(c) \/ StoreSourceRevision(c) \/ StoreRecord(c) \/ StoreOutbox(c)
    \/ DeleteGraph(c) \/ Abort(c)

(* What a client may call: the admin views and the routes of the API turn  *)
(* what a form, a path or a row's id stands for into codes, and run the    *)
(* use case on a unit of work of its own.                                  *)

TenantCalls(c, t) == BeginCreateTenant(c, t) \/ BeginDeleteTenant(c, t)

AssetCalls(c, t, a) == BeginCreateAsset(c, t, a) \/ BeginDeleteAsset(c, t, a)

AgentCalls(c, t, a, g) == BeginCreateAgent(c, t, a, g) \/ BeginDeleteAgent(c, t, a, g)

SourceCalls(c, t, a, g, s) ==
    BeginCreateSource(c, t, a, g, s) \/ BeginDeleteSource(c, t, a, g, s)

PointCalls(c, t, p) ==
    \/ BeginDeletePoint(c, t, p)
    \/ \E key \in PointKey :
        \/ BeginUpdatePoint(c, t, p, key)
        \/ \E a \in AssetCode, g \in AgentCode, s \in SourceCode :
                BeginCreatePoint(c, t, a, g, s, p, key)

RevisionCalls(c, t, a, g) ==
    \E rev \in Revision :
        \/ BeginRuntimeRevision(c, t, a, g, rev)
        \/ \E s \in SourceCode, srev \in Revision :
                BeginSourceRevision(c, t, a, g, s, srev, rev)

GraphCalls(c, t, a, g) ==
    \/ \E with \in SUBSET {"asset", "tenant"} : BeginDeleteGraph(c, t, a, g, with)
    \/ \E rev, srev \in Revision : Render(c, t, a, g, rev, srev)

Call(c) ==
    \E t \in TenantCode :
        \/ TenantCalls(c, t)
        \/ \E p \in PointCode : PointCalls(c, t, p)
        \/ \E a \in AssetCode :
            \/ AssetCalls(c, t, a)
            \/ \E g \in AgentCode :
                \/ AgentCalls(c, t, a, g)
                \/ RevisionCalls(c, t, a, g)
                \/ GraphCalls(c, t, a, g)
                \/ \E s \in SourceCode : SourceCalls(c, t, a, g, s)

\* A client ends its use case before it calls the next.
Next == \E c \in Client : IF session[c] = Idle THEN Call(c) ELSE Commit(c)

Spec == Init /\ [][Next]_vars

-----------------------------------------------------------------------------
(* Properties.                                                             *)

\* The rows have their columns, the units of work their arguments.
TypeOK ==
    /\ tenants \subseteq Tenant /\ assets \subseteq Asset
    /\ agents \subseteq Agent /\ sources \subseteq Source
    /\ points \subseteq Point /\ runtimes \subseteq Runtime
    /\ sourceRevs \subseteq SourceRev /\ outbox \subseteq OutboxRow
    /\ session \in [Client -> UseCase]
    /\ lost \in [Client -> SUBSET SourceCode]

\* However the checks and the writes of the clients interleave, a public code
\* names one row among its siblings, a point code one point of the tenant, a
\* point key one point of the source, a revision one row, and a row id one row.
OneRowPerCode ==
    /\ \A r, q \in tenants : r.id = q.id \/ r.code = q.code => r = q
    /\ \A r, q \in assets :
            r.id = q.id \/ (r.tenant = q.tenant /\ r.code = q.code) => r = q
    /\ \A r, q \in agents :
            r.id = q.id \/ (r.asset = q.asset /\ r.code = q.code) => r = q
    /\ \A r, q \in sources :
            r.id = q.id \/ (r.agent = q.agent /\ r.code = q.code) => r = q
    /\ \A r, q \in points :
            \/ r.id = q.id
            \/ r.tenant = q.tenant /\ r.code = q.code
            \/ r.source = q.source /\ r.key = q.key
            => r = q
    /\ \A r, q \in runtimes :
            r.id = q.id \/ (r.path = q.path /\ r.rev = q.rev) => r = q
    /\ \A r, q \in sourceRevs :
            r.path = q.path /\ r.code = q.code /\ r.srev = q.srev => r = q
    /\ \A r, q \in outbox :
            r.path = q.path /\ r.code = q.code /\ r.rev = q.rev => r = q

\* No delete, of one row or of an agent's whole graph, leaves behind a row that
\* refers to what is gone, whatever was inserted between its checks and its
\* writes.
NoOrphans ==
    /\ \A r \in assets : \E q \in tenants : q.id = r.tenant
    /\ \A r \in agents : \E q \in assets : q.id = r.asset
    /\ \A r \in sources : \E q \in agents : q.id = r.agent
    /\ \A r \in points : /\ \E q \in sources : q.id = r.source
                         /\ \E q \in tenants : q.id = r.tenant
    /\ \A r \in runtimes \union outbox : \E q \in agents : q.id = r.agent
    /\ \A r \in sourceRevs : /\ \E q \in sources : q.id = r.source
                             /\ \E q \in runtimes : q.id = r.runtime
    /\ \A r \in outbox : r.source # None => \E q \in sources : q.id = r.source

\* The codes that revisions and outbox records repeat, and by which the checks
\* and the graph delete find them, are those of the rows their ids refer to: a
\* row is never adopted by an agent or a source created anew under its code.
\* And the tenant of a point is the tenant its owners belong to.
CodesAgree ==
    /\ \A r \in runtimes \union outbox :
            \E q \in AgentRows(r.path[1], r.path[2], r.path[3]) : q.id = r.agent
    /\ \A r \in sourceRevs :
            /\ \E q \in SourceRows(r.path[1], r.path[2], r.path[3], r.code) :
                    q.id = r.source
            /\ \E q \in RuntimeRows(r.path, r.rev) : q.id = r.runtime
    /\ \A r \in outbox : r.source # None =>
            \E q \in SourceRows(r.path[1], r.path[2], r.path[3], r.code) :
                    q.id = r.source
    /\ \A r \in points, z \in tenants :
            z.id = r.tenant => r \in PointRows(z.code, r.code)

\* Storing is all or nothing but for what was deleted under it: each source the
\* revision lists that has been there ever since the Render has its revision
\* and its outbox record, and the revision itself is stored with them.
StoresAllThatIsLeft ==
    [][\A c \in Client : StoreOutbox(c) =>
        LET do == session[c]  path == <<do.t, do.a, do.g>> IN
        \A s \in do.lists \ lost[c] :
            /\ \E r \in runtimes' : r.path = path /\ r.rev = do.rev /\ s \in r.lists
            /\ \E r \in sourceRevs' : r.path = path /\ r.code = s /\ r.rev = do.rev
            /\ \E r \in outbox' : r.path = path /\ r.code = s /\ r.rev = do.rev]_vars

-----------------------------------------------------------------------------
(* The tables as the directory of SerialRegistry: codes for rows.          *)

Row(table, i) == CHOOSE r \in table : r.id = i
AssetPathOf(r) == <<Row(tenants, r.tenant).code, r.code>>
AgentPathOf(r) ==
    LET up == AssetPathOf(Row(assets, r.asset)) IN <<up[1], up[2], r.code>>
SourcePathOf(r) ==
    LET up == AgentPathOf(Row(agents, r.agent)) IN <<up[1], up[2], up[3], r.code>>
PointAt(r) ==
    [tenant |-> Row(tenants, r.tenant).code, code |-> r.code,
     source |-> SourcePathOf(Row(sources, r.source)), key |-> r.key]

RuntimeAt(r) == [agent |-> r.path, rev |-> r.rev, lists |-> r.lists]
SourceRevAt(r) == [agent |-> r.path, source |-> r.code, srev |-> r.srev, rev |-> r.rev]
RecordAt(r) == [agent |-> r.path, rev |-> r.rev, source |-> r.code]

TenantCodes == {r.code : r \in tenants}
AssetPaths == {AssetPathOf(r) : r \in assets}
AgentPaths == {AgentPathOf(r) : r \in agents}
SourcePaths == {SourcePathOf(r) : r \in sources}
PointsAt == {PointAt(r) : r \in points}
RuntimesAt == {RuntimeAt(r) : r \in runtimes}
SourceRevsAt == {SourceRevAt(r) : r \in sourceRevs}
RecordsAt == {RecordAt(r) : r \in outbox}

Serial == INSTANCE SerialRegistry WITH
    tenants <- TenantCodes, assets <- AssetPaths, agents <- AgentPaths,
    sources <- SourcePaths, points <- PointsAt, runtimes <- RuntimesAt,
    sourceRevs <- SourceRevsAt, outbox <- RecordsAt

\* Checks and writes that interleave on Postgres amount to use cases run one
\* at a time on a directory of codes.
ImplementsSerialRegistry == Serial!Spec

=============================================================================
