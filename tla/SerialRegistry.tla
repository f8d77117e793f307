--------------------------- MODULE SerialRegistry ---------------------------
(***************************************************************************)
(* What the Config Registry promises: a directory keyed by the public      *)
(* codes, in which every use case runs alone and all at once.              *)
(*                                                                         *)
(* This is what the in-memory unit of work does, literally: its            *)
(* repositories are dictionaries keyed by codes, it has neither foreign    *)
(* keys nor a rollback, and a use case on it never waits, so that asyncio  *)
(* runs each one to its end before another.  ConfigRegistry shows that the *)
(* Postgres unit of work, where clients interleave, does the same.         *)
(*                                                                         *)
(* A refused call changes nothing and is not an action.  An agent is       *)
(* <<tenant, asset, agent>>, a source <<tenant, asset, agent, source>>.    *)
(***************************************************************************)
EXTENDS Naturals

CONSTANTS TenantCode, AssetCode, AgentCode, SourceCode, PointCode, PointKey,
          Revision, AgentScope

VARIABLES tenants, assets, agents, sources, points,
          runtimes, sourceRevs, outbox

directory == <<tenants, assets, agents, sources, points>>
config == <<runtimes, sourceRevs, outbox>>
vars == <<directory, config>>

\* The point with this code, of this source, published under this key.
Point(src, p, key) ==
    [tenant |-> src[1], code |-> p, source |-> src, key |-> key]

Init ==
    /\ tenants = {} /\ assets = {} /\ agents = {} /\ sources = {}
    /\ points = {} /\ runtimes = {} /\ sourceRevs = {} /\ outbox = {}

-----------------------------------------------------------------------------
(* The directory.                                                          *)

CreateTenant(t) ==
    /\ tenants' = tenants \union {t}
    /\ UNCHANGED <<assets, agents, sources, points, config>>

DeleteTenant(t) ==
    /\ \A x \in assets : x[1] # t
    /\ tenants' = tenants \ {t}
    /\ UNCHANGED <<assets, agents, sources, points, config>>

CreateAsset(t, a) ==
    /\ t \in tenants
    /\ assets' = assets \union {<<t, a>>}
    /\ UNCHANGED <<tenants, agents, sources, points, config>>

DeleteAsset(t, a) ==
    /\ \A x \in agents : <<x[1], x[2]>> # <<t, a>>
    /\ assets' = assets \ {<<t, a>>}
    /\ UNCHANGED <<tenants, agents, sources, points, config>>

CreateAgent(ag) ==
    /\ <<ag[1], ag[2]>> \in assets
    /\ agents' = agents \union {ag}
    /\ UNCHANGED <<tenants, assets, sources, points, config>>

\* Everything that names the agent must be gone first.
DeleteAgent(ag) ==
    /\ \A x \in sources : <<x[1], x[2], x[3]>> # ag
    /\ \A x \in runtimes \union outbox : x.agent # ag
    /\ agents' = agents \ {ag}
    /\ UNCHANGED <<tenants, assets, sources, points, config>>

CreateSource(src) ==
    /\ <<src[1], src[2], src[3]>> \in agents
    /\ sources' = sources \union {src}
    /\ UNCHANGED <<tenants, assets, agents, points, config>>

DeleteSource(src) ==
    /\ \A x \in points : x.source # src
    /\ \A x \in sourceRevs \union outbox :
            x.agent = <<src[1], src[2], src[3]>> => x.source # src[4]
    /\ sources' = sources \ {src}
    /\ UNCHANGED <<tenants, assets, agents, points, config>>

\* A code names one point of the tenant, a key one point of the source.
CreatePoint(src, p, key) ==
    /\ src \in sources
    /\ \A x \in points : /\ <<x.tenant, x.code>> # <<src[1], p>>
                         /\ <<x.source, x.key>> # <<src, key>>
    /\ points' = points \union {Point(src, p, key)}
    /\ UNCHANGED <<tenants, assets, agents, sources, config>>

UpdatePoint(pt, key) ==
    /\ pt \in points
    /\ \A x \in points : <<x.source, x.key>> # <<pt.source, key>>
    /\ points' = (points \ {pt}) \union {[pt EXCEPT !.key = key]}
    /\ UNCHANGED <<tenants, assets, agents, sources, config>>

DeletePoint(pt) ==
    /\ points' = points \ {pt}
    /\ UNCHANGED <<tenants, assets, agents, sources, config>>

-----------------------------------------------------------------------------
(* Config revisions and the outbox.                                        *)

CreateRuntimeRevision(ag, rev) ==
    /\ ag \in agents
    /\ \A x \in runtimes : <<x.agent, x.rev>> # <<ag, rev>>
    /\ runtimes' = runtimes \union {[agent |-> ag, rev |-> rev, lists |-> {}]}
    /\ UNCHANGED <<directory, sourceRevs, outbox>>

SourceRevision(ag, s, srev, rev) ==
    [agent |-> ag, source |-> s, srev |-> srev, rev |-> rev]

CreateSourceRevision(src, srev, rev) ==
    LET ag == <<src[1], src[2], src[3]>> IN
    /\ src \in sources
    /\ \A x \in sourceRevs :
            <<x.agent, x.source, x.srev>> # <<ag, src[4], srev>>
    /\ sourceRevs' = sourceRevs \union {SourceRevision(ag, src[4], srev, rev)}
    /\ UNCHANGED <<directory, runtimes, outbox>>

OutboxRecord(ag, rev, scope) ==
    [agent |-> ag, rev |-> rev, source |-> scope]

\* One call stores what a Render made, at once: the runtime revision, revisions
\* of the sources it lists ("kept") and outbox records ("recorded").  The client
\* looks each row up for itself, so that what vanishes and comes back under its
\* call may be left out of some and be part of others; but what is stored refers
\* to what is there, and no revision is stored without its outbox record.
StoreRendered(ag, rev, srev, recorded) ==
    /\ outbox' = outbox \union {OutboxRecord(ag, rev, x) : x \in recorded}
    /\ recorded # {} => ag \in agents
    /\ \A s \in recorded \ {AgentScope} : <<ag[1], ag[2], ag[3], s>> \in sources
    /\ \/ /\ \A x \in runtimes : <<x.agent, x.rev>> # <<ag, rev>>
          /\ AgentScope \in recorded
          /\ \E lists \in SUBSET SourceCode :
                /\ recorded \ {AgentScope} \subseteq lists
                /\ runtimes' = runtimes \union
                        {[agent |-> ag, rev |-> rev, lists |-> lists]}
       \/ UNCHANGED runtimes
    /\ \/ /\ \E x \in runtimes' : <<x.agent, x.rev>> = <<ag, rev>>
          /\ AgentScope \in recorded
          /\ \E kept \in SUBSET (recorded \ {AgentScope}) : sourceRevs' =
                sourceRevs \union {SourceRevision(ag, s, srev, rev) : s \in kept}
       \/ UNCHANGED sourceRevs
    /\ UNCHANGED directory

\* The asset of the agent, if it is left empty and the caller asks for it.
Emptied(t, a, withAsset) ==
    IF withAsset /\ \A x \in agents' : <<x[1], x[2]>> # <<t, a>>
    THEN {<<t, a>>} ELSE {}

\* The whole graph of an agent goes at once, then the asset and the tenant.
DeleteAgentRegistryGraph(ag, withAsset, withTenant) ==
    LET kept(paths) == {x \in paths : <<x[1], x[2], x[3]>> # ag} IN
    /\ points' = {x \in points : x.source \in kept(sources)}
    /\ sources' = kept(sources)
    /\ agents' = agents \ {ag}
    /\ assets' = assets \ Emptied(ag[1], ag[2], withAsset)
    /\ tenants' = IF withTenant /\ \A x \in assets' : x[1] # ag[1]
                  THEN tenants \ {ag[1]} ELSE tenants
    /\ runtimes' = {x \in runtimes : x.agent # ag}
    /\ sourceRevs' = {x \in sourceRevs : x.agent # ag}
    /\ outbox' = {x \in outbox : x.agent # ag}

\* A call that found no agent deletes the records under its codes all the same:
\* of an agent that is created and rendered while the call runs, they are lost.
DeleteRecordsOnly(ag) ==
    /\ outbox' = {x \in outbox : x.agent # ag}
    /\ UNCHANGED <<directory, runtimes, sourceRevs>>

-----------------------------------------------------------------------------
Agent == TenantCode \X AssetCode \X AgentCode
Source == TenantCode \X AssetCode \X AgentCode \X SourceCode

Next ==
    \/ \E t \in TenantCode :
        \/ CreateTenant(t) \/ DeleteTenant(t)
        \/ \E a \in AssetCode : CreateAsset(t, a) \/ DeleteAsset(t, a)
    \/ \E ag \in Agent :
        \/ CreateAgent(ag) \/ DeleteAgent(ag)
        \/ \E rev \in Revision :
            \/ CreateRuntimeRevision(ag, rev)
            \/ \E srev \in Revision,
                  recorded \in SUBSET (SourceCode \union {AgentScope}) :
                    StoreRendered(ag, rev, srev, recorded)
        \/ \E withAsset, withTenant \in BOOLEAN :
                DeleteAgentRegistryGraph(ag, withAsset, withTenant)
        \/ DeleteRecordsOnly(ag)
    \/ \E src \in Source :
        \/ CreateSource(src) \/ DeleteSource(src)
        \/ \E p \in PointCode, key \in PointKey : CreatePoint(src, p, key)
        \/ \E srev, rev \in Revision : CreateSourceRevision(src, srev, rev)
    \/ \E pt \in points :
        \/ DeletePoint(pt)
        \/ \E key \in PointKey : UpdatePoint(pt, key)

Spec == Init /\ [][Next]_vars

=============================================================================
