----------------------- MODULE ConfigRefinementProofs -----------------------
(***************************************************************************)
(* For any number of clients, codes, revisions and rows: whatever the      *)
(* units of work interleave, what is seen of the tables by their public    *)
(* codes is what use cases run one at a time would have done.              *)
(*                                                                         *)
(* A row is seen by the codes on the way to it.  First what the mapping    *)
(* says in a state (Mapped), then that a row that stays keeps its path,    *)
(* then each commit as a step of SerialRegistry.                           *)
(***************************************************************************)
EXTENDS ConfigRegistryProofs

(* A row is looked up by the codes it is mapped to, and by no others; the    *)
(* row it belongs to is mapped to the beginning of its path.                 *)
AssetsMapped ==
    /\ \A r \in assets : \E t \in TenantCode, a \in AssetCode :
            AssetPathOf(r) = <<t, a>>
    /\ \A r \in assets : \A t, a :
            r \in AssetRows(t, a) <=> AssetPathOf(r) = <<t, a>>
    /\ \A r \in assets, q \in tenants : q.id = r.tenant <=> AssetPathOf(r)[1] = q.code

AgentsMapped ==
    /\ \A r \in agents : \E t \in TenantCode, a \in AssetCode, g \in AgentCode :
            AgentPathOf(r) = <<t, a, g>>
    /\ \A r \in agents : \A t, a, g :
            r \in AgentRows(t, a, g) <=> AgentPathOf(r) = <<t, a, g>>
    /\ \A r \in agents, q \in assets : q.id = r.asset
            <=> <<AgentPathOf(r)[1], AgentPathOf(r)[2]>> = AssetPathOf(q)

SourcesMapped ==
    /\ \A r \in sources :
            \E t \in TenantCode, a \in AssetCode, g \in AgentCode, s \in SourceCode :
                SourcePathOf(r) = <<t, a, g, s>>
    /\ \A r \in sources : \A t, a, g, s :
            r \in SourceRows(t, a, g, s) <=> SourcePathOf(r) = <<t, a, g, s>>
    /\ \A r \in sources, q \in agents : q.id = r.agent
            <=> <<SourcePathOf(r)[1], SourcePathOf(r)[2], SourcePathOf(r)[3]>>
                    = AgentPathOf(q)

PointsMapped ==
    /\ \A r \in points :
            /\ PointAt(r).code = r.code /\ PointAt(r).key = r.key
            /\ PointAt(r).tenant = PointAt(r).source[1]
            /\ PointAt(r) = [tenant |-> PointAt(r).tenant, code |-> r.code,
                             source |-> PointAt(r).source, key |-> r.key]
    /\ \A r \in points, q \in sources :
            q.id = r.source <=> PointAt(r).source = SourcePathOf(q)
    /\ \A r \in points, z \in tenants : z.id = r.tenant <=> PointAt(r).tenant = z.code
    /\ \A r \in points : \A t, p :
            r \in PointRows(t, p) <=> PointAt(r).tenant = t /\ r.code = p

Mapped == AssetsMapped /\ AgentsMapped /\ SourcesMapped /\ PointsMapped

(* The row of an id is the one that has it. *)
LEMMA RowIsUnique ==
  ASSUME NEW table, NEW q \in table, \A r \in table : r.id = q.id => r = q
  PROVE  Row(table, q.id) = q
BY DEF Row

(* The path of an asset, through its tenant. *)
LEMMA AssetsAreMapped ==
  ASSUME IndInv
  PROVE  AssetsMapped
<1>0. ASSUME NEW r \in assets
      PROVE  \E q \in tenants : /\ q.id = r.tenant
                                /\ AssetPathOf(r) = <<q.code, r.code>>
                                /\ q.code \in TenantCode /\ r.code \in AssetCode
  <2>1. PICK q \in tenants : q.id = r.tenant
    BY DEF IndInv, NoOrphans
  <2>2. Row(tenants, r.tenant) = q
    BY <2>1, RowIsUnique, TenantIds DEF IndInv
  <2>3. q.code \in TenantCode /\ r.code \in AssetCode
    BY DEF IndInv, TypeOK, Tenant, Asset
  <2> QED BY <2>1, <2>2, <2>3 DEF AssetPathOf
<1>1. \A r, q \in tenants : r.id = q.id \/ r.code = q.code => r = q
  BY DEF IndInv, OneRowPerCode
<1>2. \A r \in assets : \A t, a : r \in AssetRows(t, a) <=> AssetPathOf(r) = <<t, a>>
  BY <1>0, <1>1 DEF AssetRows, TenantRows
<1>3. \A r \in assets, q \in tenants : q.id = r.tenant <=> AssetPathOf(r)[1] = q.code
  BY <1>0, <1>1
<1> QED BY <1>0, <1>2, <1>3 DEF AssetsMapped

(* The path of an agent, through its asset. *)
LEMMA AgentsAreMapped ==
  ASSUME IndInv, AssetsMapped
  PROVE  AgentsMapped
<1>0. ASSUME NEW r \in agents
      PROVE  \E q \in assets, t \in TenantCode, a \in AssetCode :
                /\ q.id = r.asset /\ AssetPathOf(q) = <<t, a>>
                /\ AgentPathOf(r) = <<t, a, r.code>> /\ r.code \in AgentCode
  <2>1. PICK q \in assets : q.id = r.asset
    BY DEF IndInv, NoOrphans
  <2>2. Row(assets, r.asset) = q
    BY <2>1, RowIsUnique, AssetIds DEF IndInv
  <2>3. PICK t \in TenantCode, a \in AssetCode : AssetPathOf(q) = <<t, a>>
    BY DEF AssetsMapped
  <2>4. r.code \in AgentCode
    BY DEF IndInv, TypeOK, Agent
  <2>5. AgentPathOf(r) = <<t, a, r.code>>
    BY <2>2, <2>3 DEF AgentPathOf
  <2> QED BY <2>1, <2>3, <2>4, <2>5
<1>1. \A r, q \in assets : r.id = q.id \/ AssetPathOf(r) = AssetPathOf(q) => r = q
  <2> SUFFICES ASSUME NEW r \in assets, NEW q \in assets,
                      r.id = q.id \/ AssetPathOf(r) = AssetPathOf(q)
               PROVE  r = q
    OBVIOUS
  <2>1. PICK t \in TenantCode, a \in AssetCode : AssetPathOf(r) = <<t, a>>
    BY DEF AssetsMapped
  <2>2. r \in AssetRows(t, a)
    BY <2>1 DEF AssetsMapped
  <2>3. r.id # q.id => q \in AssetRows(t, a)
    BY <2>1 DEF AssetsMapped
  <2> QED BY <2>2, <2>3, AssetIds, LookupsAreUnique DEF IndInv
<1>2. ASSUME NEW r \in agents, NEW t, NEW a, NEW g
      PROVE  r \in AgentRows(t, a, g) <=> AgentPathOf(r) = <<t, a, g>>
  <2>1. PICK q \in assets, t1 \in TenantCode, a1 \in AssetCode :
                /\ q.id = r.asset /\ AssetPathOf(q) = <<t1, a1>>
                /\ AgentPathOf(r) = <<t1, a1, r.code>>
    BY <1>0
  <2>2. r \in AgentRows(t, a, g) => q \in AssetRows(t, a) /\ r.code = g
    BY <1>1, <2>1 DEF AgentRows, AssetRows
  <2>3. q \in AssetRows(t, a) /\ r.code = g => r \in AgentRows(t, a, g)
    BY <2>1 DEF AgentRows
  <2>4. q \in AssetRows(t, a) <=> <<t1, a1>> = <<t, a>>
    BY <2>1 DEF AssetsMapped
  <2> QED BY <2>1, <2>2, <2>3, <2>4
<1>3. ASSUME NEW r \in agents, NEW q \in assets
      PROVE  q.id = r.asset <=> <<AgentPathOf(r)[1], AgentPathOf(r)[2]>> = AssetPathOf(q)
  <2>1. PICK x \in assets, t \in TenantCode, a \in AssetCode :
                /\ x.id = r.asset /\ AssetPathOf(x) = <<t, a>>
                /\ AgentPathOf(r) = <<t, a, r.code>>
    BY <1>0
  <2>2. q.id = r.asset <=> AssetPathOf(q) = AssetPathOf(x)
    BY <1>1, <2>1
  <2> QED BY <2>1, <2>2
<1> QED BY <1>0, <1>2, <1>3 DEF AgentsMapped

(* The path of a source, through its agent. *)
LEMMA SourcesAreMapped ==
  ASSUME IndInv, AgentsMapped
  PROVE  SourcesMapped
<1>0. ASSUME NEW r \in sources
      PROVE  \E q \in agents, t \in TenantCode, a \in AssetCode, g \in AgentCode :
                /\ q.id = r.agent /\ AgentPathOf(q) = <<t, a, g>>
                /\ SourcePathOf(r) = <<t, a, g, r.code>> /\ r.code \in SourceCode
  <2>1. PICK q \in agents : q.id = r.agent
    BY DEF IndInv, NoOrphans
  <2>2. Row(agents, r.agent) = q
    BY <2>1, RowIsUnique, AgentIds DEF IndInv
  <2>3. PICK t \in TenantCode, a \in AssetCode, g \in AgentCode :
            AgentPathOf(q) = <<t, a, g>>
    BY DEF AgentsMapped
  <2>4. r.code \in SourceCode
    BY DEF IndInv, TypeOK, Source
  <2>5. SourcePathOf(r) = <<t, a, g, r.code>>
    BY <2>2, <2>3 DEF SourcePathOf
  <2> QED BY <2>1, <2>3, <2>4, <2>5
<1>1. \A r, q \in agents : r.id = q.id \/ AgentPathOf(r) = AgentPathOf(q) => r = q
  <2> SUFFICES ASSUME NEW r \in agents, NEW q \in agents,
                      r.id = q.id \/ AgentPathOf(r) = AgentPathOf(q)
               PROVE  r = q
    OBVIOUS
  <2>1. PICK t \in TenantCode, a \in AssetCode, g \in AgentCode :
            AgentPathOf(r) = <<t, a, g>>
    BY DEF AgentsMapped
  <2>2. r \in AgentRows(t, a, g)
    BY <2>1 DEF AgentsMapped
  <2>3. r.id # q.id => q \in AgentRows(t, a, g)
    BY <2>1 DEF AgentsMapped
  <2> QED BY <2>2, <2>3, AgentIds, LookupsAreUnique DEF IndInv
<1>2. ASSUME NEW r \in sources, NEW t, NEW a, NEW g, NEW s
      PROVE  r \in SourceRows(t, a, g, s) <=> SourcePathOf(r) = <<t, a, g, s>>
  <2>1. PICK q \in agents, t1 \in TenantCode, a1 \in AssetCode, g1 \in AgentCode :
                /\ q.id = r.agent /\ AgentPathOf(q) = <<t1, a1, g1>>
                /\ SourcePathOf(r) = <<t1, a1, g1, r.code>>
    BY <1>0
  <2>2. r \in SourceRows(t, a, g, s) => q \in AgentRows(t, a, g) /\ r.code = s
    BY <1>1, <2>1 DEF SourceRows, AgentRows
  <2>3. q \in AgentRows(t, a, g) /\ r.code = s => r \in SourceRows(t, a, g, s)
    BY <2>1 DEF SourceRows
  <2>4. q \in AgentRows(t, a, g) <=> <<t1, a1, g1>> = <<t, a, g>>
    BY <2>1 DEF AgentsMapped
  <2> QED BY <2>1, <2>2, <2>3, <2>4
<1>3. ASSUME NEW r \in sources, NEW q \in agents
      PROVE  q.id = r.agent <=> <<SourcePathOf(r)[1], SourcePathOf(r)[2],
                                   SourcePathOf(r)[3]>> = AgentPathOf(q)
  <2>1. PICK x \in agents, t \in TenantCode, a \in AssetCode, g \in AgentCode :
                /\ x.id = r.agent /\ AgentPathOf(x) = <<t, a, g>>
                /\ SourcePathOf(r) = <<t, a, g, r.code>>
    BY <1>0
  <2>2. q.id = r.agent <=> AgentPathOf(q) = AgentPathOf(x)
    BY <1>1, <2>1
  <2> QED BY <2>1, <2>2
<1> QED BY <1>0, <1>2, <1>3 DEF SourcesMapped

(* The tenant of a source is the one its agent's asset belongs to. *)
LEMMA TenantOfSource ==
  ASSUME AssetsMapped, AgentsMapped, SourcesMapped, NEW q \in sources,
         NEW x \in agents, NEW y \in assets, NEW z \in tenants,
         q.agent = x.id, x.asset = y.id, y.tenant = z.id
  PROVE  SourcePathOf(q)[1] = z.code
<1>1. PICK t \in TenantCode, a \in AssetCode : AssetPathOf(y) = <<t, a>>
  BY DEF AssetsMapped
<1>2. t = z.code
  BY <1>1 DEF AssetsMapped
<1>3. PICK t1 \in TenantCode, a1 \in AssetCode, g1 \in AgentCode :
        AgentPathOf(x) = <<t1, a1, g1>>
  BY DEF AgentsMapped
<1>4. <<t1, a1>> = <<t, a>>
  BY <1>1, <1>3 DEF AgentsMapped
<1>5. PICK t2 \in TenantCode, a2 \in AssetCode, g2 \in AgentCode, s2 \in SourceCode :
        SourcePathOf(q) = <<t2, a2, g2, s2>>
  BY DEF SourcesMapped
<1>6. <<t2, a2, g2>> = <<t1, a1, g1>>
  BY <1>3, <1>5 DEF SourcesMapped
<1> QED BY <1>2, <1>4, <1>5, <1>6

(* A point is at its source, in the tenant of its source. *)
LEMMA PointsAreMapped ==
  ASSUME IndInv, AssetsMapped, AgentsMapped, SourcesMapped
  PROVE  PointsMapped
<1>1. \A q \in sources, x \in agents, y \in assets, z \in tenants :
        q.agent = x.id /\ x.asset = y.id /\ y.tenant = z.id => SourcePathOf(q)[1] = z.code
  BY TenantOfSource
<1>2. ASSUME NEW r \in points
      PROVE  \E q \in sources, z \in tenants :
                /\ q.id = r.source /\ z.id = r.tenant /\ SourcePathOf(q)[1] = z.code
                /\ PointAt(r) = [tenant |-> z.code, code |-> r.code,
                                 source |-> SourcePathOf(q), key |-> r.key]
  <2>1. PICK z \in tenants : z.id = r.tenant
    BY DEF IndInv, NoOrphans
  <2>2. r \in PointRows(z.code, r.code)
    BY <2>1 DEF IndInv, CodesAgree
  <2>3. PICK q \in sources : /\ q.id = r.source
                             /\ SourcePathOf(q)[1] = z.code
    BY <1>1, <2>2 DEF PointRows, TenantRows
  <2>4. Row(sources, r.source) = q /\ Row(tenants, r.tenant) = z
    BY <2>1, <2>3, RowIsUnique, SourceIds, TenantIds DEF IndInv
  <2> QED BY <2>1, <2>3, <2>4 DEF PointAt
<1>3. \A r, q \in sources : SourcePathOf(r) = SourcePathOf(q) => r = q
  <2> SUFFICES ASSUME NEW r \in sources, NEW q \in sources,
                      SourcePathOf(r) = SourcePathOf(q)
               PROVE  r = q
    OBVIOUS
  <2>1. PICK t \in TenantCode, a \in AssetCode, g \in AgentCode, s \in SourceCode :
            SourcePathOf(r) = <<t, a, g, s>>
    BY DEF SourcesMapped
  <2>2. r \in SourceRows(t, a, g, s) /\ q \in SourceRows(t, a, g, s)
    BY <2>1 DEF SourcesMapped
  <2> QED BY <2>2, LookupsAreUnique DEF IndInv
<1>4. ASSUME NEW r \in points, NEW t, NEW p
      PROVE  r \in PointRows(t, p) <=> PointAt(r).tenant = t /\ r.code = p
  <2>1. PICK q \in sources, z \in tenants :
                /\ q.id = r.source /\ z.id = r.tenant /\ SourcePathOf(q)[1] = z.code
                /\ PointAt(r).tenant = z.code
    BY <1>2
  <2>2. r \in PointRows(z.code, r.code)
    BY <2>1 DEF IndInv, CodesAgree
  <2>3. ASSUME r \in PointRows(t, p) PROVE z.code = t /\ r.code = p
    <3>1. PICK q1 \in sources, x \in agents, y \in assets, w \in tenants :
                /\ r.code = p /\ r.source = q1.id /\ q1.agent = x.id /\ x.asset = y.id
                /\ y.tenant = w.id /\ w.code = t
      BY <2>3 DEF PointRows, TenantRows
    <3>2. q1 = q
      BY <2>1, <3>1, SourceIds DEF IndInv
    <3> QED BY <1>1, <2>1, <3>1, <3>2
  <2> QED BY <2>1, <2>2, <2>3
<1>5. \A r \in points, q \in sources :
            q.id = r.source <=> PointAt(r).source = SourcePathOf(q)
  <2>1. \A r, q \in sources : r.id = q.id => r = q
    BY SourceIds DEF IndInv
  <2> QED BY <1>2, <1>3, <2>1
<1>6. \A r \in points, z \in tenants : z.id = r.tenant <=> PointAt(r).tenant = z.code
  <2>1. \A r, q \in tenants : r.id = q.id \/ r.code = q.code => r = q
    BY DEF IndInv, OneRowPerCode
  <2> QED BY <1>2, <2>1
<1>7. \A r \in points :
            /\ PointAt(r).code = r.code /\ PointAt(r).key = r.key
            /\ PointAt(r).tenant = PointAt(r).source[1]
            /\ PointAt(r) = [tenant |-> PointAt(r).tenant, code |-> r.code,
                             source |-> PointAt(r).source, key |-> r.key]
  BY <1>2
<1> QED BY <1>4, <1>5, <1>6, <1>7 DEF PointsMapped

(* The mapping of a state that keeps the invariant. *)
LEMMA StateIsMapped == IndInv => Mapped
BY AssetsAreMapped, AgentsAreMapped, SourcesAreMapped, PointsAreMapped DEF Mapped

(* Two rows are never mapped to the same path. *)
LEMMA PathsAreOfOneRow ==
  ASSUME IndInv, Mapped
  PROVE  /\ \A r, q \in assets : AssetPathOf(r) = AssetPathOf(q) => r = q
         /\ \A r, q \in agents : AgentPathOf(r) = AgentPathOf(q) => r = q
         /\ \A r, q \in sources : SourcePathOf(r) = SourcePathOf(q) => r = q
         /\ \A r, q \in points : PointAt(r) = PointAt(q) => r = q
<1>1. ASSUME NEW r \in assets, NEW q \in assets, AssetPathOf(r) = AssetPathOf(q)
      PROVE  r = q
  <2>1. PICK t \in TenantCode, a \in AssetCode : AssetPathOf(r) = <<t, a>>
    BY DEF Mapped, AssetsMapped
  <2>2. r \in AssetRows(t, a) /\ q \in AssetRows(t, a)
    BY <1>1, <2>1 DEF Mapped, AssetsMapped
  <2> QED BY <2>2, LookupsAreUnique DEF IndInv
<1>2. ASSUME NEW r \in agents, NEW q \in agents, AgentPathOf(r) = AgentPathOf(q)
      PROVE  r = q
  <2>1. PICK t \in TenantCode, a \in AssetCode, g \in AgentCode :
            AgentPathOf(r) = <<t, a, g>>
    BY DEF Mapped, AgentsMapped
  <2>2. r \in AgentRows(t, a, g) /\ q \in AgentRows(t, a, g)
    BY <1>2, <2>1 DEF Mapped, AgentsMapped
  <2> QED BY <2>2, LookupsAreUnique DEF IndInv
<1>3. ASSUME NEW r \in sources, NEW q \in sources, SourcePathOf(r) = SourcePathOf(q)
      PROVE  r = q
  <2>1. PICK t \in TenantCode, a \in AssetCode, g \in AgentCode, s \in SourceCode :
            SourcePathOf(r) = <<t, a, g, s>>
    BY DEF Mapped, SourcesMapped
  <2>2. r \in SourceRows(t, a, g, s) /\ q \in SourceRows(t, a, g, s)
    BY <1>3, <2>1 DEF Mapped, SourcesMapped
  <2> QED BY <2>2, LookupsAreUnique DEF IndInv
<1>4. ASSUME NEW r \in points, NEW q \in points, PointAt(r) = PointAt(q)
      PROVE  r = q
  <2>1. r.code = q.code /\ PointAt(r).tenant = PointAt(q).tenant
    BY <1>4 DEF Mapped, PointsMapped
  <2>2. /\ r \in PointRows(PointAt(r).tenant, r.code)
        /\ q \in PointRows(PointAt(r).tenant, r.code)
    BY <2>1 DEF Mapped, PointsMapped
  <2> QED BY <2>2, PointLookupIsUnique DEF IndInv
<1> QED BY <1>1, <1>2, <1>3, <1>4

(* What is found under some codes is what the directory has there. *)
LEMMA FoundIsThere ==
  ASSUME IndInv, Mapped
  PROVE  /\ \A t : TenantRows(t) # {} <=> t \in TenantCodes
         /\ \A t, a : AssetRows(t, a) # {} <=> <<t, a>> \in AssetPaths
         /\ \A t, a, g : AgentRows(t, a, g) # {} <=> <<t, a, g>> \in AgentPaths
         /\ \A t, a, g, s : SourceRows(t, a, g, s) # {} <=> <<t, a, g, s>> \in SourcePaths
<1>1. \A t : TenantRows(t) # {} <=> t \in TenantCodes
  BY DEF TenantRows, TenantCodes
<1>2. \A t, a : AssetRows(t, a) # {} <=> <<t, a>> \in AssetPaths
  <2>1. \A t, a : AssetRows(t, a) \subseteq assets
    BY DEF AssetRows
  <2> QED BY <2>1 DEF Mapped, AssetsMapped, AssetPaths
<1>3. \A t, a, g : AgentRows(t, a, g) # {} <=> <<t, a, g>> \in AgentPaths
  <2>1. \A t, a, g : AgentRows(t, a, g) \subseteq agents
    BY DEF AgentRows
  <2> QED BY <2>1 DEF Mapped, AgentsMapped, AgentPaths
<1>4. \A t, a, g, s : SourceRows(t, a, g, s) # {} <=> <<t, a, g, s>> \in SourcePaths
  <2>1. \A t, a, g, s : SourceRows(t, a, g, s) \subseteq sources
    BY DEF SourceRows
  <2> QED BY <2>1 DEF Mapped, SourcesMapped, SourcePaths
<1> QED BY <1>1, <1>2, <1>3, <1>4

(* A call only reads the tables, whatever it is. *)
LEMMA CallsOnlyRead ==
  ASSUME NEW c \in Client, Call(c)
  PROVE  UNCHANGED tables
<1>1. \A t : TenantCalls(c, t) => UNCHANGED tables
  BY DEF TenantCalls, BeginCreateTenant, BeginDeleteTenant, Begin
<1>2. \A t, p : PointCalls(c, t, p) => UNCHANGED tables
  <2>1. \A t, p : BeginDeletePoint(c, t, p) => UNCHANGED tables
    BY DEF BeginDeletePoint, Begin
  <2>2. \A t, p, key : BeginUpdatePoint(c, t, p, key) => UNCHANGED tables
    BY DEF BeginUpdatePoint, Begin
  <2>3. \A t, a, g, s, p, key :
            BeginCreatePoint(c, t, a, g, s, p, key) => UNCHANGED tables
    BY DEF BeginCreatePoint, Begin
  <2> QED BY <2>1, <2>2, <2>3 DEF PointCalls
<1>3. \A t, a : AssetCalls(c, t, a) => UNCHANGED tables
  BY DEF AssetCalls, BeginCreateAsset, BeginDeleteAsset, Begin
<1>4. \A t, a, g : AgentCalls(c, t, a, g) => UNCHANGED tables
  BY DEF AgentCalls, BeginCreateAgent, BeginDeleteAgent, Begin
<1>5. \A t, a, g : RevisionCalls(c, t, a, g) => UNCHANGED tables
  <2>1. \A t, a, g, rev : BeginRuntimeRevision(c, t, a, g, rev) => UNCHANGED tables
    BY DEF BeginRuntimeRevision, Begin
  <2>2. \A t, a, g, s, srev, rev :
            BeginSourceRevision(c, t, a, g, s, srev, rev) => UNCHANGED tables
    BY DEF BeginSourceRevision, Begin
  <2> QED BY <2>1, <2>2 DEF RevisionCalls
<1>6. \A t, a, g : GraphCalls(c, t, a, g) => UNCHANGED tables
  <2>1. \A t, a, g, with : BeginDeleteGraph(c, t, a, g, with) => UNCHANGED tables
    BY DEF BeginDeleteGraph, Begin
  <2>2. \A t, a, g, rev, srev : Render(c, t, a, g, rev, srev) => UNCHANGED tables
    BY DEF Render, Begin
  <2> QED BY <2>1, <2>2 DEF GraphCalls
<1>7. \A t, a, g, s : SourceCalls(c, t, a, g, s) => UNCHANGED tables
  BY DEF SourceCalls, BeginCreateSource, BeginDeleteSource, Begin
<1> QED BY <1>1, <1>2, <1>3, <1>4, <1>5, <1>6, <1>7 DEF Call

(* A record that is of no source is the agent's own.                         *)
RecordsNamed == \A r \in outbox : r.source = None => r.code = AgentScope

(* Only a store adds records, one for the agent and one for each source. *)
LEMMA RecordsStayNamed ==
  ASSUME IndInv, RecordsNamed, [Next]_vars
  PROVE  RecordsNamed'
<1>1. CASE outbox' \subseteq outbox
  BY <1>1 DEF RecordsNamed
<1>2. ASSUME NEW c \in Client, StoreOutbox(c)
      PROVE  RecordsNamed'
  <2>1. \A q \in sources : q.id # None
    BY NoneAssumption DEF IndInv, TypeOK, Source
  <2>2. ASSUME NEW r \in session[c].records, r.source = None
        PROVE  r.code = AgentScope
    <3>1. RecordHeld(session[c], r)
      BY DEF IndInv, HeldRows, Held
    <3> QED BY <2>1, <2>2, <3>1 DEF RecordHeld, SourceRows
  <2>3. outbox' = outbox \union session[c].records
    BY <1>2 DEF StoreOutbox
  <2> QED BY <2>2, <2>3 DEF RecordsNamed
<1>3. ASSUME NEW c \in Client, DeleteGraph(c)
      PROVE  outbox' \subseteq outbox
  BY <1>3 DEF DeleteGraph
<1>4. ASSUME NEW c \in Client, Call(c)
      PROVE  outbox' = outbox
  BY <1>4, CallsOnlyRead DEF tables, config
<1>5. ASSUME NEW c \in Client, Commit(c), ~StoreOutbox(c), ~DeleteGraph(c)
      PROVE  outbox' = outbox
  BY <1>5 DEF Commit, AddTenant, DropTenant, AddAsset, DropAsset, AddAgent, DropAgent,
     AddSource, DropSource, AddPoint, SetPoint, DropPoint, AddRuntimeRevision,
     AddSourceRevision, BeginStore, StoreSourceRevision, StoreRecord, Abort,
     tables, config
<1>6. CASE UNCHANGED vars
  BY <1>1, <1>6 DEF vars, tables, config
<1> QED BY <1>1, <1>2, <1>3, <1>4, <1>5, <1>6 DEF Next

-----------------------------------------------------------------------------
(* What a commit does to the paths.                                        *)

(* A row that stays keeps its path. *)
LEMMA PathsPersist ==
  ASSUME IndInv, Mapped, IndInv', Mapped', RowsPersist
  PROVE  /\ \A r \in assets \cap assets' : AssetPathOf(r)' = AssetPathOf(r)
         /\ \A r \in agents \cap agents' : AgentPathOf(r)' = AgentPathOf(r)
         /\ \A r \in sources \cap sources' : SourcePathOf(r)' = SourcePathOf(r)
         /\ \A r \in points \cap points' : PointAt(r)' = PointAt(r)
<1>0. OwnersExist'
  BY DEF IndInv, NoOrphans, OwnersExist
<1>1. ASSUME NEW r \in assets \cap assets'
      PROVE  AssetPathOf(r)' = AssetPathOf(r)
  <2>1. PICK t \in TenantCode, a \in AssetCode : AssetPathOf(r) = <<t, a>>
    BY DEF Mapped, AssetsMapped
  <2>2. r \in AssetRows(t, a)
    BY <2>1 DEF Mapped, AssetsMapped
  <2>3. r \in AssetRows(t, a)'
    BY <1>0, <2>2, LookupsPersist
  <2> QED BY <2>1, <2>3 DEF Mapped, AssetsMapped
<1>2. ASSUME NEW r \in agents \cap agents'
      PROVE  AgentPathOf(r)' = AgentPathOf(r)
  <2>1. PICK t \in TenantCode, a \in AssetCode, g \in AgentCode :
            AgentPathOf(r) = <<t, a, g>>
    BY DEF Mapped, AgentsMapped
  <2>2. r \in AgentRows(t, a, g)
    BY <2>1 DEF Mapped, AgentsMapped
  <2>3. r \in AgentRows(t, a, g)'
    BY <1>0, <2>2, LookupsPersist
  <2> QED BY <2>1, <2>3 DEF Mapped, AgentsMapped
<1>3. ASSUME NEW r \in sources \cap sources'
      PROVE  SourcePathOf(r)' = SourcePathOf(r)
  <2>1. PICK t \in TenantCode, a \in AssetCode, g \in AgentCode, s \in SourceCode :
            SourcePathOf(r) = <<t, a, g, s>>
    BY DEF Mapped, SourcesMapped
  <2>2. r \in SourceRows(t, a, g, s)
    BY <2>1 DEF Mapped, SourcesMapped
  <2>3. r \in SourceRows(t, a, g, s)'
    BY <1>0, <2>2, LookupsPersist
  <2> QED BY <2>1, <2>3 DEF Mapped, SourcesMapped
<1>4. ASSUME NEW r \in points \cap points'
      PROVE  PointAt(r)' = PointAt(r)
  <2>1. PICK q \in sources : q.id = r.source
    BY DEF IndInv, NoOrphans
  <2>2. q \in sources'
    BY <2>1 DEF IndInv, NoOrphans, RowsPersist
  <2>3. PointAt(r)'.source = SourcePathOf(q)'
    BY <2>1, <2>2 DEF Mapped, PointsMapped
  <2>4. PointAt(r)'.source = PointAt(r).source
    BY <1>3, <2>1, <2>2, <2>3 DEF Mapped, PointsMapped
  <2>5. PointAt(r)'.tenant = PointAt(r).tenant
    BY <2>4 DEF Mapped, PointsMapped
  <2>6. /\ PointAt(r) = [tenant |-> PointAt(r).tenant, code |-> r.code,
                         source |-> PointAt(r).source, key |-> r.key]
        /\ PointAt(r)' = [tenant |-> PointAt(r)'.tenant, code |-> r.code,
                          source |-> PointAt(r)'.source, key |-> r.key]
    BY DEF Mapped, PointsMapped
  <2> QED BY <2>4, <2>5, <2>6
<1> QED BY <1>1, <1>2, <1>3, <1>4

(* The paths after a step: of the rows that stay, and of the new ones. *)
LEMMA PathsAfter ==
  ASSUME IndInv, Mapped, IndInv', Mapped', RowsPersist
  PROVE  /\ TenantCodes' = {r.code : r \in tenants'}
         /\ AssetPaths' = {AssetPathOf(r) : r \in assets \cap assets'}
                            \union {AssetPathOf(r)' : r \in assets' \ assets}
         /\ AgentPaths' = {AgentPathOf(r) : r \in agents \cap agents'}
                            \union {AgentPathOf(r)' : r \in agents' \ agents}
         /\ SourcePaths' = {SourcePathOf(r) : r \in sources \cap sources'}
                            \union {SourcePathOf(r)' : r \in sources' \ sources}
         /\ PointsAt' = {PointAt(r) : r \in points \cap points'}
                            \union {PointAt(r)' : r \in points' \ points}
<1>1. AssetPaths' = {AssetPathOf(r) : r \in assets \cap assets'}
                        \union {AssetPathOf(r)' : r \in assets' \ assets}
  BY PathsPersist DEF AssetPaths
<1>2. AgentPaths' = {AgentPathOf(r) : r \in agents \cap agents'}
                        \union {AgentPathOf(r)' : r \in agents' \ agents}
  BY PathsPersist DEF AgentPaths
<1>3. SourcePaths' = {SourcePathOf(r) : r \in sources \cap sources'}
                        \union {SourcePathOf(r)' : r \in sources' \ sources}
  BY PathsPersist DEF SourcePaths
<1>4. PointsAt' = {PointAt(r) : r \in points \cap points'}
                        \union {PointAt(r)' : r \in points' \ points}
  BY PathsPersist DEF PointsAt
<1> QED BY <1>1, <1>2, <1>3, <1>4 DEF TenantCodes

(* A table that stays as it is is seen as it was. *)
LEMMA SeenAsBefore ==
  ASSUME IndInv, Mapped, IndInv', Mapped', RowsPersist
  PROVE  /\ tenants' = tenants => TenantCodes' = TenantCodes
         /\ assets' = assets => AssetPaths' = AssetPaths
         /\ agents' = agents => AgentPaths' = AgentPaths
         /\ sources' = sources => SourcePaths' = SourcePaths
         /\ points' = points => PointsAt' = PointsAt
         /\ runtimes' = runtimes => RuntimesAt' = RuntimesAt
         /\ sourceRevs' = sourceRevs => SourceRevsAt' = SourceRevsAt
         /\ outbox' = outbox => RecordsAt' = RecordsAt
<1>1. tenants' = tenants => TenantCodes' = TenantCodes
  BY DEF TenantCodes
<1>2. assets' = assets => AssetPaths' = AssetPaths
  BY PathsPersist DEF AssetPaths
<1>3. agents' = agents => AgentPaths' = AgentPaths
  BY PathsPersist DEF AgentPaths
<1>4. sources' = sources => SourcePaths' = SourcePaths
  BY PathsPersist DEF SourcePaths
<1>5. points' = points => PointsAt' = PointsAt
  BY PathsPersist DEF PointsAt
<1>6. /\ runtimes' = runtimes => RuntimesAt' = RuntimesAt
      /\ sourceRevs' = sourceRevs => SourceRevsAt' = SourceRevsAt
      /\ outbox' = outbox => RecordsAt' = RecordsAt
  BY DEF RuntimesAt, SourceRevsAt, RecordsAt, RuntimeAt, SourceRevAt, RecordAt
<1> QED BY <1>1, <1>2, <1>3, <1>4, <1>5, <1>6

-----------------------------------------------------------------------------
(* Tenants, assets, agents and sources.                                    *)

(* What is not seen to change. *)
LEMMA RefineStutter ==
  ASSUME IndInv, Mapped, IndInv', Mapped', UNCHANGED tables
  PROVE  UNCHANGED Serial!vars
<1>1. UNCHANGED <<tenants, assets, agents, sources, points, runtimes, sourceRevs, outbox>>
  BY DEF tables, directory, config
<1>2. RowsPersist
  BY <1>1 DEF RowsPersist
<1> QED BY <1>1, <1>2, SeenAsBefore DEF Serial!vars, Serial!directory, Serial!config

(* A new tenant. *)
LEMMA RefineAddTenant ==
  ASSUME IndInv, Mapped, IndInv', Mapped', NEW c \in Client, AddTenant(c)
  PROVE  Serial!Next
<1>0. PICK do, row : do = session[c] /\ row = [id |-> Fresh(tenants), code |-> do.t]
  OBVIOUS
<1>1. /\ UNCHANGED <<assets, agents, sources, points, runtimes, sourceRevs, outbox>>
      /\ tenants' = tenants \union {row}
      /\ row.code = do.t /\ do.t \in TenantCode
  BY <1>0 DEF AddTenant, config, IndInv, AllNamed, Named
<1>2. RowsPersist
  BY <1>1, Persistence DEF IndInv
<1>3. TenantCodes' = TenantCodes \union {do.t}
  BY <1>1 DEF TenantCodes
<1>4. Serial!CreateTenant(do.t)
  BY <1>1, <1>2, <1>3, SeenAsBefore DEF Serial!CreateTenant, Serial!config
<1> QED BY <1>1, <1>4 DEF Serial!Next

(* A tenant that owns nothing goes. *)
LEMMA RefineDropTenant ==
  ASSUME IndInv, Mapped, IndInv', Mapped', NEW c \in Client, DropTenant(c)
  PROVE  Serial!Next
<1> DEFINE do == session[c]
<1>1. /\ UNCHANGED <<assets, agents, sources, points, runtimes, sourceRevs, outbox>>
      /\ tenants' = tenants \ TenantRows(do.t)
      /\ \A q \in TenantRows(do.t), r \in assets : r.tenant # q.id
      /\ do.t \in TenantCode
  BY DEF DropTenant, config, IndInv, AllNamed, Named
<1>2. RowsPersist
  BY <1>1, Persistence DEF IndInv
<1>3. TenantCodes' = TenantCodes \ {do.t}
  BY <1>1 DEF TenantCodes, TenantRows
<1>4. \A x \in AssetPaths : x[1] # do.t
  <2> SUFFICES ASSUME NEW r \in assets, AssetPathOf(r)[1] = do.t PROVE FALSE
    BY DEF AssetPaths
  <2>1. PICK q \in tenants : q.id = r.tenant
    BY DEF IndInv, NoOrphans
  <2>2. q \in TenantRows(do.t)
    BY <2>1 DEF Mapped, AssetsMapped, TenantRows
  <2> QED BY <1>1, <2>1, <2>2
<1>5. Serial!DeleteTenant(do.t)
  BY <1>1, <1>2, <1>3, <1>4, SeenAsBefore DEF Serial!DeleteTenant, Serial!config
<1> QED BY <1>1, <1>5 DEF Serial!Next

(* A new asset, or nothing where its tenant is gone. *)
LEMMA RefineAddAsset ==
  ASSUME IndInv, Mapped, IndInv', Mapped', NEW c \in Client, AddAsset(c)
  PROVE  [Serial!Next]_(Serial!vars)
<1>0. PICK do, i : do = session[c] /\ i = Fresh(assets)
  OBVIOUS
<1>1. /\ UNCHANGED <<tenants, agents, sources, points, runtimes, sourceRevs, outbox>>
      /\ assets' = assets \union
            {[id |-> i, tenant |-> q.id, code |-> do.a] : q \in TenantRows(do.t)}
      /\ do.t \in TenantCode /\ do.a \in AssetCode
  BY <1>0 DEF AddAsset, config, IndInv, AllNamed, Named
<1>2. RowsPersist
  BY <1>1, Persistence DEF IndInv
<1>3. CASE TenantRows(do.t) = {}
  <2>1. UNCHANGED tables
    BY <1>1, <1>3 DEF tables, directory, config
  <2> QED BY <2>1, RefineStutter
<1>4. ASSUME NEW q \in TenantRows(do.t)
      PROVE  Serial!Next
  <2>1. PICK row : row = [id |-> i, tenant |-> q.id, code |-> do.a]
    OBVIOUS
  <2>2. assets' = assets \union {row}
    BY <1>1, <2>1, LookupsAreUnique DEF IndInv
  <2>3. row \notin assets
    <3>1. \A r \in assets : r.id # Fresh(assets)
      BY FreshIsFree DEF AddAsset
    <3> QED BY <1>0, <2>1, <3>1
  <2>4. row \in AssetRows(do.t, do.a)'
    BY <1>1, <2>1, <2>2 DEF AssetRows, TenantRows
  <2>5. AssetPathOf(row)' = <<do.t, do.a>>
    BY <2>2, <2>4 DEF Mapped, AssetsMapped
  <2>6. AssetPaths' = AssetPaths \union {<<do.t, do.a>>}
    BY <1>2, <2>2, <2>3, <2>5, PathsAfter DEF AssetPaths
  <2>7. do.t \in TenantCodes
    BY <1>4, FoundIsThere
  <2>8. Serial!CreateAsset(do.t, do.a)
    BY <1>1, <1>2, <2>6, <2>7, SeenAsBefore DEF Serial!CreateAsset, Serial!config
  <2> QED BY <1>1, <2>8 DEF Serial!Next
<1> QED BY <1>3, <1>4

(* An asset that owns nothing goes. *)
LEMMA RefineDropAsset ==
  ASSUME IndInv, Mapped, IndInv', Mapped', NEW c \in Client, DropAsset(c)
  PROVE  Serial!Next
<1> DEFINE do == session[c]
<1>1. /\ UNCHANGED <<tenants, agents, sources, points, runtimes, sourceRevs, outbox>>
      /\ assets' = assets \ AssetRows(do.t, do.a)
      /\ \A q \in AssetRows(do.t, do.a), r \in agents : r.asset # q.id
      /\ do.t \in TenantCode /\ do.a \in AssetCode
  BY DEF DropAsset, config, IndInv, AllNamed, Named
<1>2. RowsPersist
  BY <1>1, Persistence DEF IndInv
<1>3. AssetPaths' = AssetPaths \ {<<do.t, do.a>>}
  BY <1>1, <1>2, PathsAfter DEF AssetPaths, Mapped, AssetsMapped
<1>4. \A x \in AgentPaths : <<x[1], x[2]>> # <<do.t, do.a>>
  <2> SUFFICES ASSUME NEW r \in agents,
                      <<AgentPathOf(r)[1], AgentPathOf(r)[2]>> = <<do.t, do.a>>
               PROVE  FALSE
    BY DEF AgentPaths
  <2>1. PICK q \in assets : q.id = r.asset
    BY DEF IndInv, NoOrphans
  <2>2. q \in AssetRows(do.t, do.a)
    BY <2>1 DEF Mapped, AssetsMapped, AgentsMapped
  <2> QED BY <1>1, <2>1, <2>2
<1>5. Serial!DeleteAsset(do.t, do.a)
  BY <1>1, <1>2, <1>3, <1>4, SeenAsBefore DEF Serial!DeleteAsset, Serial!config
<1> QED BY <1>1, <1>5 DEF Serial!Next

(* A new agent, or nothing where its asset is gone. *)
LEMMA RefineAddAgent ==
  ASSUME IndInv, Mapped, IndInv', Mapped', NEW c \in Client, AddAgent(c)
  PROVE  [Serial!Next]_(Serial!vars)
<1>0. PICK do, i : do = session[c] /\ i = Fresh(agents)
  OBVIOUS
<1>1. /\ UNCHANGED <<tenants, assets, sources, points, runtimes, sourceRevs, outbox>>
      /\ agents' = agents \union
            {[id |-> i, asset |-> q.id, code |-> do.g] : q \in AssetRows(do.t, do.a)}
      /\ do.t \in TenantCode /\ do.a \in AssetCode /\ do.g \in AgentCode
  BY <1>0 DEF AddAgent, config, IndInv, AllNamed, Named
<1>2. RowsPersist
  BY <1>1, Persistence DEF IndInv
<1>3. CASE AssetRows(do.t, do.a) = {}
  <2>1. UNCHANGED tables
    BY <1>1, <1>3 DEF tables, directory, config
  <2> QED BY <2>1, RefineStutter
<1>4. ASSUME NEW q \in AssetRows(do.t, do.a)
      PROVE  Serial!Next
  <2>1. PICK row : row = [id |-> i, asset |-> q.id, code |-> do.g]
    OBVIOUS
  <2>2. agents' = agents \union {row}
    BY <1>1, <2>1, LookupsAreUnique DEF IndInv
  <2>3. row \notin agents
    <3>1. \A r \in agents : r.id # Fresh(agents)
      BY FreshIsFree DEF AddAgent
    <3> QED BY <1>0, <2>1, <3>1
  <2>4. row \in AgentRows(do.t, do.a, do.g)'
    BY <1>1, <2>1, <2>2 DEF AgentRows, AssetRows, TenantRows
  <2>5. AgentPathOf(row)' = <<do.t, do.a, do.g>>
    BY <2>2, <2>4 DEF Mapped, AgentsMapped
  <2>6. AgentPaths' = AgentPaths \union {<<do.t, do.a, do.g>>}
    BY <1>2, <2>2, <2>3, <2>5, PathsAfter DEF AgentPaths
  <2>7. <<do.t, do.a>> \in AssetPaths
    BY <1>4, FoundIsThere
  <2>8. Serial!CreateAgent(<<do.t, do.a, do.g>>)
    BY <1>1, <1>2, <2>6, <2>7, SeenAsBefore DEF Serial!CreateAgent, Serial!config
  <2> QED BY <1>1, <2>8 DEF Serial!Next, Serial!Agent
<1> QED BY <1>3, <1>4

(* An agent that nothing names goes. *)
LEMMA RefineDropAgent ==
  ASSUME IndInv, Mapped, IndInv', Mapped', NEW c \in Client, DropAgent(c)
  PROVE  Serial!Next
<1> DEFINE do == session[c]
<1> DEFINE ag == <<do.t, do.a, do.g>>
<1>1. /\ UNCHANGED <<tenants, assets, sources, points, runtimes, sourceRevs, outbox>>
      /\ agents' = agents \ AgentRows(do.t, do.a, do.g)
      /\ \A q \in AgentRows(do.t, do.a, do.g), r \in sources \union runtimes \union outbox :
                r.agent # q.id
      /\ do.t \in TenantCode /\ do.a \in AssetCode /\ do.g \in AgentCode
  BY DEF DropAgent, config, IndInv, AllNamed, Named
<1>2. RowsPersist
  BY <1>1, Persistence DEF IndInv
<1>3. AgentPaths' = AgentPaths \ {ag}
  BY <1>1, <1>2, PathsAfter DEF AgentPaths, Mapped, AgentsMapped
<1>4. \A x \in SourcePaths : <<x[1], x[2], x[3]>> # ag
  <2> SUFFICES ASSUME NEW r \in sources,
                      <<SourcePathOf(r)[1], SourcePathOf(r)[2], SourcePathOf(r)[3]>> = ag
               PROVE  FALSE
    BY DEF SourcePaths
  <2>1. PICK q \in agents : q.id = r.agent
    BY DEF IndInv, NoOrphans
  <2>2. q \in AgentRows(do.t, do.a, do.g)
    BY <2>1 DEF Mapped, AgentsMapped, SourcesMapped
  <2> QED BY <1>1, <2>1, <2>2
<1>5. \A r \in runtimes \union outbox : r.path # ag
  BY <1>1 DEF IndInv, CodesAgree
<1>6. Serial!DeleteAgent(ag)
  <2>1. \A x \in RuntimesAt \union RecordsAt : x.agent # ag
    BY <1>5 DEF RuntimesAt, RecordsAt, RuntimeAt, RecordAt
  <2> QED BY <1>1, <1>2, <1>3, <1>4, <2>1, SeenAsBefore
          DEF Serial!DeleteAgent, Serial!config
<1> QED BY <1>1, <1>6 DEF Serial!Next, Serial!Agent

(* A new source, or nothing where its agent is gone. *)
LEMMA RefineAddSource ==
  ASSUME IndInv, Mapped, IndInv', Mapped', NEW c \in Client, AddSource(c)
  PROVE  [Serial!Next]_(Serial!vars)
<1>0. PICK do, i : do = session[c] /\ i = Fresh(sources)
  OBVIOUS
<1>1. /\ UNCHANGED <<tenants, assets, agents, points, runtimes, sourceRevs, outbox>>
      /\ sources' = sources \union
            {[id |-> i, agent |-> q.id, code |-> do.s] : q \in AgentRows(do.t, do.a, do.g)}
      /\ do.t \in TenantCode /\ do.a \in AssetCode
      /\ do.g \in AgentCode /\ do.s \in SourceCode
  BY <1>0 DEF AddSource, config, IndInv, AllNamed, Named
<1>2. RowsPersist
  BY <1>1, Persistence DEF IndInv
<1>3. CASE AgentRows(do.t, do.a, do.g) = {}
  <2>1. UNCHANGED tables
    BY <1>1, <1>3 DEF tables, directory, config
  <2> QED BY <2>1, RefineStutter
<1>4. ASSUME NEW q \in AgentRows(do.t, do.a, do.g)
      PROVE  Serial!Next
  <2>1. PICK row : row = [id |-> i, agent |-> q.id, code |-> do.s]
    OBVIOUS
  <2>2. sources' = sources \union {row}
    BY <1>1, <2>1, LookupsAreUnique DEF IndInv
  <2>3. row \notin sources
    <3>1. \A r \in sources : r.id # Fresh(sources)
      BY FreshIsFree DEF AddSource
    <3> QED BY <1>0, <2>1, <3>1
  <2>4. row \in SourceRows(do.t, do.a, do.g, do.s)'
    BY <1>1, <2>1, <2>2 DEF SourceRows, AgentRows, AssetRows, TenantRows
  <2>5. SourcePathOf(row)' = <<do.t, do.a, do.g, do.s>>
    BY <2>2, <2>4 DEF Mapped, SourcesMapped
  <2>6. SourcePaths' = SourcePaths \union {<<do.t, do.a, do.g, do.s>>}
    BY <1>2, <2>2, <2>3, <2>5, PathsAfter DEF SourcePaths
  <2>7. <<do.t, do.a, do.g>> \in AgentPaths
    BY <1>4, FoundIsThere
  <2>8. Serial!CreateSource(<<do.t, do.a, do.g, do.s>>)
    BY <1>1, <1>2, <2>6, <2>7, SeenAsBefore DEF Serial!CreateSource, Serial!config
  <2> QED BY <1>1, <2>8 DEF Serial!Next, Serial!Source
<1> QED BY <1>3, <1>4

(* A source that nothing names goes. *)
LEMMA RefineDropSource ==
  ASSUME IndInv, Mapped, RecordsNamed, IndInv', Mapped',
         NEW c \in Client, DropSource(c)
  PROVE  Serial!Next
<1> DEFINE do == session[c]
<1> DEFINE src == <<do.t, do.a, do.g, do.s>>
<1>1. /\ UNCHANGED <<tenants, assets, agents, points, runtimes, sourceRevs, outbox>>
      /\ sources' = sources \ SourceRows(do.t, do.a, do.g, do.s)
      /\ \A q \in SourceRows(do.t, do.a, do.g, do.s),
            r \in points \union sourceRevs \union outbox : r.source # q.id
      /\ do.t \in TenantCode /\ do.a \in AssetCode
      /\ do.g \in AgentCode /\ do.s \in SourceCode
  BY DEF DropSource, config, IndInv, AllNamed, Named
<1>2. RowsPersist
  BY <1>1, Persistence DEF IndInv
<1>3. SourcePaths' = SourcePaths \ {src}
  <2>1. \A r \in sources : r \in sources' <=> SourcePathOf(r) # src
    BY <1>1 DEF Mapped, SourcesMapped
  <2> QED BY <1>1, <1>2, <2>1, PathsAfter DEF SourcePaths
<1>4. \A x \in PointsAt : x.source # src
  <2> SUFFICES ASSUME NEW r \in points, PointAt(r).source = src PROVE FALSE
    BY DEF PointsAt
  <2>1. PICK q \in sources : q.id = r.source
    BY DEF IndInv, NoOrphans
  <2>2. q \in SourceRows(do.t, do.a, do.g, do.s)
    BY <2>1 DEF Mapped, SourcesMapped, PointsMapped
  <2> QED BY <1>1, <2>1, <2>2
<1>5. \A r \in sourceRevs \union outbox : r.path = <<do.t, do.a, do.g>> => r.code # do.s
  <2>1. \A r \in outbox : r.code = do.s => r.source # None
    BY <1>1, NoneAssumption DEF RecordsNamed
  <2> QED BY <1>1, <2>1 DEF IndInv, CodesAgree
<1>6. Serial!DeleteSource(src)
  <2>1. \A x \in SourceRevsAt \union RecordsAt :
            x.agent = <<do.t, do.a, do.g>> => x.source # do.s
    BY <1>5 DEF SourceRevsAt, RecordsAt, SourceRevAt, RecordAt
  <2> QED BY <1>1, <1>2, <1>3, <1>4, <2>1, SeenAsBefore
          DEF Serial!DeleteSource, Serial!config
<1> QED BY <1>1, <1>6 DEF Serial!Next, Serial!Source

-----------------------------------------------------------------------------
(* Points.                                                                 *)

(* A new point, or nothing where its source is gone. *)
LEMMA RefineAddPoint ==
  ASSUME IndInv, Mapped, IndInv', Mapped', NEW c \in Client, AddPoint(c)
  PROVE  [Serial!Next]_(Serial!vars)
<1>0. PICK do, i : do = session[c] /\ i = Fresh(points)
  OBVIOUS
<1> DEFINE src == <<do.t, do.a, do.g, do.s>>
<1>1. /\ UNCHANGED <<tenants, assets, agents, sources, runtimes, sourceRevs, outbox>>
      /\ points' = points \union NewPoints(do)
      /\ \A row \in NewPoints(do) : ~PointRefused(row, points)
      /\ do.t \in TenantCode /\ do.p \in PointCode /\ do.key \in PointKey
  BY <1>0 DEF AddPoint, config, IndInv, AllNamed, Named
<1>2. RowsPersist
  BY <1>1, Persistence DEF IndInv
<1>3. CASE NewPoints(do) = {}
  <2>1. UNCHANGED tables
    BY <1>1, <1>3 DEF tables, directory, config
  <2> QED BY <2>1, RefineStutter
<1>4. ASSUME NEW row \in NewPoints(do)
      PROVE  Serial!Next
  <2>1. PICK q \in SourceRows(do.t, do.a, do.g, do.s), z \in TenantRows(do.t) :
            row = [id |-> i, tenant |-> z.id, source |-> q.id,
                   code |-> do.p, key |-> do.key]
    BY <1>0 DEF NewPoints
  <2>2. \A x \in NewPoints(do) : x = row
    BY <1>0, <2>1, LookupsAreUnique DEF IndInv, NewPoints
  <2>3. row \notin points
    <3>1. \A r \in points : r.id # Fresh(points)
      BY FreshIsFree DEF AddPoint
    <3> QED BY <1>0, <2>1, <3>1
  <2>4. /\ q \in sources /\ z \in tenants /\ z.code = do.t
        /\ SourcePathOf(q) = src /\ SourcePathOf(q)' = src
    <3>1. q \in sources /\ z \in tenants /\ z.code = do.t
      BY DEF SourceRows, TenantRows
    <3>2. SourcePathOf(q) = src
      BY <3>1 DEF Mapped, SourcesMapped
    <3> QED BY <1>1, <1>2, <3>1, <3>2, PathsPersist
  <2>5. PointAt(row)' = Serial!Point(src, do.p, do.key)
    <3>1. row \in points' /\ q \in sources' /\ q.id = row.source
      BY <1>1, <2>1, <2>4
    <3>2. PointAt(row)'.source = src
      BY <2>4, <3>1 DEF Mapped, PointsMapped
    <3>3. PointAt(row)'.tenant = src[1]
      BY <3>1, <3>2 DEF Mapped, PointsMapped
    <3>4. PointAt(row)' = [tenant |-> PointAt(row)'.tenant, code |-> row.code,
                           source |-> PointAt(row)'.source, key |-> row.key]
      BY <3>1 DEF Mapped, PointsMapped
    <3> QED BY <2>1, <3>2, <3>3, <3>4 DEF Serial!Point
  <2>6. PointsAt' = PointsAt \union {Serial!Point(src, do.p, do.key)}
    <3>1. points' = points \union {row}
      BY <1>1, <2>2
    <3> QED BY <1>2, <2>3, <2>5, <3>1, PathsAfter DEF PointsAt
  <2>7. \A x \in PointsAt : /\ <<x.tenant, x.code>> # <<src[1], do.p>>
                            /\ <<x.source, x.key>> # <<src, do.key>>
    <3> SUFFICES ASSUME NEW r \in points
                 PROVE  /\ <<PointAt(r).tenant, PointAt(r).code>> # <<do.t, do.p>>
                        /\ <<PointAt(r).source, PointAt(r).key>> # <<src, do.key>>
      BY DEF PointsAt
    <3>1. /\ r.tenant = z.id => r.code # do.p
          /\ r.source = q.id => r.key # do.key
      BY <1>1, <2>1 DEF PointRefused
    <3>2. /\ r.tenant = z.id <=> PointAt(r).tenant = do.t
          /\ r.source = q.id <=> PointAt(r).source = src
          /\ PointAt(r).code = r.code /\ PointAt(r).key = r.key
      BY <2>4 DEF Mapped, PointsMapped
    <3> QED BY <3>1, <3>2
  <2>8. src \in SourcePaths /\ src \in Serial!Source
    <3>1. src \in SourcePaths
      BY <2>4 DEF SourcePaths
    <3>2. PICK t \in TenantCode, a \in AssetCode, g \in AgentCode, s \in SourceCode :
                src = <<t, a, g, s>>
      BY <2>4 DEF Mapped, SourcesMapped
    <3>3. src \in Serial!Source
      BY <3>2 DEF Serial!Source
    <3> QED BY <3>1, <3>3
  <2>9. Serial!CreatePoint(src, do.p, do.key)
    BY <1>1, <1>2, <2>6, <2>7, <2>8, SeenAsBefore DEF Serial!CreatePoint, Serial!config
  <2> HIDE DEF src
  <2> QED BY <1>1, <2>8, <2>9 DEF Serial!Next
<1> QED BY <1>3, <1>4

(* Another key for a point, unless it has that key or is gone: where the point *)
(* has the key it is written back as it is.                                  *)
LEMMA RefineSetPoint ==
  ASSUME IndInv, Mapped, IndInv', Mapped', NEW c \in Client, SetPoint(c)
  PROVE  [Serial!Next]_(Serial!vars)
<1>0. PICK do : do = session[c]
  OBVIOUS
<1> DEFINE rows == PointRows(do.t, do.p)
<1> DEFINE new == {[row EXCEPT !.key = do.key] : row \in rows}
<1>1. /\ UNCHANGED <<tenants, assets, agents, sources, runtimes, sourceRevs, outbox>>
      /\ points' = (points \ rows) \union new
      /\ \A row \in new : ~PointRefused(row, points \ rows)
      /\ do.key \in PointKey
  BY <1>0 DEF SetPoint, config, IndInv, AllNamed, Named
<1>2. RowsPersist
  BY <1>1, Persistence DEF IndInv
<1>3. /\ rows \subseteq points
      /\ \A r, q \in rows : r = q
  <2>1. \A r, q \in PointRows(do.t, do.p) : r = q
    BY PointLookupIsUnique DEF IndInv
  <2> QED BY <2>1 DEF PointRows
<1>4. \A row \in points : row.key = do.key => [row EXCEPT !.key = do.key] = row
  BY DEF IndInv, TypeOK, Point
<1>5. CASE points' = points
  <2>1. UNCHANGED tables
    BY <1>1, <1>5 DEF tables, directory, config
  <2> QED BY <2>1, RefineStutter
<1>6. ASSUME NEW old \in rows, old.key # do.key
      PROVE  Serial!Next
  <2>1. PICK row : row = [old EXCEPT !.key = do.key]
    OBVIOUS
  <2>2. /\ rows = {old} /\ new = {row} /\ old \in points
        /\ points' = (points \ {old}) \union {row}
    BY <1>1, <1>3, <1>6, <2>1
  <2>3. /\ row.id = old.id /\ row.tenant = old.tenant /\ row.source = old.source
        /\ row.code = old.code /\ row.key = do.key
    BY <2>1, <2>2 DEF IndInv, TypeOK, Point
  <2>4. row \notin points
    BY <1>6, <2>2, <2>3 DEF IndInv, OneRowPerCode
  <2> DEFINE pt == PointAt(old)
  <2>5. PointAt(row)' = [pt EXCEPT !.key = do.key]
    <3>1. PICK q \in sources : q.id = old.source
      BY <2>2 DEF IndInv, NoOrphans
    <3>2. SourcePathOf(q)' = SourcePathOf(q)
      BY <1>1, <1>2, PathsPersist
    <3>3. row \in points' /\ q \in sources' /\ q.id = row.source
      BY <1>1, <2>2, <2>3, <3>1
    <3>4. PointAt(row)'.source = pt.source
      <4>1. PointAt(row)'.source = SourcePathOf(q)'
        BY <3>3 DEF Mapped, PointsMapped
      <4>2. PointAt(old).source = SourcePathOf(q)
        BY <2>2, <3>1 DEF Mapped, PointsMapped
      <4> QED BY <3>2, <4>1, <4>2
    <3>5. PointAt(row)'.tenant = pt.tenant
      BY <2>2, <3>3, <3>4 DEF Mapped, PointsMapped
    <3>6. PointAt(row)' = [tenant |-> PointAt(row)'.tenant, code |-> row.code,
                           source |-> PointAt(row)'.source, key |-> row.key]
      BY <3>3 DEF Mapped, PointsMapped
    <3>7. pt = [tenant |-> pt.tenant, code |-> old.code,
                source |-> pt.source, key |-> old.key]
      BY <2>2 DEF Mapped, PointsMapped
    <3> HIDE DEF pt
    <3> QED BY <2>3, <3>4, <3>5, <3>6, <3>7
  <2>6. PointsAt' = (PointsAt \ {pt}) \union {[pt EXCEPT !.key = do.key]}
    <3>1. points \cap points' = points \ {old} /\ points' \ points = {row}
      BY <2>2, <2>4
    <3>2. \A r \in points : r # old => PointAt(r) # pt
      BY <2>2, PathsAreOfOneRow
    <3>3. {PointAt(r) : r \in points \ {old}} = PointsAt \ {pt}
      BY <3>2 DEF PointsAt
    <3> QED BY <1>2, <2>5, <3>1, <3>3, PathsAfter
  <2>7. pt \in PointsAt
    BY <2>2 DEF PointsAt
  <2>8. \A x \in PointsAt : <<x.source, x.key>> # <<pt.source, do.key>>
    <3> SUFFICES ASSUME NEW r \in points
                 PROVE  <<PointAt(r).source, PointAt(r).key>> # <<pt.source, do.key>>
      BY DEF PointsAt
    <3>1. r # old => ~(r.source = old.source /\ r.key = do.key)
      BY <1>1, <2>2, <2>3 DEF PointRefused
    <3>2. PICK q \in sources : q.id = old.source
      BY <2>2 DEF IndInv, NoOrphans
    <3>3. r.source = old.source <=> PointAt(r).source = pt.source
      BY <2>2, <3>2 DEF Mapped, PointsMapped
    <3>4. PointAt(r).key = r.key
      BY DEF Mapped, PointsMapped
    <3> QED BY <1>6, <3>1, <3>3, <3>4
  <2> HIDE DEF pt, rows, new
  <2>9. Serial!UpdatePoint(pt, do.key)
    BY <1>1, <1>2, <2>6, <2>7, <2>8, SeenAsBefore DEF Serial!UpdatePoint, Serial!config
  <2> QED BY <1>1, <2>7, <2>9 DEF Serial!Next
<1>7. rows = {} => points' = points
  BY <1>1
<1>8. ASSUME NEW old \in rows, old.key = do.key
      PROVE  points' = points
  <2>1. rows = {old} /\ new = {old}
    BY <1>3, <1>4, <1>8
  <2> QED BY <1>1, <1>3, <2>1
<1> QED BY <1>5, <1>6, <1>7, <1>8

(* A point goes, if it is still there. *)
LEMMA RefineDropPoint ==
  ASSUME IndInv, Mapped, IndInv', Mapped', NEW c \in Client, DropPoint(c)
  PROVE  [Serial!Next]_(Serial!vars)
<1>0. PICK do : do = session[c]
  OBVIOUS
<1>1. /\ UNCHANGED <<tenants, assets, agents, sources, runtimes, sourceRevs, outbox>>
      /\ points' = points \ PointRows(do.t, do.p)
  BY <1>0 DEF DropPoint, config
<1>2. RowsPersist
  BY <1>1, Persistence DEF IndInv
<1>3. CASE PointRows(do.t, do.p) = {}
  <2>1. UNCHANGED tables
    BY <1>1, <1>3 DEF tables, directory, config
  <2> QED BY <2>1, RefineStutter
<1>4. ASSUME NEW old \in PointRows(do.t, do.p)
      PROVE  Serial!Next
  <2>1. \A r \in PointRows(do.t, do.p) : r = old
    BY PointLookupIsUnique DEF IndInv
  <2>2. points' = points \ {old} /\ old \in points
    BY <1>1, <2>1 DEF PointRows
  <2>3. \A r \in points : r # old => PointAt(r) # PointAt(old)
    BY <2>2, PathsAreOfOneRow
  <2>4. PointsAt' = PointsAt \ {PointAt(old)}
    BY <1>2, <2>2, <2>3, PathsAfter DEF PointsAt
  <2>5. Serial!DeletePoint(PointAt(old))
    BY <1>1, <1>2, <2>4, SeenAsBefore DEF Serial!DeletePoint, Serial!config
  <2>6. PointAt(old) \in PointsAt
    BY <2>2 DEF PointsAt
  <2> QED BY <2>5, <2>6 DEF Serial!Next
<1> QED BY <1>3, <1>4

-----------------------------------------------------------------------------
(* Revisions and records.                                                  *)

(* A runtime revision entered by hand, or nothing where its agent is gone. *)
LEMMA RefineAddRuntimeRevision ==
  ASSUME IndInv, Mapped, IndInv', Mapped', NEW c \in Client, AddRuntimeRevision(c)
  PROVE  [Serial!Next]_(Serial!vars)
<1>0. PICK do, i : do = session[c] /\ i = Fresh(runtimes)
  OBVIOUS
<1> DEFINE ag == <<do.t, do.a, do.g>>
<1>1. /\ UNCHANGED <<tenants, assets, agents, sources, points, sourceRevs, outbox>>
      /\ runtimes' = runtimes \union
            {[id |-> i, agent |-> q.id, path |-> ag, rev |-> do.rev, lists |-> {}]
                : q \in AgentRows(do.t, do.a, do.g)}
      /\ RuntimeRows(ag, do.rev) = {}
      /\ ag \in Serial!Agent /\ do.rev \in Revision
  BY <1>0 DEF AddRuntimeRevision, directory, IndInv, AllNamed, Named, Serial!Agent
<1>2. RowsPersist
  BY <1>1, Persistence DEF IndInv
<1>3. CASE AgentRows(do.t, do.a, do.g) = {}
  <2>1. UNCHANGED tables
    BY <1>1, <1>3 DEF tables, directory, config
  <2> QED BY <2>1, RefineStutter
<1>4. CASE AgentRows(do.t, do.a, do.g) # {}
  <2>1. RuntimesAt' = RuntimesAt \union {[agent |-> ag, rev |-> do.rev, lists |-> {}]}
    <3>1. PICK new : new = {[id |-> i, agent |-> q.id, path |-> ag, rev |-> do.rev,
                             lists |-> {}] : q \in AgentRows(do.t, do.a, do.g)}
      OBVIOUS
    <3>2. new # {} /\ runtimes' = runtimes \union new
      BY <1>1, <1>4, <3>1
    <3>3. \A r \in new : r.path = ag /\ r.rev = do.rev /\ r.lists = {}
      BY <3>1
    <3>4. \A r \in new : RuntimeAt(r) = [agent |-> ag, rev |-> do.rev, lists |-> {}]
      BY <3>3 DEF RuntimeAt
    <3> QED BY <3>2, <3>4 DEF RuntimesAt
  <2>2. \A x \in RuntimesAt : <<x.agent, x.rev>> # <<ag, do.rev>>
    BY <1>1 DEF RuntimesAt, RuntimeAt, RuntimeRows
  <2>3. ag \in AgentPaths
    BY <1>4, FoundIsThere
  <2>4. Serial!CreateRuntimeRevision(ag, do.rev)
    BY <1>1, <1>2, <2>1, <2>2, <2>3, SeenAsBefore
    DEF Serial!CreateRuntimeRevision, Serial!directory
  <2> QED BY <1>1, <2>4 DEF Serial!Next
<1> QED BY <1>3, <1>4

(* A source revision entered by hand, or nothing where its source or its     *)
(* runtime revision is gone.                                                 *)
LEMMA RefineAddSourceRevision ==
  ASSUME IndInv, Mapped, IndInv', Mapped', NEW c \in Client, AddSourceRevision(c)
  PROVE  [Serial!Next]_(Serial!vars)
<1>0. PICK do : do = session[c]
  OBVIOUS
<1> DEFINE ag == <<do.t, do.a, do.g>>
<1> DEFINE src == <<do.t, do.a, do.g, do.s>>
<1>1. /\ UNCHANGED <<tenants, assets, agents, sources, points, runtimes, outbox>>
      /\ sourceRevs' = sourceRevs \union NewSourceRevisions(do)
      /\ ~SourceRevTaken(ag, do.s, do.srev)
      /\ src \in Serial!Source /\ do.rev \in Revision /\ do.srev \in Revision
  BY <1>0 DEF AddSourceRevision, directory, IndInv, AllNamed, Named, Serial!Source
<1>2. RowsPersist
  BY <1>1, Persistence DEF IndInv
<1>3. CASE NewSourceRevisions(do) = {}
  <2>1. UNCHANGED tables
    BY <1>1, <1>3 DEF tables, directory, config
  <2> QED BY <2>1, RefineStutter
<1>4. CASE NewSourceRevisions(do) # {}
  <2>1. /\ SourceRows(do.t, do.a, do.g, do.s) # {}
        /\ \A r \in NewSourceRevisions(do) :
                SourceRevAt(r) = Serial!SourceRevision(ag, do.s, do.srev, do.rev)
    BY <1>4 DEF NewSourceRevisions, SourceRevAt, Serial!SourceRevision
  <2>2. SourceRevsAt' = SourceRevsAt
                \union {Serial!SourceRevision(ag, do.s, do.srev, do.rev)}
    BY <1>1, <1>4, <2>1 DEF SourceRevsAt
  <2>3. \A x \in SourceRevsAt : <<x.agent, x.source, x.srev>> # <<ag, do.s, do.srev>>
    BY <1>1 DEF SourceRevsAt, SourceRevAt, SourceRevTaken
  <2>4. src \in SourcePaths
    BY <2>1, FoundIsThere
  <2>5. Serial!CreateSourceRevision(src, do.srev, do.rev)
    BY <1>1, <1>2, <2>2, <2>3, <2>4, SeenAsBefore
    DEF Serial!CreateSourceRevision, Serial!directory
  <2> HIDE DEF src
  <2> QED BY <1>1, <2>5 DEF Serial!Next
<1> QED BY <1>3, <1>4

(* The revisions kept, as the serial directory sees them. *)
LEMMA KeptAt ==
  ASSUME NEW do, OfRuntime(do) # {}
  PROVE  {SourceRevAt(r) : r \in KeptSourceRevs(do)}
            = {Serial!SourceRevision(<<do.t, do.a, do.g>>, s, do.srev, do.rev)
                : s \in {q.code : q \in do.kept}}
<1> DEFINE ag == <<do.t, do.a, do.g>>
<1>1. ASSUME NEW q \in do.kept, NEW i \in OfRuntime(do)
      PROVE  SourceRevAt([source |-> q.id, runtime |-> i, path |-> ag,
                          code |-> q.code, srev |-> do.srev, rev |-> do.rev])
                = Serial!SourceRevision(ag, q.code, do.srev, do.rev)
  BY DEF SourceRevAt, Serial!SourceRevision
<1>2. \A r \in KeptSourceRevs(do) : \E q \in do.kept :
            SourceRevAt(r) = Serial!SourceRevision(ag, q.code, do.srev, do.rev)
  BY <1>1 DEF KeptSourceRevs
<1>3. \A q \in do.kept : \E r \in KeptSourceRevs(do) :
            SourceRevAt(r) = Serial!SourceRevision(ag, q.code, do.srev, do.rev)
  <2> SUFFICES ASSUME NEW q \in do.kept
               PROVE  \E r \in KeptSourceRevs(do) : SourceRevAt(r)
                            = Serial!SourceRevision(ag, q.code, do.srev, do.rev)
    OBVIOUS
  <2>1. PICK i \in OfRuntime(do) : TRUE
    OBVIOUS
  <2>2. PICK r : r = [source |-> q.id, runtime |-> i, path |-> ag,
                      code |-> q.code, srev |-> do.srev, rev |-> do.rev]
    OBVIOUS
  <2>3. r \in KeptSourceRevs(do)
    BY <2>2 DEF KeptSourceRevs
  <2>4. SourceRevAt(r) = Serial!SourceRevision(ag, q.code, do.srev, do.rev)
    BY <1>1, <2>2
  <2> QED BY <2>3, <2>4
<1> QED BY <1>2, <1>3

(* The commit of a stored config: the records it has inserted, the revisions *)
(* of sources that have a record, and the runtime revision, its own or one   *)
(* stored by another client meanwhile.                                       *)
LEMMA RefineStoreOutbox ==
  ASSUME IndInv, Mapped, IndInv', Mapped', NEW c \in Client, StoreOutbox(c)
  PROVE  Serial!Next
<1>0. PICK do : do = session[c]
  OBVIOUS
<1> DEFINE ag == <<do.t, do.a, do.g>>
<1>1. /\ UNCHANGED <<tenants, assets, agents, sources, points>>
      /\ runtimes' = runtimes \union NewRuntimes(do)
      /\ sourceRevs' = sourceRevs \union KeptSourceRevs(do)
      /\ outbox' = outbox \union do.records
      /\ do.op = "recording" /\ do.left = {}
      /\ do.agent # None => RuntimeRows(ag, do.rev) = {}
      /\ ag \in Serial!Agent /\ do.rev \in Revision /\ do.srev \in Revision
      /\ do.lists \in SUBSET SourceCode
  BY <1>0 DEF StoreOutbox, directory, IndInv, AllNamed, Named, Serial!Agent, TypeOK, UseCase
<1>2. RowsPersist
  BY <1>1, Persistence DEF IndInv
<1>3. Held(do) /\ Covered(do)
  BY <1>0 DEF IndInv, HeldRows
<1> DEFINE recorded == {r.code : r \in do.records}
<1> DEFINE kept == {q.code : q \in do.kept}
<1>4. \A r \in do.records : RecordAt(r) = Serial!OutboxRecord(ag, do.rev, r.code)
  BY <1>3 DEF Held, RecordHeld, RecordAt, Serial!OutboxRecord
<1>5. RecordsAt' = RecordsAt \union {Serial!OutboxRecord(ag, do.rev, x) : x \in recorded}
  BY <1>1, <1>4 DEF RecordsAt
<1>6. /\ recorded \in SUBSET (do.lists \union {AgentScope})
      /\ recorded \in SUBSET (SourceCode \union {AgentScope})
      /\ recorded \ {AgentScope} \subseteq do.lists
  <2>1. \A r \in do.records : r.code \in do.lists \union {AgentScope}
    BY <1>3 DEF Held, RecordHeld
  <2> QED BY <1>1, <2>1
<1>7. /\ recorded # {} => ag \in AgentPaths
      /\ \A s \in recorded \ {AgentScope} : <<ag[1], ag[2], ag[3], s>> \in SourcePaths
  <2>1. ASSUME NEW r \in do.records
        PROVE  /\ ag \in AgentPaths
               /\ r.code # AgentScope => <<do.t, do.a, do.g, r.code>> \in SourcePaths
    <3>1. RecordHeld(do, r)
      BY <1>3 DEF Held
    <3>2. CASE r.code = AgentScope /\ AgentRows(do.t, do.a, do.g) # {}
      BY <3>2, FoundIsThere
    <3>3. CASE SourceRows(do.t, do.a, do.g, r.code) # {}
      <4>1. AgentRows(do.t, do.a, do.g) # {}
        BY <3>3 DEF SourceRows
      <4> QED BY <3>3, <4>1, FoundIsThere
    <3>4. \/ r.code = AgentScope /\ AgentRows(do.t, do.a, do.g) # {}
          \/ SourceRows(do.t, do.a, do.g, r.code) # {}
      BY <3>1 DEF RecordHeld
    <3> QED BY <3>2, <3>3, <3>4
  <2> QED BY <2>1
<1>8. /\ kept \in SUBSET (recorded \ {AgentScope})
      /\ do.agent # None \/ do.kept # {} => AgentScope \in recorded
  <2>1. ASSUME NEW q \in do.kept
        PROVE  q.code \in recorded /\ q.code # AgentScope
    <3>1. q.code \in do.lists
      BY <1>3 DEF Held
    <3>2. Recorded(do, q.code)
      BY <1>1, <1>3 DEF Covered
    <3> QED BY <1>1, <3>1, <3>2, NoneAssumption DEF Recorded
  <2>2. do.agent # None \/ do.kept # {} => AgentScope \in recorded
    BY <1>1, <1>3 DEF Covered, Recorded
  <2> HIDE DEF recorded
  <2> QED BY <2>1, <2>2
<1>9. \/ /\ \A x \in RuntimesAt : <<x.agent, x.rev>> # <<ag, do.rev>>
         /\ AgentScope \in recorded
         /\ RuntimesAt' = RuntimesAt
                \union {[agent |-> ag, rev |-> do.rev, lists |-> do.lists]}
      \/ UNCHANGED RuntimesAt
  <2>1. CASE do.agent # None
    <3>1. PICK row : row = [id |-> Fresh(runtimes), agent |-> do.agent, path |-> ag,
                            rev |-> do.rev, lists |-> do.lists]
      OBVIOUS
    <3>2. NewRuntimes(do) = {row}
      BY <2>1, <3>1 DEF NewRuntimes
    <3>3. RuntimeAt(row) = [agent |-> ag, rev |-> do.rev, lists |-> do.lists]
      BY <3>1 DEF RuntimeAt
    <3>4. RuntimesAt' = RuntimesAt
                \union {[agent |-> ag, rev |-> do.rev, lists |-> do.lists]}
      BY <1>1, <3>2, <3>3 DEF RuntimesAt
    <3>5. \A x \in RuntimesAt : <<x.agent, x.rev>> # <<ag, do.rev>>
      BY <1>1, <2>1 DEF RuntimesAt, RuntimeAt, RuntimeRows
    <3> QED BY <1>8, <2>1, <3>4, <3>5
  <2>2. CASE do.agent = None
    <3>1. runtimes' = runtimes
      BY <1>1, <2>2 DEF NewRuntimes
    <3> QED BY <3>1 DEF RuntimesAt
  <2> QED BY <2>1, <2>2
<1>10. \/ /\ \E x \in RuntimesAt' : <<x.agent, x.rev>> = <<ag, do.rev>>
          /\ AgentScope \in recorded
          /\ SourceRevsAt' = SourceRevsAt
                \union {Serial!SourceRevision(ag, s, do.srev, do.rev) : s \in kept}
       \/ UNCHANGED SourceRevsAt
  <2>1. CASE do.kept = {}
    <3>1. sourceRevs' = sourceRevs
      BY <1>1, <2>1 DEF KeptSourceRevs
    <3> QED BY <3>1 DEF SourceRevsAt
  <2>2. CASE do.kept # {}
    <3>1. PICK stored \in runtimes' : stored.path = ag /\ stored.rev = do.rev
      <4>1. CASE do.agent = None
        <5>1. RuntimeRows(ag, do.rev) # {}
          BY <1>3, <2>2, <4>1 DEF Held
        <5> QED BY <1>1, <5>1 DEF RuntimeRows
      <4>2. CASE do.agent # None
        <5>1. PICK row : row = [id |-> Fresh(runtimes), agent |-> do.agent,
                                path |-> ag, rev |-> do.rev, lists |-> do.lists]
          OBVIOUS
        <5>2. row \in runtimes'
          BY <1>1, <4>2, <5>1 DEF NewRuntimes
        <5>3. row.path = ag /\ row.rev = do.rev
          BY <5>1
        <5> HIDE DEF ag
        <5> QED BY <5>2, <5>3
      <4> QED BY <4>1, <4>2
    <3>2. \E x \in RuntimesAt' : <<x.agent, x.rev>> = <<ag, do.rev>>
      <4>1. RuntimeAt(stored)' \in RuntimesAt'
        BY <3>1 DEF RuntimesAt
      <4>2. RuntimeAt(stored)'.agent = ag /\ RuntimeAt(stored)'.rev = do.rev
        BY <3>1 DEF RuntimeAt
      <4> HIDE DEF ag
      <4> QED BY <4>1, <4>2
    <3>3. OfRuntime(do) # {}
      BY <1>3, <2>2 DEF Held, OfRuntime, RuntimeRows
    <3>4. {SourceRevAt(r) : r \in KeptSourceRevs(do)}
                = {Serial!SourceRevision(ag, s, do.srev, do.rev) : s \in kept}
      BY <3>3, KeptAt
    <3>5. SourceRevsAt' = SourceRevsAt \union {SourceRevAt(r) : r \in KeptSourceRevs(do)}
      BY <1>1 DEF SourceRevsAt
    <3> HIDE DEF recorded, kept, ag
    <3> QED BY <1>8, <2>2, <3>2, <3>4, <3>5
  <2> QED BY <2>1, <2>2
<1> HIDE DEF recorded, kept
<1>11. Serial!StoreRendered(ag, do.rev, do.srev, recorded)
  BY <1>1, <1>2, <1>5, <1>6, <1>7, <1>8, <1>9, <1>10, SeenAsBefore
  DEF Serial!StoreRendered, Serial!directory
<1> HIDE DEF ag
<1> QED BY <1>1, <1>6, <1>11 DEF Serial!Next

-----------------------------------------------------------------------------
(* The graph of an agent.                                                  *)

(* All that is under the codes of an agent goes, and its asset and tenant    *)
(* with it where they are left empty and belong to "with".                   *)
GraphGoes(t, a, g, with, goneSources) ==
    /\ goneSources = {r \in sources : \E q \in AgentRows(t, a, g) : r.agent = q.id}
    /\ agents' = agents \ AgentRows(t, a, g)
    /\ sources' = sources \ goneSources
    /\ points' = {r \in points : \A q \in goneSources : r.source # q.id}
    /\ runtimes' = {r \in runtimes : r.path # <<t, a, g>>}
    /\ sourceRevs' = {r \in sourceRevs : r.path # <<t, a, g>>}
    /\ outbox' = {r \in outbox : r.path # <<t, a, g>>}
    /\ assets' = IF /\ "asset" \in with
                    /\ \A q \in AssetRows(t, a), r \in agents' : r.asset # q.id
                 THEN assets \ AssetRows(t, a) ELSE assets
    /\ tenants' = IF /\ "tenant" \in with
                     /\ \A q \in TenantRows(t), r \in assets' : r.tenant # q.id
                  THEN tenants \ TenantRows(t) ELSE tenants

(* That is the serial delete of the agent's graph. *)
LEMMA WholeGraphGoes ==
  ASSUME IndInv, Mapped, IndInv', Mapped',
         NEW t \in TenantCode, NEW a \in AssetCode, NEW g \in AgentCode,
         NEW with, NEW goneSources, GraphGoes(t, a, g, with, goneSources)
  PROVE  Serial!Next
<1> USE DEF GraphGoes
<1>0. PICK withAsset \in BOOLEAN, withTenant \in BOOLEAN :
        (withAsset <=> "asset" \in with) /\ (withTenant <=> "tenant" \in with)
  OBVIOUS
<1> DEFINE ag == <<t, a, g>>
<1> DEFINE keptSources == {x \in SourcePaths : <<x[1], x[2], x[3]>> # ag}
<1>1. RowsPersist
  BY Persistence DEF IndInv
<1>2. /\ AgentPaths' = {AgentPathOf(r) : r \in agents'}
      /\ AgentPaths' = AgentPaths \ {ag}
  <2>1. AgentPaths' = {AgentPathOf(r) : r \in agents'}
    BY <1>1, PathsAfter
  <2>2. \A r \in agents : r \in agents' <=> AgentPathOf(r) # ag
    BY DEF Mapped, AgentsMapped
  <2> QED BY <2>1, <2>2 DEF AgentPaths
<1>3. \A r \in sources : r \in goneSources
            <=> <<SourcePathOf(r)[1], SourcePathOf(r)[2], SourcePathOf(r)[3]>> = ag
  <2> SUFFICES ASSUME NEW r \in sources
               PROVE  r \in goneSources
                        <=> <<SourcePathOf(r)[1], SourcePathOf(r)[2], SourcePathOf(r)[3]>> = ag
    OBVIOUS
  <2>1. PICK q \in agents : q.id = r.agent
    BY DEF IndInv, NoOrphans
  <2>2. r \in goneSources <=> q \in AgentRows(t, a, g)
    BY <2>1, AgentIds DEF IndInv, AgentRows
  <2>3. q \in AgentRows(t, a, g) <=> AgentPathOf(q) = ag
    BY DEF Mapped, AgentsMapped
  <2>4. <<SourcePathOf(r)[1], SourcePathOf(r)[2], SourcePathOf(r)[3]>> = AgentPathOf(q)
    BY <2>1 DEF Mapped, SourcesMapped
  <2> QED BY <2>2, <2>3, <2>4
<1>4. SourcePaths' = keptSources
  <2>1. SourcePaths' = {SourcePathOf(r) : r \in sources'}
    BY <1>1, PathsAfter
  <2> QED BY <1>3, <2>1 DEF SourcePaths
<1>5. PointsAt' = {x \in PointsAt : x.source \in keptSources}
  <2>1. PointsAt' = {PointAt(r) : r \in points'}
    BY <1>1, PathsAfter
  <2>2. \A r \in points : r \in points' <=> PointAt(r).source \in keptSources
    <3> SUFFICES ASSUME NEW r \in points
                 PROVE  r \in points' <=> PointAt(r).source \in keptSources
      OBVIOUS
    <3>1. PICK q \in sources : q.id = r.source
      BY DEF IndInv, NoOrphans
    <3>2. r \in points' <=> q \notin goneSources
      BY <3>1, SourceIds DEF IndInv
    <3>3. PointAt(r).source = SourcePathOf(q) /\ SourcePathOf(q) \in SourcePaths
      BY <3>1 DEF Mapped, PointsMapped, SourcePaths
    <3> QED BY <1>3, <3>2, <3>3
  <2> HIDE DEF keptSources
  <2> QED BY <2>1, <2>2 DEF PointsAt
<1>6. AssetPaths' = AssetPaths \ Serial!Emptied(t, a, withAsset)
  <2>1. (\A q \in AssetRows(t, a), r \in agents' : r.asset # q.id)
            <=> \A x \in AgentPaths' : <<x[1], x[2]>> # <<t, a>>
    <3>1. ASSUME NEW r \in agents'
          PROVE  (\E q \in AssetRows(t, a) : r.asset = q.id)
                    <=> <<AgentPathOf(r)[1], AgentPathOf(r)[2]>> = <<t, a>>
      <4>1. PICK q \in assets : q.id = r.asset
        BY DEF IndInv, NoOrphans
      <4>2. (\E x \in AssetRows(t, a) : r.asset = x.id) <=> q \in AssetRows(t, a)
        BY <4>1, AssetIds DEF IndInv, AssetRows
      <4> QED BY <4>1, <4>2 DEF Mapped, AssetsMapped, AgentsMapped
    <3> QED BY <1>2, <3>1
  <2>2. AssetPaths' = {AssetPathOf(r) : r \in assets'}
    BY <1>1, PathsAfter
  <2>3. \A r \in assets : r \in AssetRows(t, a) <=> AssetPathOf(r) = <<t, a>>
    BY DEF Mapped, AssetsMapped
  <2>4. CASE withAsset /\ \A x \in AgentPaths' : <<x[1], x[2]>> # <<t, a>>
    <3>1. assets' = assets \ AssetRows(t, a)
      BY <1>0, <2>1, <2>4
    <3>2. Serial!Emptied(t, a, withAsset) = {<<t, a>>}
      BY <2>4 DEF Serial!Emptied
    <3> QED BY <2>2, <2>3, <3>1, <3>2 DEF AssetPaths
  <2>5. CASE ~(withAsset /\ \A x \in AgentPaths' : <<x[1], x[2]>> # <<t, a>>)
    <3>1. assets' = assets
      BY <1>0, <2>1, <2>5
    <3>2. Serial!Emptied(t, a, withAsset) = {}
      BY <2>5 DEF Serial!Emptied
    <3> QED BY <2>2, <3>1, <3>2 DEF AssetPaths
  <2> QED BY <2>4, <2>5
<1>7. TenantCodes' = IF withTenant /\ \A x \in AssetPaths' : x[1] # t
                     THEN TenantCodes \ {t} ELSE TenantCodes
  <2>1. (\A q \in TenantRows(t), r \in assets' : r.tenant # q.id)
            <=> \A x \in AssetPaths' : x[1] # t
    <3>1. AssetPaths' = {AssetPathOf(r) : r \in assets'}
      BY <1>1, PathsAfter
    <3>2. ASSUME NEW r \in assets'
          PROVE  (\E q \in TenantRows(t) : r.tenant = q.id) <=> AssetPathOf(r)[1] = t
      <4>1. PICK q \in tenants : q.id = r.tenant
        BY DEF IndInv, NoOrphans
      <4>2. (\E x \in TenantRows(t) : r.tenant = x.id) <=> q \in TenantRows(t)
        BY <4>1, TenantIds DEF IndInv, TenantRows
      <4> QED BY <4>1, <4>2 DEF Mapped, AssetsMapped, TenantRows
    <3> QED BY <3>1, <3>2
  <2>2. {r.code : r \in tenants \ TenantRows(t)} = TenantCodes \ {t}
    BY DEF TenantRows, TenantCodes
  <2> QED BY <1>0, <2>1, <2>2 DEF TenantCodes
<1>8. /\ RuntimesAt' = {x \in RuntimesAt : x.agent # ag}
      /\ SourceRevsAt' = {x \in SourceRevsAt : x.agent # ag}
      /\ RecordsAt' = {x \in RecordsAt : x.agent # ag}
  <2>1. RuntimesAt' = {x \in RuntimesAt : x.agent # ag}
    BY DEF RuntimesAt, RuntimeAt
  <2>2. SourceRevsAt' = {x \in SourceRevsAt : x.agent # ag}
    BY DEF SourceRevsAt, SourceRevAt
  <2>3. RecordsAt' = {x \in RecordsAt : x.agent # ag}
    BY DEF RecordsAt, RecordAt
  <2> QED BY <2>1, <2>2, <2>3
<1>9. ag[1] = t /\ ag[2] = a /\ ag \in Serial!Agent
  BY DEF Serial!Agent
<1> HIDE DEF ag
<1>10. Serial!DeleteAgentRegistryGraph(ag, withAsset, withTenant)
  BY <1>2, <1>4, <1>5, <1>6, <1>7, <1>8, <1>9 DEF Serial!DeleteAgentRegistryGraph
<1> QED BY <1>9, <1>10 DEF Serial!Next

(* A call that has found the agent, or that finds none under its codes now,  *)
(* deletes the whole graph; one that finds an agent created since it looked  *)
(* deletes nothing but records.                                              *)
LEMMA RefineDeleteGraph ==
  ASSUME IndInv, Mapped, IndInv', Mapped', NEW c \in Client, DeleteGraph(c)
  PROVE  Serial!Next
<1>0. PICK do : do = session[c]
  OBVIOUS
<1> DEFINE ag == <<do.t, do.a, do.g>>
<1>1. PICK gone, goneSources :
        /\ gone = IF "agent" \in do.had THEN AgentRows(do.t, do.a, do.g) ELSE {}
        /\ goneSources = {r \in sources : \E q \in gone : r.agent = q.id}
  OBVIOUS
<1>2. PICK with : with = do.had \cap do.with
  OBVIOUS
<1>3. /\ outbox' = {r \in outbox : r.path # ag}
      /\ points' = {r \in points : \A q \in goneSources : r.source # q.id}
      /\ sources' = sources \ goneSources
      /\ agents' = agents \ gone
      /\ do.t \in TenantCode /\ do.a \in AssetCode /\ do.g \in AgentCode
  BY <1>0, <1>1 DEF DeleteGraph, IndInv, AllNamed, Named
<1>4. IF "agent" \in do.had
      THEN /\ runtimes' = {r \in runtimes : r.path # ag}
           /\ sourceRevs' = {r \in sourceRevs : r.path # ag}
      ELSE runtimes' = runtimes /\ sourceRevs' = sourceRevs
  BY <1>0 DEF DeleteGraph
<1>5. assets' = IF /\ "asset" \in with
                   /\ \A q \in AssetRows(do.t, do.a), r \in agents' : r.asset # q.id
                THEN assets \ AssetRows(do.t, do.a) ELSE assets
  BY <1>0, <1>2 DEF DeleteGraph
<1>6. tenants' = IF /\ "tenant" \in with
                    /\ \A q \in TenantRows(do.t), r \in assets' : r.tenant # q.id
                 THEN tenants \ TenantRows(do.t) ELSE tenants
  BY <1>0, <1>2 DEF DeleteGraph
<1>7. ASSUME gone = AgentRows(do.t, do.a, do.g),
             runtimes' = {r \in runtimes : r.path # ag},
             sourceRevs' = {r \in sourceRevs : r.path # ag}
      PROVE  Serial!Next
  <2>1. goneSources = {r \in sources : \E q \in AgentRows(do.t, do.a, do.g) : r.agent = q.id}
    BY <1>1, <1>7
  <2>2. agents' = agents \ AgentRows(do.t, do.a, do.g)
    BY <1>3, <1>7
  <2>3. GraphGoes(do.t, do.a, do.g, with, goneSources)
    BY <1>3, <1>5, <1>6, <1>7, <2>1, <2>2 DEF GraphGoes
  <2> QED BY <1>3, <2>3, WholeGraphGoes
<1>8. ASSUME "agent" \notin do.had, AgentRows(do.t, do.a, do.g) = {}
      PROVE  Serial!Next
  <2>1. gone = AgentRows(do.t, do.a, do.g)
    BY <1>1, <1>8
  <2>2. \A r \in runtimes \union sourceRevs : r.path # ag
    BY <1>8 DEF IndInv, CodesAgree, SourceRows
  <2>3. /\ runtimes' = {r \in runtimes : r.path # ag}
        /\ sourceRevs' = {r \in sourceRevs : r.path # ag}
    BY <1>4, <1>8, <2>2
  <2> QED BY <1>7, <2>1, <2>3
<1>9. ASSUME "agent" \notin do.had, NEW x \in AgentRows(do.t, do.a, do.g)
      PROVE  Serial!Next
  <2>1. gone = {} /\ goneSources = {}
    BY <1>1, <1>9
  <2>2. /\ agents' = agents /\ sources' = sources /\ points' = points
        /\ runtimes' = runtimes /\ sourceRevs' = sourceRevs
    BY <1>3, <1>4, <1>9, <2>1
  <2>3. PICK y \in AssetRows(do.t, do.a) : x.asset = y.id
    BY DEF AgentRows
  <2>4. assets' = assets
    BY <1>5, <2>2, <2>3 DEF AgentRows
  <2>5. PICK z \in TenantRows(do.t) : y.tenant = z.id
    BY DEF AssetRows
  <2>6. tenants' = tenants
    BY <1>6, <2>4, <2>5 DEF AssetRows
  <2>7. RowsPersist
    BY <2>2, <2>4, <2>6 DEF RowsPersist
  <2>8. RecordsAt' = {r \in RecordsAt : r.agent # ag}
    BY <1>3 DEF RecordsAt, RecordAt
  <2>9. Serial!DeleteRecordsOnly(ag)
    BY <2>2, <2>4, <2>6, <2>7, <2>8, SeenAsBefore
    DEF Serial!DeleteRecordsOnly, Serial!directory
  <2> QED BY <1>3, <2>9 DEF Serial!Next, Serial!Agent
<1>10. "agent" \in do.had => gone = AgentRows(do.t, do.a, do.g)
  BY <1>1
<1> QED BY <1>4, <1>7, <1>8, <1>9, <1>10

-----------------------------------------------------------------------------
(* The refinement.                                                         *)

(* Every step is a use case run alone, or is not seen. *)
LEMMA RefineNext ==
  ASSUME IndInv, Mapped, RecordsNamed, IndInv', Mapped', [Next]_vars
  PROVE  [Serial!Next]_(Serial!vars)
<1>1. ASSUME NEW c \in Client, Call(c)
      PROVE  UNCHANGED Serial!vars
  BY <1>1, CallsOnlyRead, RefineStutter
<1>2. ASSUME NEW c \in Client, \/ BeginStore(c) \/ StoreSourceRevision(c)
                                  \/ StoreRecord(c) \/ Abort(c)
      PROVE  UNCHANGED Serial!vars
  <2>1. UNCHANGED tables
    BY <1>2 DEF BeginStore, StoreSourceRevision, StoreRecord, Abort
  <2> QED BY <2>1, RefineStutter
<1>3. ASSUME NEW c \in Client, Commit(c)
      PROVE  [Serial!Next]_(Serial!vars)
  BY <1>2, <1>3, RefineAddTenant, RefineDropTenant, RefineAddAsset, RefineDropAsset,
     RefineAddAgent, RefineDropAgent, RefineAddSource, RefineDropSource,
     RefineAddPoint, RefineSetPoint, RefineDropPoint, RefineAddRuntimeRevision,
     RefineAddSourceRevision, RefineStoreOutbox, RefineDeleteGraph DEF Commit
<1>4. CASE UNCHANGED vars
  <2>1. UNCHANGED tables
    BY <1>4 DEF vars
  <2> QED BY <2>1, RefineStutter
<1> QED BY <1>1, <1>3, <1>4 DEF Next

(* Checks and writes that interleave on Postgres, and calls that find their  *)
(* rows gone, do to the directory of codes what use cases run one at a time  *)
(* on the in-memory unit of work could have done.                            *)
THEOREM Implementation == Spec => ImplementsSerialRegistry
<1>1. Init => Serial!Init /\ RecordsNamed
  BY DEF Init, Serial!Init, RecordsNamed, TenantCodes, AssetPaths, AgentPaths,
     SourcePaths, PointsAt, RuntimesAt, SourceRevsAt, RecordsAt
<1>2. IndInv /\ RecordsNamed /\ [Next]_vars => RecordsNamed'
  BY RecordsStayNamed
<1>3. IndInv => Mapped
  BY StateIsMapped
<1>4. IndInv /\ Mapped /\ RecordsNamed /\ IndInv' /\ Mapped' /\ [Next]_vars
        => [Serial!Next]_(Serial!vars)
  BY RefineNext
<1> QED BY <1>1, <1>2, <1>3, <1>4, Invariance, PTL
        DEF Spec, ImplementsSerialRegistry, Serial!Spec

=============================================================================
