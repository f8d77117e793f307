------------------------ MODULE ConfigRegistryProofs ------------------------
(***************************************************************************)
(* For any number of clients, codes, revisions and rows: whatever the      *)
(* units of work of the Config Registry interleave, codes stay unique,     *)
(* references and repeated codes stay true.                                *)
(***************************************************************************)
EXTENDS ConfigRegistry, TLAPS

(* What a unit of work has begun with: each use case names what it is about. *)
Named(do) ==
    /\ do.op # "none" => do.t \in TenantCode
    /\ do.op \notin {"none", "create tenant", "delete tenant", "create point",
                     "update point", "delete point"} => do.a \in AssetCode
    /\ do.op \in {"create agent", "delete agent", "create source",
                  "delete source", "runtime revision", "source revision",
                  "rendered", "storing", "recording", "delete graph"}
            => do.g \in AgentCode
    /\ do.op \in {"create source", "delete source", "source revision"}
            => do.s \in SourceCode
    /\ do.op \in {"create point", "update point"} => do.key \in PointKey
    /\ do.op \in {"create point", "update point", "delete point"}
            => do.p \in PointCode
    /\ do.op \in {"runtime revision", "source revision", "rendered",
                  "storing", "recording"} => do.rev \in Revision
    /\ do.op \in {"source revision", "rendered", "storing", "recording"}
            => do.srev \in Revision

AllNamed == \A c \in Client : Named(session[c])

(* What a storing transaction has found, and locked by inserting what refers *)
(* to it, is still there under the codes by which it was found.              *)
RecordHeld(do, n) ==
    /\ n.path = <<do.t, do.a, do.g>> /\ n.rev = do.rev
    /\ \/ /\ n.code = AgentScope /\ n.source = None
          /\ \E q \in AgentRows(do.t, do.a, do.g) : n.agent = q.id
       \/ /\ n.code \in do.lists
          /\ \E q \in SourceRows(do.t, do.a, do.g, n.code) :
                n.source = q.id /\ n.agent = q.agent

Held(do) ==
    /\ do.agent # None => \E q \in AgentRows(do.t, do.a, do.g) : q.id = do.agent
    /\ \A q \in do.kept :
            q \in SourceRows(do.t, do.a, do.g, q.code) /\ q.code \in do.lists
    /\ do.kept # {} /\ do.agent = None =>
            RuntimeRows(<<do.t, do.a, do.g>>, do.rev) # {}
    /\ \A n \in do.records : RecordHeld(do, n)
    /\ do.left \subseteq do.lists \union {AgentScope}

(* Whatever it has inserted a revision of has an outbox record, or is still  *)
(* to get one.                                                               *)
Recorded(do, x) == x \in do.left \/ \E n \in do.records : n.code = x

Covered(do) ==
    do.op = "recording" =>
        /\ \A q \in do.kept : Recorded(do, q.code)
        /\ do.agent # None \/ do.kept # {} => Recorded(do, AgentScope)

HeldRows == \A c \in Client : Held(session[c]) /\ Covered(session[c])

IndInv == TypeOK /\ AllNamed /\ OneRowPerCode /\ NoOrphans /\ CodesAgree /\ HeldRows

-----------------------------------------------------------------------------
(* Lookups.                                                                *)

(* A new row gets an id that no row of its table has.                      *)
LEMMA FreshIsFree ==
  ASSUME NEW table, Room(table)
  PROVE  Fresh(table) \in RowId /\ \A r \in table : r.id # Fresh(table)
BY DEF Fresh, Room

(* A row id is of one tenant. *)
LEMMA TenantIds ==
  ASSUME OneRowPerCode PROVE \A r, q \in tenants : r.id = q.id => r = q
BY DEF OneRowPerCode

(* A row id is of one asset. *)
LEMMA AssetIds ==
  ASSUME OneRowPerCode PROVE \A r, q \in assets : r.id = q.id => r = q
BY DEF OneRowPerCode

(* A row id is of one agent. *)
LEMMA AgentIds ==
  ASSUME OneRowPerCode PROVE \A r, q \in agents : r.id = q.id => r = q
BY DEF OneRowPerCode

(* A row id is of one source. *)
LEMMA SourceIds ==
  ASSUME OneRowPerCode PROVE \A r, q \in sources : r.id = q.id => r = q
BY DEF OneRowPerCode

(* A row id is of one runtime revision. *)
LEMMA RuntimeIds ==
  ASSUME OneRowPerCode PROVE \A r, q \in runtimes : r.id = q.id => r = q
BY DEF OneRowPerCode

(* A tenant code finds one tenant, a path of codes one asset, agent, source. *)
LEMMA LookupsAreUnique ==
  ASSUME OneRowPerCode
  PROVE  /\ \A t : \A r, q \in TenantRows(t) : r = q
         /\ \A t, a : \A r, q \in AssetRows(t, a) : r = q
         /\ \A t, a, g : \A r, q \in AgentRows(t, a, g) : r = q
         /\ \A t, a, g, s : \A r, q \in SourceRows(t, a, g, s) : r = q
<1>1. \A t : \A r, q \in TenantRows(t) : r = q
  BY DEF TenantRows, OneRowPerCode
<1>2. \A t, a : \A r, q \in AssetRows(t, a) : r = q
  <2> SUFFICES ASSUME NEW t, NEW a, NEW r \in AssetRows(t, a), NEW q \in AssetRows(t, a)
               PROVE  r = q
    OBVIOUS
  <2>1. PICK x \in TenantRows(t) : r.tenant = x.id
    BY DEF AssetRows
  <2>2. PICK y \in TenantRows(t) : q.tenant = y.id
    BY DEF AssetRows
  <2> QED BY <1>1, <2>1, <2>2 DEF AssetRows, OneRowPerCode
<1>3. \A t, a, g : \A r, q \in AgentRows(t, a, g) : r = q
  <2> SUFFICES ASSUME NEW t, NEW a, NEW g,
                      NEW r \in AgentRows(t, a, g), NEW q \in AgentRows(t, a, g)
               PROVE  r = q
    OBVIOUS
  <2>1. PICK x \in AssetRows(t, a) : r.asset = x.id
    BY DEF AgentRows
  <2>2. PICK y \in AssetRows(t, a) : q.asset = y.id
    BY DEF AgentRows
  <2> QED BY <1>2, <2>1, <2>2 DEF AgentRows, OneRowPerCode
<1>4. \A t, a, g, s : \A r, q \in SourceRows(t, a, g, s) : r = q
  <2> SUFFICES ASSUME NEW t, NEW a, NEW g, NEW s,
                      NEW r \in SourceRows(t, a, g, s), NEW q \in SourceRows(t, a, g, s)
               PROVE  r = q
    OBVIOUS
  <2>1. PICK x \in AgentRows(t, a, g) : r.agent = x.id
    BY DEF SourceRows
  <2>2. PICK y \in AgentRows(t, a, g) : q.agent = y.id
    BY DEF SourceRows
  <2> QED BY <1>3, <2>1, <2>2 DEF SourceRows, OneRowPerCode
<1> QED BY <1>1, <1>2, <1>3, <1>4

(* A tenant's point code finds one point. *)
LEMMA PointLookupIsUnique ==
  ASSUME OneRowPerCode, NoOrphans, CodesAgree, NEW t, NEW p,
         NEW r \in PointRows(t, p), NEW q \in PointRows(t, p)
  PROVE  r = q
<1>1. ASSUME NEW x \in PointRows(t, p)
      PROVE  \E z \in TenantRows(t) : x.tenant = z.id
  <2>1. PICK z \in tenants : z.id = x.tenant
    BY DEF PointRows, NoOrphans
  <2>2. x \in PointRows(z.code, x.code)
    BY <2>1 DEF PointRows, CodesAgree
  <2>3. PICK s1 \in sources, g1 \in agents, a1 \in assets, z1 \in tenants :
            /\ x.source = s1.id /\ s1.agent = g1.id /\ g1.asset = a1.id
            /\ a1.tenant = z1.id /\ z1.code = z.code
    BY <2>2 DEF PointRows, TenantRows
  <2>4. PICK s2 \in sources, g2 \in agents, a2 \in assets, z2 \in tenants :
            /\ x.source = s2.id /\ s2.agent = g2.id /\ g2.asset = a2.id
            /\ a2.tenant = z2.id /\ z2.code = t
    BY DEF PointRows, TenantRows
  <2>5. s1 = s2 /\ g1 = g2 /\ a1 = a2 /\ z1 = z2
    <3>1. s1 = s2
      BY <2>3, <2>4, SourceIds
    <3>2. g1 = g2
      BY <2>3, <2>4, <3>1, AgentIds
    <3>3. a1 = a2
      BY <2>3, <2>4, <3>2, AssetIds
    <3> QED BY <2>3, <2>4, <3>1, <3>2, <3>3, TenantIds
  <2> QED BY <2>1, <2>3, <2>4, <2>5 DEF TenantRows
<1>2. r.tenant = q.tenant
  <2>1. PICK y \in TenantRows(t) : r.tenant = y.id
    BY <1>1
  <2>2. PICK z \in TenantRows(t) : q.tenant = z.id
    BY <1>1
  <2> QED BY <2>1, <2>2, LookupsAreUnique
<1> QED BY <1>2 DEF PointRows, OneRowPerCode

-----------------------------------------------------------------------------
(* What a change of the tables leaves as it was.                           *)

(* A row whose id is still in its table is still in its table: tables gain   *)
(* rows or lose rows, and rows that others refer to are not rewritten.       *)
RowsPersist ==
    /\ \A x \in tenants, y \in tenants' : x.id = y.id => x \in tenants'
    /\ \A x \in assets, y \in assets' : x.id = y.id => x \in assets'
    /\ \A x \in agents, y \in agents' : x.id = y.id => x \in agents'
    /\ \A x \in sources, y \in sources' : x.id = y.id => x \in sources'
    /\ \A x \in runtimes, y \in runtimes' : x.id = y.id => x \in runtimes'

(* Tables that only grow, or only shrink, keep their rows' ids. *)
LEMMA Persistence ==
  ASSUME OneRowPerCode,
         tenants' \subseteq tenants \/ tenants \subseteq tenants',
         assets' \subseteq assets \/ assets \subseteq assets',
         agents' \subseteq agents \/ agents \subseteq agents',
         sources' \subseteq sources \/ sources \subseteq sources',
         runtimes' \subseteq runtimes \/ runtimes \subseteq runtimes'
  PROVE  RowsPersist
<1>1. \A x \in tenants, y \in tenants' : x.id = y.id => x \in tenants'
  BY TenantIds
<1>2. \A x \in assets, y \in assets' : x.id = y.id => x \in assets'
  BY AssetIds
<1>3. \A x \in agents, y \in agents' : x.id = y.id => x \in agents'
  BY AgentIds
<1>4. \A x \in sources, y \in sources' : x.id = y.id => x \in sources'
  BY SourceIds
<1>5. \A x \in runtimes, y \in runtimes' : x.id = y.id => x \in runtimes'
  BY RuntimeIds
<1> QED BY <1>1, <1>2, <1>3, <1>4, <1>5 DEF RowsPersist

(* The owners of a row stay with it, as far as the references among the      *)
(* directory's tables hold afterwards.                                       *)
OwnersExist ==
    /\ \A r \in assets : \E q \in tenants : q.id = r.tenant
    /\ \A r \in agents : \E q \in assets : q.id = r.asset
    /\ \A r \in sources : \E q \in agents : q.id = r.agent

(* A row that stays is found under the codes it was found under. *)
LEMMA LookupsPersist ==
  ASSUME RowsPersist, OwnersExist'
  PROVE  /\ \A t : \A q \in TenantRows(t) : q \in tenants' => q \in TenantRows(t)'
         /\ \A t, a : \A q \in AssetRows(t, a) : q \in assets' => q \in AssetRows(t, a)'
         /\ \A t, a, g : \A q \in AgentRows(t, a, g) :
                q \in agents' => q \in AgentRows(t, a, g)'
         /\ \A t, a, g, s : \A q \in SourceRows(t, a, g, s) :
                q \in sources' => q \in SourceRows(t, a, g, s)'
<1>1. \A t : \A q \in TenantRows(t) : q \in tenants' => q \in TenantRows(t)'
  BY DEF TenantRows
<1>2. \A t, a : \A q \in AssetRows(t, a) : q \in assets' => q \in AssetRows(t, a)'
  <2> SUFFICES ASSUME NEW t, NEW a, NEW q \in AssetRows(t, a), q \in assets'
               PROVE  q \in AssetRows(t, a)'
    OBVIOUS
  <2>1. PICK x \in TenantRows(t) : q.tenant = x.id
    BY DEF AssetRows
  <2>2. PICK y \in tenants' : y.id = q.tenant
    BY DEF OwnersExist
  <2>3. x \in tenants'
    BY <2>1, <2>2 DEF RowsPersist, TenantRows
  <2> QED BY <1>1, <2>1, <2>3 DEF AssetRows
<1>3. \A t, a, g : \A q \in AgentRows(t, a, g) : q \in agents' => q \in AgentRows(t, a, g)'
  <2> SUFFICES ASSUME NEW t, NEW a, NEW g, NEW q \in AgentRows(t, a, g), q \in agents'
               PROVE  q \in AgentRows(t, a, g)'
    OBVIOUS
  <2>1. PICK x \in AssetRows(t, a) : q.asset = x.id
    BY DEF AgentRows
  <2>2. PICK y \in assets' : y.id = q.asset
    BY DEF OwnersExist
  <2>3. x \in assets'
    BY <2>1, <2>2 DEF RowsPersist, AssetRows
  <2> QED BY <1>2, <2>1, <2>3 DEF AgentRows
<1>4. \A t, a, g, s : \A q \in SourceRows(t, a, g, s) :
                q \in sources' => q \in SourceRows(t, a, g, s)'
  <2> SUFFICES ASSUME NEW t, NEW a, NEW g, NEW s, NEW q \in SourceRows(t, a, g, s),
                      q \in sources'
               PROVE  q \in SourceRows(t, a, g, s)'
    OBVIOUS
  <2>1. PICK x \in AgentRows(t, a, g) : q.agent = x.id
    BY DEF SourceRows
  <2>2. PICK y \in agents' : y.id = q.agent
    BY DEF OwnersExist
  <2>3. x \in agents'
    BY <2>1, <2>2 DEF RowsPersist, AgentRows
  <2> QED BY <1>3, <2>1, <2>3 DEF SourceRows
<1> QED BY <1>1, <1>2, <1>3, <1>4

(* A point that keeps its source keeps its tenant, and is found as before. *)
LEMMA PointsPersist ==
  ASSUME OneRowPerCode, NoOrphans, CodesAgree, RowsPersist, OwnersExist',
         NEW r \in points, \E q \in sources' : q.id = r.source
  PROVE  \E z \in tenants \cap tenants' :
            /\ z.id = r.tenant
            /\ \E q \in sources', x \in agents', y \in assets' :
                    /\ r.source = q.id /\ q.agent = x.id
                    /\ x.asset = y.id /\ y.tenant = z.id
<1>1. PICK z \in tenants : z.id = r.tenant
  BY DEF NoOrphans
<1>2. r \in PointRows(z.code, r.code)
  BY <1>1 DEF CodesAgree
<1>3. PICK q \in sources, x \in agents, y \in assets, z1 \in tenants :
            /\ r.source = q.id /\ q.agent = x.id /\ x.asset = y.id
            /\ y.tenant = z1.id /\ z1.code = z.code
  BY <1>2 DEF PointRows, TenantRows
<1>4. z1 = z
  BY <1>3 DEF OneRowPerCode
<1>5. q \in sources'
  BY <1>3 DEF RowsPersist
<1>6. x \in agents'
  BY <1>3, <1>5 DEF RowsPersist, OwnersExist
<1>7. y \in assets'
  BY <1>3, <1>6 DEF RowsPersist, OwnersExist
<1>8. z \in tenants'
  BY <1>3, <1>4, <1>7 DEF RowsPersist, OwnersExist
<1> QED BY <1>1, <1>3, <1>4, <1>5, <1>6, <1>7, <1>8

(* Rows that were there agree with their codes still; so do all rows, if the *)
(* new ones do.                                                              *)
LEMMA CodesStep ==
  ASSUME OneRowPerCode, NoOrphans, CodesAgree, RowsPersist,
         OneRowPerCode', NoOrphans',
         \A r \in (runtimes' \ runtimes) \union (outbox' \ outbox) :
            (\E q \in AgentRows(r.path[1], r.path[2], r.path[3]) : q.id = r.agent)',
         \A r \in sourceRevs' \ sourceRevs :
            /\ (\E q \in SourceRows(r.path[1], r.path[2], r.path[3], r.code) :
                    q.id = r.source)'
            /\ (\E q \in RuntimeRows(r.path, r.rev) : q.id = r.runtime)',
         \A r \in outbox' \ outbox : r.source # None =>
            (\E q \in SourceRows(r.path[1], r.path[2], r.path[3], r.code) :
                    q.id = r.source)',
         \A r \in points' \ points, z \in tenants' :
            z.id = r.tenant => r \in PointRows(z.code, r.code)'
  PROVE  CodesAgree'
<1>0. OwnersExist'
  BY DEF NoOrphans, OwnersExist
<1>1. \A r \in runtimes' \union outbox' :
            (\E q \in AgentRows(r.path[1], r.path[2], r.path[3]) : q.id = r.agent)'
  <2> SUFFICES ASSUME NEW r \in (runtimes \cap runtimes') \union (outbox \cap outbox')
               PROVE  (\E q \in AgentRows(r.path[1], r.path[2], r.path[3]) : q.id = r.agent)'
    OBVIOUS
  <2>1. PICK q \in AgentRows(r.path[1], r.path[2], r.path[3]) : q.id = r.agent
    BY DEF CodesAgree
  <2>2. PICK x \in agents' : x.id = r.agent
    BY DEF NoOrphans
  <2>3. q \in agents'
    BY <2>1, <2>2 DEF RowsPersist, AgentRows
  <2> QED BY <1>0, <2>1, <2>3, LookupsPersist
<1>2. ASSUME NEW r \in sourceRevs \union {x \in outbox : x.source # None},
             \E x \in sources' : x.id = r.source
      PROVE  (\E q \in SourceRows(r.path[1], r.path[2], r.path[3], r.code) :
                    q.id = r.source)'
  <2>1. PICK q \in SourceRows(r.path[1], r.path[2], r.path[3], r.code) : q.id = r.source
    BY DEF CodesAgree
  <2>2. q \in sources'
    BY <1>2, <2>1 DEF RowsPersist, SourceRows
  <2> QED BY <1>0, <2>1, <2>2, LookupsPersist
<1>3. \A r \in sourceRevs' :
            /\ (\E q \in SourceRows(r.path[1], r.path[2], r.path[3], r.code) :
                    q.id = r.source)'
            /\ (\E q \in RuntimeRows(r.path, r.rev) : q.id = r.runtime)'
  <2> SUFFICES ASSUME NEW r \in sourceRevs, r \in sourceRevs'
               PROVE  /\ (\E q \in SourceRows(r.path[1], r.path[2], r.path[3], r.code) :
                                q.id = r.source)'
                      /\ (\E q \in RuntimeRows(r.path, r.rev) : q.id = r.runtime)'
    OBVIOUS
  <2>1. PICK q \in RuntimeRows(r.path, r.rev) : q.id = r.runtime
    BY DEF CodesAgree
  <2>2. /\ \E x \in runtimes' : x.id = r.runtime
        /\ \E x \in sources' : x.id = r.source
    BY DEF NoOrphans
  <2>3. q \in runtimes'
    BY <2>1, <2>2 DEF RowsPersist, RuntimeRows
  <2>4. q \in RuntimeRows(r.path, r.rev)'
    BY <2>1, <2>3 DEF RuntimeRows
  <2> QED BY <1>2, <2>1, <2>2, <2>4
<1>4. \A r \in outbox' : r.source # None =>
            (\E q \in SourceRows(r.path[1], r.path[2], r.path[3], r.code) :
                    q.id = r.source)'
  <2> SUFFICES ASSUME NEW r \in outbox, r \in outbox', r.source # None
               PROVE  (\E q \in SourceRows(r.path[1], r.path[2], r.path[3], r.code) :
                                q.id = r.source)'
    OBVIOUS
  <2>1. \E x \in sources' : x.id = r.source
    BY DEF NoOrphans
  <2> QED BY <1>2, <2>1
<1>5. \A r \in points', z \in tenants' :
            z.id = r.tenant => r \in PointRows(z.code, r.code)'
  <2> SUFFICES ASSUME NEW r \in points, r \in points', NEW z \in tenants', z.id = r.tenant
               PROVE  r \in PointRows(z.code, r.code)'
    OBVIOUS
  <2>1. \E x \in sources' : x.id = r.source
    BY DEF NoOrphans
  <2>2. PICK y \in tenants \cap tenants' :
            /\ y.id = r.tenant
            /\ \E q \in sources', x \in agents', a \in assets' :
                    /\ r.source = q.id /\ q.agent = x.id
                    /\ x.asset = a.id /\ a.tenant = y.id
    BY <1>0, <2>1, PointsPersist
  <2>3. y = z
    BY <2>2 DEF OneRowPerCode
  <2> QED BY <2>2, <2>3 DEF PointRows, TenantRows
<1> QED BY <1>1, <1>3, <1>4, <1>5 DEF CodesAgree

-----------------------------------------------------------------------------
(* Steps of a unit of work.                                                *)

(* A unit of work that has stored nothing. *)
Unlocked(do) ==
    /\ do.agent = None /\ do.kept = {} /\ do.records = {}
    /\ do.left = {} /\ do.op # "recording"

(* A session goes on as it is, or lets go of its locks. *)
Unlocks ==
    \A d \in Client :
        \/ session'[d] = session[d]
        \/ Unlocked(session'[d])

(* The end of a unit of work: one session is idle, the others as before. *)
LEMMA DoneStep ==
  ASSUME TypeOK, AllNamed, NEW c \in Client, Done(c)
  PROVE  /\ session' \in [Client -> UseCase]
         /\ AllNamed'
         /\ Unlocks
<1>1. /\ Idle \in UseCase
      /\ Unlocked(Idle)
      /\ Named(Idle)
  <2>1. Idle \in UseCase
    BY DEF Idle, UseCase, Op
  <2>2. Named(Idle)
    BY DEF Idle, Named
  <2> QED BY <2>1, <2>2 DEF Idle, Unlocked
<1>2. \A d \in Client : session'[d] = IF d = c THEN Idle ELSE session[d]
  BY DEF Done, TypeOK
<1>3. AllNamed'
  <2> SUFFICES ASSUME NEW d \in Client PROVE Named(session'[d])
    BY DEF AllNamed, Named
  <2> QED BY <1>1, <1>2 DEF AllNamed
<1> QED BY <1>1, <1>2, <1>3 DEF Done, TypeOK, Unlocks

(* Locked rows stay, and the revisions of locked agents. *)
LocksKept ==
    /\ \A q \in agents : q.id \in LockedAgents => q \in agents'
    /\ \A q \in sources : q.id \in LockedSources => q \in sources'
    /\ \A r \in runtimes : r.agent \in LockedAgents => r \in runtimes'

(* What is locked stays locked, and found. *)
LEMMA HeldStep ==
  ASSUME OneRowPerCode, CodesAgree, HeldRows, RowsPersist, OwnersExist',
         Unlocks, LocksKept
  PROVE  HeldRows'
<1> SUFFICES ASSUME NEW d \in Client
             PROVE  (Held(session[d]) /\ Covered(session[d]))'
  BY DEF HeldRows
<1>1. CASE Unlocked(session'[d])
  BY <1>1 DEF Unlocked, Held, Covered
<1>2. CASE session'[d] = session[d]
  <2> DEFINE do == session[d]
  <2> DEFINE path == <<do.t, do.a, do.g>>
  <2>0. Held(do) /\ Covered(do)
    BY DEF HeldRows
  <2>1. \A q \in AgentRows(do.t, do.a, do.g) :
            q.id \in LockedAgents => q \in AgentRows(do.t, do.a, do.g)'
    BY <1>2, LookupsPersist DEF LocksKept, AgentRows
  <2>2. \A s : \A q \in SourceRows(do.t, do.a, do.g, s) :
            q.id \in LockedSources => q \in SourceRows(do.t, do.a, do.g, s)'
    BY <1>2, LookupsPersist DEF LocksKept, SourceRows
  <2>3. do.agent # None => \E q \in AgentRows(do.t, do.a, do.g)' : q.id = do.agent
    <3>1. do.agent \in LockedAgents
      BY DEF LockedAgents
    <3> QED BY <1>2, <2>0, <2>1, <3>1 DEF Held
  <2>4. \A q \in do.kept :
            q \in SourceRows(do.t, do.a, do.g, q.code)' /\ q.code \in do.lists
    <3>1. \A q \in do.kept : q.id \in LockedSources
      BY DEF LockedSources
    <3> QED BY <1>2, <2>0, <2>2, <3>1 DEF Held
  <2>5. do.kept # {} /\ do.agent = None => RuntimeRows(path, do.rev)' # {}
    <3> SUFFICES ASSUME NEW q \in do.kept, do.agent = None
                 PROVE  RuntimeRows(path, do.rev)' # {}
      OBVIOUS
    <3>1. PICK r \in RuntimeRows(path, do.rev) : TRUE
      BY <2>0 DEF Held
    <3>2. r \in runtimes /\ r.path = path
      BY <3>1 DEF RuntimeRows
    <3>3. PICK x \in AgentRows(do.t, do.a, do.g) : x.id = r.agent
      BY <3>2 DEF CodesAgree
    <3>4. q \in SourceRows(do.t, do.a, do.g, q.code)
      BY <2>0 DEF Held
    <3>5. PICK y \in AgentRows(do.t, do.a, do.g) : q.agent = y.id
      BY <3>4 DEF SourceRows
    <3>6. x = y
      BY LookupsAreUnique
    <3>7. q.agent \in LockedAgents
      BY DEF LockedAgents
    <3>8. r \in runtimes'
      BY <3>2, <3>3, <3>5, <3>6, <3>7 DEF LocksKept
    <3> QED BY <1>2, <3>1, <3>8 DEF RuntimeRows
  <2>6. ASSUME NEW n \in do.records PROVE RecordHeld(do, n)'
    <3>1. RecordHeld(do, n)
      BY <2>0 DEF Held
    <3>2. n.agent \in LockedAgents /\ n.source \in LockedSources
      BY DEF LockedAgents, LockedSources
    <3>3. do' = do
      BY <1>2
    <3>4. CASE n.code = AgentScope /\ n.source = None
               /\ \E q \in AgentRows(do.t, do.a, do.g) : n.agent = q.id
      BY <2>1, <3>1, <3>2, <3>3, <3>4 DEF RecordHeld
    <3>5. CASE /\ n.code \in do.lists
               /\ \E q \in SourceRows(do.t, do.a, do.g, n.code) :
                        n.source = q.id /\ n.agent = q.agent
      BY <2>2, <3>1, <3>2, <3>3, <3>5 DEF RecordHeld
    <3> QED BY <3>1, <3>4, <3>5 DEF RecordHeld
  <2>7. Held(session[d])'
    <3>1. do.left \subseteq do.lists \union {AgentScope}
      BY <2>0 DEF Held
    <3> QED BY <1>2, <2>3, <2>4, <2>5, <2>6, <3>1 DEF Held
  <2>8. Covered(session[d])'
    BY <1>2, <2>0 DEF Covered, Recorded
  <2> QED BY <2>7, <2>8
<1> QED BY <1>1, <1>2 DEF Unlocks

(* A unit of work begins on tables it does not change. *)
LEMMA BeginStep ==
  ASSUME IndInv, NEW c \in Client, NEW call \in UseCase, Begin(c, call),
         Named(call), Unlocked(call)
  PROVE  IndInv'
<1>1. UNCHANGED <<tables, lost>>
  BY DEF Begin
<1>2. \A d \in Client : session'[d] = IF d = c THEN call ELSE session[d]
  BY DEF Begin, IndInv, TypeOK
<1>3. TypeOK'
  BY <1>1 DEF Begin, IndInv, TypeOK, tables, directory, config
<1>4. AllNamed'
  <2> SUFFICES ASSUME NEW d \in Client PROVE Named(session'[d])
    BY DEF AllNamed, Named
  <2> QED BY <1>2 DEF IndInv, AllNamed
<1>5. OneRowPerCode' /\ NoOrphans'
  BY <1>1 DEF IndInv, OneRowPerCode, NoOrphans, tables, directory, config
<1>6. CodesAgree'
  BY <1>1 DEF IndInv, CodesAgree, AgentRows, AssetRows, TenantRows, SourceRows,
     PointRows, RuntimeRows, tables, directory, config
<1>7. RowsPersist /\ OwnersExist' /\ LocksKept
  BY <1>1 DEF IndInv, RowsPersist, NoOrphans, OwnersExist, LocksKept, tables,
     directory, config
<1>8. Unlocks
  BY <1>2 DEF Unlocks
<1>9. HeldRows'
  BY <1>7, <1>8, HeldStep DEF IndInv
<1> QED BY <1>3, <1>4, <1>5, <1>6, <1>9 DEF IndInv

(* Each use case begins with the arguments it needs. *)
LEMMA CallStep ==
  ASSUME IndInv, NEW c \in Client, Call(c)
  PROVE  IndInv'
<1>1. ASSUME NEW t \in TenantCode,
             BeginCreateTenant(c, t)
      PROVE  IndInv'
  <2> DEFINE call == [Idle EXCEPT !.op = "create tenant", !.t = t]
  <2>1. call \in UseCase
    BY DEF Idle, UseCase, Op
  <2>2. Named(call)
    BY DEF Idle, Named
  <2>3. Begin(c, call) /\ Unlocked(call)
    BY <1>1 DEF BeginCreateTenant, Idle, Unlocked
  <2> HIDE DEF call
  <2> QED BY <2>1, <2>2, <2>3, BeginStep
<1>2. ASSUME NEW t \in TenantCode,
             BeginDeleteTenant(c, t)
      PROVE  IndInv'
  <2> DEFINE call == [Idle EXCEPT !.op = "delete tenant", !.t = t]
  <2>1. call \in UseCase
    BY DEF Idle, UseCase, Op
  <2>2. Named(call)
    BY DEF Idle, Named
  <2>3. Begin(c, call) /\ Unlocked(call)
    BY <1>2 DEF BeginDeleteTenant, Idle, Unlocked
  <2> HIDE DEF call
  <2> QED BY <2>1, <2>2, <2>3, BeginStep
<1>3. ASSUME NEW t \in TenantCode, NEW a \in AssetCode,
             BeginCreateAsset(c, t, a)
      PROVE  IndInv'
  <2> DEFINE call == [Idle EXCEPT !.op = "create asset", !.t = t, !.a = a]
  <2>1. call \in UseCase
    BY DEF Idle, UseCase, Op
  <2>2. Named(call)
    BY DEF Idle, Named
  <2>3. Begin(c, call) /\ Unlocked(call)
    BY <1>3 DEF BeginCreateAsset, Idle, Unlocked
  <2> HIDE DEF call
  <2> QED BY <2>1, <2>2, <2>3, BeginStep
<1>4. ASSUME NEW t \in TenantCode, NEW a \in AssetCode,
             BeginDeleteAsset(c, t, a)
      PROVE  IndInv'
  <2> DEFINE call == [Idle EXCEPT !.op = "delete asset", !.t = t, !.a = a]
  <2>1. call \in UseCase
    BY DEF Idle, UseCase, Op
  <2>2. Named(call)
    BY DEF Idle, Named
  <2>3. Begin(c, call) /\ Unlocked(call)
    BY <1>4 DEF BeginDeleteAsset, Idle, Unlocked
  <2> HIDE DEF call
  <2> QED BY <2>1, <2>2, <2>3, BeginStep
<1>5. ASSUME NEW t \in TenantCode, NEW a \in AssetCode, NEW g \in AgentCode,
             BeginCreateAgent(c, t, a, g)
      PROVE  IndInv'
  <2> DEFINE call == [Idle EXCEPT !.op = "create agent", !.t = t, !.a = a, !.g = g]
  <2>1. call \in UseCase
    BY DEF Idle, UseCase, Op
  <2>2. Named(call)
    BY DEF Idle, Named
  <2>3. Begin(c, call) /\ Unlocked(call)
    BY <1>5 DEF BeginCreateAgent, Idle, Unlocked
  <2> HIDE DEF call
  <2> QED BY <2>1, <2>2, <2>3, BeginStep
<1>6. ASSUME NEW t \in TenantCode, NEW a \in AssetCode, NEW g \in AgentCode,
             BeginDeleteAgent(c, t, a, g)
      PROVE  IndInv'
  <2> DEFINE call == [Idle EXCEPT !.op = "delete agent", !.t = t, !.a = a, !.g = g]
  <2>1. call \in UseCase
    BY DEF Idle, UseCase, Op
  <2>2. Named(call)
    BY DEF Idle, Named
  <2>3. Begin(c, call) /\ Unlocked(call)
    BY <1>6 DEF BeginDeleteAgent, Idle, Unlocked
  <2> HIDE DEF call
  <2> QED BY <2>1, <2>2, <2>3, BeginStep
<1>7. ASSUME NEW t \in TenantCode, NEW a \in AssetCode, NEW g \in AgentCode,
             NEW s \in SourceCode,
             BeginCreateSource(c, t, a, g, s)
      PROVE  IndInv'
  <2> DEFINE call == [Idle EXCEPT !.op = "create source", !.t = t, !.a = a, !.g = g, !.s = s]
  <2>1. call \in UseCase
    BY DEF Idle, UseCase, Op
  <2>2. Named(call)
    BY DEF Idle, Named
  <2>3. Begin(c, call) /\ Unlocked(call)
    BY <1>7 DEF BeginCreateSource, Idle, Unlocked
  <2> HIDE DEF call
  <2> QED BY <2>1, <2>2, <2>3, BeginStep
<1>8. ASSUME NEW t \in TenantCode, NEW a \in AssetCode, NEW g \in AgentCode,
             NEW s \in SourceCode,
             BeginDeleteSource(c, t, a, g, s)
      PROVE  IndInv'
  <2> DEFINE call == [Idle EXCEPT !.op = "delete source", !.t = t, !.a = a, !.g = g, !.s = s]
  <2>1. call \in UseCase
    BY DEF Idle, UseCase, Op
  <2>2. Named(call)
    BY DEF Idle, Named
  <2>3. Begin(c, call) /\ Unlocked(call)
    BY <1>8 DEF BeginDeleteSource, Idle, Unlocked
  <2> HIDE DEF call
  <2> QED BY <2>1, <2>2, <2>3, BeginStep
<1>9. ASSUME NEW t \in TenantCode, NEW a \in AssetCode, NEW g \in AgentCode,
             NEW s \in SourceCode, NEW p \in PointCode, NEW key \in PointKey,
             BeginCreatePoint(c, t, a, g, s, p, key)
      PROVE  IndInv'
  <2> DEFINE call == [Idle EXCEPT !.op = "create point", !.t = t, !.a = a, !.g = g,
                     !.s = s, !.p = p, !.key = key]
  <2>1. call \in UseCase
    BY DEF Idle, UseCase, Op
  <2>2. Named(call)
    BY DEF Idle, Named
  <2>3. Begin(c, call) /\ Unlocked(call)
    BY <1>9 DEF BeginCreatePoint, Idle, Unlocked
  <2> HIDE DEF call
  <2> QED BY <2>1, <2>2, <2>3, BeginStep
<1>10. ASSUME NEW t \in TenantCode, NEW p \in PointCode,
             BeginDeletePoint(c, t, p)
      PROVE  IndInv'
  <2> DEFINE call == [Idle EXCEPT !.op = "delete point", !.t = t, !.p = p]
  <2>1. call \in UseCase
    BY DEF Idle, UseCase, Op
  <2>2. Named(call)
    BY DEF Idle, Named
  <2>3. Begin(c, call) /\ Unlocked(call)
    BY <1>10 DEF BeginDeletePoint, Idle, Unlocked
  <2> HIDE DEF call
  <2> QED BY <2>1, <2>2, <2>3, BeginStep
<1>11. ASSUME NEW t \in TenantCode, NEW a \in AssetCode, NEW g \in AgentCode,
             NEW rev \in Revision,
             BeginRuntimeRevision(c, t, a, g, rev)
      PROVE  IndInv'
  <2> DEFINE call == [Idle EXCEPT !.op = "runtime revision", !.t = t, !.a = a, !.g = g,
                     !.rev = rev]
  <2>1. call \in UseCase
    BY DEF Idle, UseCase, Op
  <2>2. Named(call)
    BY DEF Idle, Named
  <2>3. Begin(c, call) /\ Unlocked(call)
    BY <1>11 DEF BeginRuntimeRevision, Idle, Unlocked
  <2> HIDE DEF call
  <2> QED BY <2>1, <2>2, <2>3, BeginStep
<1>12. ASSUME NEW t \in TenantCode, NEW a \in AssetCode, NEW g \in AgentCode,
             NEW s \in SourceCode, NEW srev \in Revision, NEW rev \in Revision,
             BeginSourceRevision(c, t, a, g, s, srev, rev)
      PROVE  IndInv'
  <2> DEFINE call == [Idle EXCEPT !.op = "source revision", !.t = t, !.a = a, !.g = g,
                     !.s = s, !.srev = srev, !.rev = rev]
  <2>1. call \in UseCase
    BY DEF Idle, UseCase, Op
  <2>2. Named(call)
    BY DEF Idle, Named
  <2>3. Begin(c, call) /\ Unlocked(call)
    BY <1>12 DEF BeginSourceRevision, Idle, Unlocked
  <2> HIDE DEF call
  <2> QED BY <2>1, <2>2, <2>3, BeginStep
<1>13. ASSUME NEW t \in TenantCode, NEW p \in PointCode, NEW key \in PointKey,
             BeginUpdatePoint(c, t, p, key)
      PROVE  IndInv'
  <2>0. PICK row \in PointRows(t, p) :
            Begin(c, [Idle EXCEPT !.op = "update point", !.t = t, !.p = p,
                                  !.key = key])
    BY <1>13 DEF BeginUpdatePoint
  <2> DEFINE call == [Idle EXCEPT !.op = "update point", !.t = t, !.p = p,
                                  !.key = key]
  <2>1. call \in UseCase
    BY DEF Idle, UseCase, Op
  <2>2. Named(call)
    BY DEF Idle, Named
  <2>3. Begin(c, call) /\ Unlocked(call)
    BY <2>0 DEF Idle, Unlocked
  <2> HIDE DEF call
  <2> QED BY <2>1, <2>2, <2>3, BeginStep
<1>14. ASSUME NEW t \in TenantCode, NEW a \in AssetCode, NEW g \in AgentCode,
             NEW rev \in Revision, NEW srev \in Revision,
             Render(c, t, a, g, rev, srev)
      PROVE  IndInv'
  <2> DEFINE listed == {s \in SourceCode : SourceRows(t, a, g, s) # {}}
  <2> DEFINE call == [Idle EXCEPT !.op = "rendered", !.t = t, !.a = a, !.g = g,
                                  !.rev = rev, !.srev = srev, !.lists = listed]
  <2>0. Begin(c, call)
    BY <1>14 DEF Render
  <2>1. call \in UseCase
    BY DEF Idle, UseCase, Op
  <2>2. Named(call)
    BY DEF Idle, Named
  <2>3. Unlocked(call)
    BY DEF Idle, Unlocked
  <2> HIDE DEF call
  <2> QED BY <2>0, <2>1, <2>2, <2>3, BeginStep
<1>15. ASSUME NEW t \in TenantCode, NEW a \in AssetCode, NEW g \in AgentCode,
             NEW with \in SUBSET {"asset", "tenant"}, BeginDeleteGraph(c, t, a, g, with)
      PROVE  IndInv'
  <2> DEFINE had == {x \in {"tenant", "asset", "agent"} :
                        \/ x = "tenant" /\ TenantRows(t) # {}
                        \/ x = "asset" /\ AssetRows(t, a) # {}
                        \/ x = "agent" /\ AgentRows(t, a, g) # {}}
  <2> DEFINE call == [Idle EXCEPT !.op = "delete graph", !.t = t, !.a = a, !.g = g,
                                  !.with = with, !.had = had]
  <2>0. Begin(c, call)
    BY <1>15 DEF BeginDeleteGraph
  <2>1. call \in UseCase
    BY DEF Idle, UseCase, Op
  <2>2. Named(call)
    BY DEF Idle, Named
  <2>3. Unlocked(call)
    BY DEF Idle, Unlocked
  <2> HIDE DEF call
  <2> QED BY <2>0, <2>1, <2>2, <2>3, BeginStep
<1> QED BY <1>1, <1>2, <1>3, <1>4, <1>5, <1>6, <1>7, <1>8, <1>9, <1>10, <1>11,
           <1>12, <1>13, <1>14, <1>15
        DEF Call, TenantCalls, AssetCalls, AgentCalls, SourceCalls, PointCalls,
            RevisionCalls, GraphCalls

-----------------------------------------------------------------------------
(* Commits.                                                                *)

(* The tables and the history have their types. *)
TablesTyped ==
    /\ tenants \subseteq Tenant /\ assets \subseteq Asset
    /\ agents \subseteq Agent /\ sources \subseteq Source
    /\ points \subseteq Point /\ runtimes \subseteq Runtime
    /\ sourceRevs \subseteq SourceRev /\ outbox \subseteq OutboxRow
    /\ lost \in [Client -> SUBSET SourceCode]

(* A commit keeps the invariant if the tables do and no locked row goes. *)
LEMMA CommitStep ==
  ASSUME IndInv, NEW c \in Client, Done(c), TablesTyped',
         OneRowPerCode', NoOrphans', CodesAgree', RowsPersist,
         LocksKept
  PROVE  IndInv'
<1>1. /\ session' \in [Client -> UseCase]
      /\ AllNamed'
      /\ Unlocks
  BY DoneStep DEF IndInv
<1>2. OwnersExist'
  BY DEF NoOrphans, OwnersExist
<1>3. HeldRows'
  BY <1>1, <1>2, HeldStep DEF IndInv
<1> QED BY <1>1, <1>3 DEF IndInv, TypeOK, TablesTyped

(* A commit that deletes neither agents, sources nor revisions keeps them.   *)
LEMMA LocksHold ==
  ASSUME agents \subseteq agents', sources \subseteq sources',
         runtimes \subseteq runtimes'
  PROVE  LocksKept
BY DEF LocksKept

(* A unit of work that is rolled back leaves the tables alone. *)
LEMMA AbortStep ==
  ASSUME IndInv, NEW c \in Client, Abort(c)
  PROVE  IndInv'
<1>1. /\ UNCHANGED <<tenants, assets, agents, sources, points, runtimes, sourceRevs, outbox>>
      /\ lost' = [lost EXCEPT ![c] = {}]
      /\ Done(c)
  BY DEF Abort, tables, directory, config
<1>2. TablesTyped'
  BY <1>1 DEF TablesTyped, IndInv, TypeOK
<1>3. OneRowPerCode' /\ NoOrphans'
  BY <1>1 DEF IndInv, OneRowPerCode, NoOrphans
<1>4. RowsPersist
  BY <1>1, Persistence DEF IndInv
<1>5. CodesAgree'
  BY <1>1, <1>3, <1>4, CodesStep DEF IndInv
<1> QED BY <1>1, <1>2, <1>3, <1>4, <1>5, LocksHold, CommitStep

(* A tenant is inserted. *)
LEMMA AddTenantStep ==
  ASSUME IndInv, NEW c \in Client, AddTenant(c)
  PROVE  IndInv'
<1> DEFINE new == [id |-> Fresh(tenants), code |-> session[c].t]
<1>1. /\ UNCHANGED <<assets, agents, sources, points, runtimes, sourceRevs, outbox, lost>>
      /\ tenants' = tenants \union {new}
      /\ \A r \in tenants : r.code # session[c].t
      /\ Done(c)
  BY DEF AddTenant, config
<1>2. Fresh(tenants) \in RowId /\ \A r \in tenants : r.id # Fresh(tenants)
  BY FreshIsFree DEF AddTenant
<1>3. new \in Tenant
  BY <1>2 DEF AddTenant, IndInv, AllNamed, Named, Tenant
<1>4. TablesTyped'
  BY <1>1, <1>3 DEF TablesTyped, IndInv, TypeOK
<1>5. OneRowPerCode'
  BY <1>1, <1>2 DEF IndInv, OneRowPerCode
<1>6. NoOrphans'
  BY <1>1 DEF IndInv, NoOrphans
<1>7. RowsPersist
  BY <1>1, Persistence DEF IndInv
<1>8. CodesAgree'
  BY <1>1, <1>5, <1>6, <1>7, CodesStep DEF IndInv
<1> QED BY <1>1, <1>4, <1>5, <1>6, <1>7, <1>8, LocksHold, CommitStep

(* A tenant that owns nothing is deleted. *)
LEMMA DropTenantStep ==
  ASSUME IndInv, NEW c \in Client, DropTenant(c)
  PROVE  IndInv'
<1> DEFINE rows == TenantRows(session[c].t)
<1>1. /\ UNCHANGED <<assets, agents, sources, points, runtimes, sourceRevs, outbox, lost>>
      /\ tenants' = tenants \ rows
      /\ \A q \in rows, r \in assets : r.tenant # q.id
      /\ Done(c)
  BY DEF DropTenant, config
<1> HIDE DEF rows
<1>2. TablesTyped'
  BY <1>1 DEF TablesTyped, IndInv, TypeOK
<1>3. OneRowPerCode'
  BY <1>1 DEF IndInv, OneRowPerCode
<1>4. RowsPersist
  BY <1>1, Persistence DEF IndInv
<1>5. OwnersExist'
  BY <1>1 DEF IndInv, NoOrphans, OwnersExist
<1>6. NoOrphans'
  <2>1. \A r \in points : \E z \in tenants' : z.id = r.tenant
    BY <1>1, <1>4, <1>5, PointsPersist DEF IndInv, NoOrphans
  <2> QED BY <1>1, <1>5, <2>1 DEF IndInv, NoOrphans, OwnersExist
<1>7. CodesAgree'
  BY <1>1, <1>3, <1>4, <1>6, CodesStep DEF IndInv
<1> QED BY <1>1, <1>2, <1>3, <1>4, <1>6, <1>7, LocksHold, CommitStep

(* An asset is inserted, if its tenant is there. *)
LEMMA AddAssetStep ==
  ASSUME IndInv, NEW c \in Client, AddAsset(c)
  PROVE  IndInv'
<1> DEFINE do == session[c]
<1> DEFINE new == {[id |-> Fresh(assets), tenant |-> q.id, code |-> do.a] : q \in TenantRows(do.t)}
<1>1. /\ UNCHANGED <<tenants, agents, sources, points, runtimes, sourceRevs, outbox, lost>>
      /\ assets' = assets \union new
      /\ AssetRows(do.t, do.a) = {}
      /\ Done(c)
  BY DEF AddAsset, config
<1>2. Fresh(assets) \in RowId /\ \A r \in assets : r.id # Fresh(assets)
  BY FreshIsFree DEF AddAsset
<1>3. TablesTyped'
  <2>1. do.a \in AssetCode
    BY DEF AddAsset, IndInv, AllNamed, Named
  <2>2. new \subseteq Asset
    BY <1>2, <2>1 DEF IndInv, TypeOK, TenantRows, Tenant, Asset
  <2> QED BY <1>1, <2>2 DEF TablesTyped, IndInv, TypeOK
<1>4. \A q \in TenantRows(do.t) : q \in tenants
  BY DEF TenantRows
<1>5. OneRowPerCode'
  <2>1. \A r, q \in new : r = q
    BY LookupsAreUnique DEF IndInv
  <2>2. \A r \in assets, q \in new :
            ~(r.id = q.id \/ (r.tenant = q.tenant /\ r.code = q.code))
    BY <1>1, <1>2 DEF AssetRows
  <2> QED BY <1>1, <2>1, <2>2 DEF IndInv, OneRowPerCode
<1>6. NoOrphans'
  <2>1. \A r \in new : \E q \in tenants : q.id = r.tenant
    BY <1>4
  <2> QED BY <1>1, <2>1 DEF IndInv, NoOrphans
<1>7. RowsPersist
  BY <1>1, Persistence DEF IndInv
<1>8. CodesAgree'
  BY <1>1, <1>5, <1>6, <1>7, CodesStep DEF IndInv
<1> QED BY <1>1, <1>3, <1>5, <1>6, <1>7, <1>8, LocksHold, CommitStep

(* An agent is inserted, if its asset is there. *)
LEMMA AddAgentStep ==
  ASSUME IndInv, NEW c \in Client, AddAgent(c)
  PROVE  IndInv'
<1> DEFINE do == session[c]
<1> DEFINE new == {[id |-> Fresh(agents), asset |-> q.id, code |-> do.g] : q \in AssetRows(do.t, do.a)}
<1>1. /\ UNCHANGED <<tenants, assets, sources, points, runtimes, sourceRevs, outbox, lost>>
      /\ agents' = agents \union new
      /\ AgentRows(do.t, do.a, do.g) = {}
      /\ Done(c)
  BY DEF AddAgent, config
<1>2. Fresh(agents) \in RowId /\ \A r \in agents : r.id # Fresh(agents)
  BY FreshIsFree DEF AddAgent
<1>3. TablesTyped'
  <2>1. do.g \in AgentCode
    BY DEF AddAgent, IndInv, AllNamed, Named
  <2>2. new \subseteq Agent
    BY <1>2, <2>1 DEF IndInv, TypeOK, AssetRows, Asset, Agent
  <2> QED BY <1>1, <2>2 DEF TablesTyped, IndInv, TypeOK
<1>4. \A q \in AssetRows(do.t, do.a) : q \in assets
  BY DEF AssetRows
<1>5. OneRowPerCode'
  <2>1. \A r, q \in new : r = q
    BY LookupsAreUnique DEF IndInv
  <2>2. \A r \in agents, q \in new :
            ~(r.id = q.id \/ (r.asset = q.asset /\ r.code = q.code))
    BY <1>1, <1>2 DEF AgentRows
  <2> QED BY <1>1, <2>1, <2>2 DEF IndInv, OneRowPerCode
<1>6. NoOrphans'
  <2>1. \A r \in new : \E q \in assets : q.id = r.asset
    BY <1>4
  <2> QED BY <1>1, <2>1 DEF IndInv, NoOrphans
<1>7. RowsPersist
  BY <1>1, Persistence DEF IndInv
<1>8. CodesAgree'
  BY <1>1, <1>5, <1>6, <1>7, CodesStep DEF IndInv
<1> QED BY <1>1, <1>3, <1>5, <1>6, <1>7, <1>8, LocksHold, CommitStep

(* A source is inserted, if its agent is there. *)
LEMMA AddSourceStep ==
  ASSUME IndInv, NEW c \in Client, AddSource(c)
  PROVE  IndInv'
<1> DEFINE do == session[c]
<1> DEFINE new == {[id |-> Fresh(sources), agent |-> q.id, code |-> do.s] : q \in AgentRows(do.t, do.a, do.g)}
<1>1. /\ UNCHANGED <<tenants, assets, agents, points, runtimes, sourceRevs, outbox, lost>>
      /\ sources' = sources \union new
      /\ SourceRows(do.t, do.a, do.g, do.s) = {}
      /\ Done(c)
  BY DEF AddSource, config
<1>2. Fresh(sources) \in RowId /\ \A r \in sources : r.id # Fresh(sources)
  BY FreshIsFree DEF AddSource
<1>3. TablesTyped'
  <2>1. do.s \in SourceCode
    BY DEF AddSource, IndInv, AllNamed, Named
  <2>2. new \subseteq Source
    BY <1>2, <2>1 DEF IndInv, TypeOK, AgentRows, Agent, Source
  <2> QED BY <1>1, <2>2 DEF TablesTyped, IndInv, TypeOK
<1>4. \A q \in AgentRows(do.t, do.a, do.g) : q \in agents
  BY DEF AgentRows
<1>5. OneRowPerCode'
  <2>1. \A r, q \in new : r = q
    BY LookupsAreUnique DEF IndInv
  <2>2. \A r \in sources, q \in new :
            ~(r.id = q.id \/ (r.agent = q.agent /\ r.code = q.code))
    BY <1>1, <1>2 DEF SourceRows
  <2> QED BY <1>1, <2>1, <2>2 DEF IndInv, OneRowPerCode
<1>6. NoOrphans'
  <2>1. \A r \in new : \E q \in agents : q.id = r.agent
    BY <1>4
  <2> QED BY <1>1, <2>1 DEF IndInv, NoOrphans
<1>7. RowsPersist
  BY <1>1, Persistence DEF IndInv
<1>8. CodesAgree'
  BY <1>1, <1>5, <1>6, <1>7, CodesStep DEF IndInv
<1> QED BY <1>1, <1>3, <1>5, <1>6, <1>7, <1>8, LocksHold, CommitStep

(* An asset that owns nothing is deleted. *)
LEMMA DropAssetStep ==
  ASSUME IndInv, NEW c \in Client, DropAsset(c)
  PROVE  IndInv'
<1> DEFINE rows == AssetRows(session[c].t, session[c].a)
<1>1. /\ UNCHANGED <<tenants, agents, sources, points, runtimes, sourceRevs, outbox, lost>>
      /\ assets' = assets \ rows
      /\ \A q \in rows, r \in agents : r.asset # q.id
      /\ Done(c)
  BY DEF DropAsset, config
<1> HIDE DEF rows
<1>2. TablesTyped'
  BY <1>1 DEF TablesTyped, IndInv, TypeOK
<1>3. OneRowPerCode'
  BY <1>1 DEF IndInv, OneRowPerCode
<1>4. RowsPersist
  BY <1>1, Persistence DEF IndInv
<1>5. NoOrphans'
  BY <1>1 DEF IndInv, NoOrphans
<1>6. CodesAgree'
  BY <1>1, <1>3, <1>4, <1>5, CodesStep DEF IndInv
<1> QED BY <1>1, <1>2, <1>3, <1>4, <1>5, <1>6, LocksHold, CommitStep

(* An agent that nothing refers to, locks included, is deleted. *)
LEMMA DropAgentStep ==
  ASSUME IndInv, NEW c \in Client, DropAgent(c)
  PROVE  IndInv'
<1> DEFINE rows == AgentRows(session[c].t, session[c].a, session[c].g)
<1>1. /\ UNCHANGED <<tenants, assets, sources, points, runtimes, sourceRevs, outbox, lost>>
      /\ agents' = agents \ rows
      /\ \A q \in rows : /\ q.id \notin LockedAgents
                        /\ \A r \in sources \union runtimes \union outbox :
                                r.agent # q.id
      /\ Done(c)
  BY DEF DropAgent, config
<1> HIDE DEF rows
<1>2. TablesTyped'
  BY <1>1 DEF TablesTyped, IndInv, TypeOK
<1>3. OneRowPerCode'
  BY <1>1 DEF IndInv, OneRowPerCode
<1>4. RowsPersist
  BY <1>1, Persistence DEF IndInv
<1>5. NoOrphans'
  BY <1>1 DEF IndInv, NoOrphans
<1>6. CodesAgree'
  BY <1>1, <1>3, <1>4, <1>5, CodesStep DEF IndInv
<1>7. LocksKept
  BY <1>1 DEF LocksKept
<1> QED BY <1>1, <1>2, <1>3, <1>4, <1>5, <1>6, <1>7, CommitStep

(* What is lost to the clients that have rendered is sources. *)
LEMMA LoseTyped ==
  ASSUME IndInv, NEW path, NEW codes \in SUBSET SourceCode, Lose(path, codes)
  PROVE  lost' \in [Client -> SUBSET SourceCode]
BY DEF Lose, IndInv, TypeOK

(* A source that nothing refers to, locks included, is deleted. *)
LEMMA DropSourceStep ==
  ASSUME IndInv, NEW c \in Client, DropSource(c)
  PROVE  IndInv'
<1> DEFINE rows == SourceRows(session[c].t, session[c].a, session[c].g, session[c].s)
<1> DEFINE codes == {q.code : q \in rows}
<1>1. /\ UNCHANGED <<tenants, assets, agents, points, runtimes, sourceRevs, outbox>>
      /\ sources' = sources \ rows
      /\ \A q \in rows : q.id \notin LockedSources
      /\ \A q \in rows, r \in points \union sourceRevs \union outbox :
            r.source # q.id
      /\ Lose(<<session[c].t, session[c].a, session[c].g>>, codes)
      /\ Done(c)
  BY DEF DropSource, config
<1>2. codes \subseteq SourceCode
  BY DEF SourceRows, IndInv, TypeOK, Source
<1> HIDE DEF rows, codes
<1>3. TablesTyped'
  BY <1>1, <1>2, LoseTyped DEF TablesTyped, IndInv, TypeOK
<1>4. OneRowPerCode'
  BY <1>1 DEF IndInv, OneRowPerCode
<1>5. RowsPersist
  BY <1>1, Persistence DEF IndInv
<1>6. NoOrphans'
  BY <1>1 DEF IndInv, NoOrphans
<1>7. CodesAgree'
  BY <1>1, <1>4, <1>5, <1>6, CodesStep DEF IndInv
<1>8. LocksKept
  BY <1>1 DEF LocksKept
<1> QED BY <1>1, <1>3, <1>4, <1>5, <1>6, <1>7, <1>8, CommitStep

(* A point is inserted, if its source is there. *)
LEMMA AddPointStep ==
  ASSUME IndInv, NEW c \in Client, AddPoint(c)
  PROVE  IndInv'
<1> DEFINE do == session[c]
<1> DEFINE new == NewPoints(do)
<1>1. /\ UNCHANGED <<tenants, assets, agents, sources, runtimes, sourceRevs, outbox, lost>>
      /\ points' = points \union new
      /\ \A row \in new : ~PointRefused(row, points)
      /\ Done(c)
  BY DEF AddPoint, config
<1>2. Fresh(points) \in RowId /\ \A r \in points : r.id # Fresh(points)
  BY FreshIsFree DEF AddPoint
<1>4. ASSUME NEW r \in new
      PROVE  \E q \in SourceRows(do.t, do.a, do.g, do.s), z \in TenantRows(do.t) :
                r = [id |-> Fresh(points), tenant |-> z.id, source |-> q.id,
                     code |-> do.p, key |-> do.key]
  BY DEF NewPoints
<1>3. TablesTyped'
  <2>1. do.p \in PointCode /\ do.key \in PointKey
    BY DEF AddPoint, IndInv, AllNamed, Named
  <2>2. new \subseteq Point
    BY <1>2, <1>4, <2>1 DEF IndInv, TypeOK, SourceRows, Source, TenantRows, Tenant, Point
  <2> QED BY <1>1, <2>2 DEF TablesTyped, IndInv, TypeOK
<1> HIDE DEF new
<1>5. OneRowPerCode'
  <2>1. \A r, q \in new : r = q
    BY <1>4, LookupsAreUnique DEF IndInv
  <2>2. \A r \in points, q \in new :
            ~(\/ r.id = q.id
              \/ r.tenant = q.tenant /\ r.code = q.code
              \/ r.source = q.source /\ r.key = q.key)
    BY <1>1, <1>2, <1>4 DEF PointRefused
  <2> QED BY <1>1, <2>1, <2>2 DEF IndInv, OneRowPerCode
<1>6. NoOrphans'
  <2>1. \A r \in new : /\ \E q \in sources : q.id = r.source
                       /\ \E z \in tenants : z.id = r.tenant
    BY <1>4 DEF SourceRows, TenantRows
  <2> QED BY <1>1, <2>1 DEF IndInv, NoOrphans
<1>7. RowsPersist
  BY <1>1, Persistence DEF IndInv
<1>8. CodesAgree'
  <2>1. ASSUME NEW r \in new, NEW z \in tenants, z.id = r.tenant
        PROVE  /\ z.code = do.t
               /\ \E q \in sources, x \in agents, y \in assets, w \in tenants :
                    /\ r.source = q.id /\ q.agent = x.id /\ x.asset = y.id
                    /\ y.tenant = w.id /\ w.code = do.t
    <3>1. PICK q \in SourceRows(do.t, do.a, do.g, do.s), w \in TenantRows(do.t) :
                r.tenant = w.id /\ r.source = q.id
      BY <1>4
    <3>2. z.code = do.t
      BY <2>1, <3>1, TenantIds DEF IndInv, TenantRows
    <3>3. PICK x \in AgentRows(do.t, do.a, do.g) : q.agent = x.id
      BY DEF SourceRows
    <3>4. PICK y \in AssetRows(do.t, do.a) : x.asset = y.id
      BY DEF AgentRows
    <3>5. PICK v \in TenantRows(do.t) : y.tenant = v.id
      BY DEF AssetRows
    <3>6. q \in sources /\ x \in agents /\ y \in assets /\ v \in tenants /\ v.code = do.t
      BY DEF SourceRows, AgentRows, AssetRows, TenantRows
    <3> QED BY <3>1, <3>2, <3>3, <3>4, <3>5, <3>6
  <2>2. \A r \in points' \ points, z \in tenants' :
            z.id = r.tenant => r \in PointRows(z.code, r.code)'
    BY <1>1, <2>1 DEF PointRows, TenantRows
  <2> QED BY <1>1, <1>5, <1>6, <1>7, <2>2, CodesStep DEF IndInv
<1> QED BY <1>1, <1>3, <1>5, <1>6, <1>7, <1>8, LocksHold, CommitStep

(* A point is given another key. *)
LEMMA SetPointStep ==
  ASSUME IndInv, NEW c \in Client, SetPoint(c)
  PROVE  IndInv'
<1> DEFINE do == session[c]
<1> DEFINE rows == PointRows(do.t, do.p)
<1> DEFINE new == {[row EXCEPT !.key = do.key] : row \in rows}
<1>1. /\ UNCHANGED <<tenants, assets, agents, sources, runtimes, sourceRevs, outbox, lost>>
      /\ points' = (points \ rows) \union new
      /\ \A row \in new : ~PointRefused(row, points \ rows)
      /\ Done(c)
  BY DEF SetPoint, config
<1>2. /\ rows \subseteq points
      /\ \A r, q \in rows : r = q
  <2>1. \A r, q \in PointRows(do.t, do.p) : r = q
    BY PointLookupIsUnique DEF IndInv
  <2> QED BY <2>1 DEF PointRows
<1>3. \A r \in new : \E q \in rows :
            /\ r = [q EXCEPT !.key = do.key]
            /\ r.id = q.id /\ r.tenant = q.tenant /\ r.source = q.source
            /\ r.code = q.code /\ r.key = do.key /\ r \in Point
  <2>1. do.key \in PointKey
    BY DEF SetPoint, IndInv, AllNamed, Named
  <2>2. points \subseteq Point
    BY DEF IndInv, TypeOK
  <2> QED BY <1>2, <2>1, <2>2 DEF Point
<1> HIDE DEF rows, new
<1>4. TablesTyped'
  BY <1>1, <1>3 DEF TablesTyped, IndInv, TypeOK
<1>5. OneRowPerCode'
  <2>1. \A r, q \in new : r = q
    BY <1>2, <1>3
  <2>2. \A r \in points \ rows, q \in new :
            ~(\/ r.id = q.id
              \/ r.tenant = q.tenant /\ r.code = q.code
              \/ r.source = q.source /\ r.key = q.key)
    <3>1. \A r \in points \ rows, q \in new : r.id # q.id
      BY <1>2, <1>3 DEF IndInv, OneRowPerCode
    <3> QED BY <1>1, <3>1 DEF PointRefused
  <2> QED BY <1>1, <2>1, <2>2 DEF IndInv, OneRowPerCode
<1>6. NoOrphans'
  <2>1. \A r \in new : /\ \E q \in sources : q.id = r.source
                       /\ \E z \in tenants : z.id = r.tenant
    BY <1>2, <1>3 DEF IndInv, NoOrphans
  <2> QED BY <1>1, <2>1 DEF IndInv, NoOrphans
<1>7. RowsPersist
  BY <1>1, Persistence DEF IndInv
<1>8. CodesAgree'
  <2>1. \A r \in new, z \in tenants' :
            z.id = r.tenant => r \in PointRows(z.code, r.code)'
    <3> SUFFICES ASSUME NEW r \in new, NEW z \in tenants, z.id = r.tenant
                 PROVE  r \in PointRows(z.code, r.code)'
      BY <1>1
    <3>1. PICK q \in rows : q.tenant = r.tenant /\ q.source = r.source /\ q.code = r.code
      BY <1>3
    <3>2. q \in PointRows(z.code, q.code)
      BY <1>2, <3>1 DEF IndInv, CodesAgree
    <3>3. r \in points'
      BY <1>1
    <3> QED BY <1>1, <3>1, <3>2, <3>3 DEF PointRows, TenantRows
  <2> QED BY <1>1, <1>5, <1>6, <1>7, <2>1, CodesStep DEF IndInv
<1> QED BY <1>1, <1>4, <1>5, <1>6, <1>7, <1>8, LocksHold, CommitStep

(* A point is deleted. *)
LEMMA DropPointStep ==
  ASSUME IndInv, NEW c \in Client, DropPoint(c)
  PROVE  IndInv'
<1>1. /\ UNCHANGED <<tenants, assets, agents, sources, runtimes, sourceRevs, outbox, lost>>
      /\ points' \subseteq points
      /\ Done(c)
  BY DEF DropPoint, config
<1>2. TablesTyped'
  BY <1>1 DEF TablesTyped, IndInv, TypeOK
<1>3. OneRowPerCode'
  BY <1>1 DEF IndInv, OneRowPerCode
<1>4. NoOrphans'
  BY <1>1 DEF IndInv, NoOrphans
<1>5. RowsPersist
  BY <1>1, Persistence DEF IndInv
<1>6. CodesAgree'
  BY <1>1, <1>3, <1>4, <1>5, CodesStep DEF IndInv
<1> QED BY <1>1, <1>2, <1>3, <1>4, <1>5, <1>6, LocksHold, CommitStep

(* A runtime revision entered by hand is inserted, if its agent is there. *)
LEMMA AddRuntimeRevisionStep ==
  ASSUME IndInv, NEW c \in Client, AddRuntimeRevision(c)
  PROVE  IndInv'
<1> DEFINE do == session[c]
<1> DEFINE path == <<do.t, do.a, do.g>>
<1> DEFINE new == {[id |-> Fresh(runtimes), agent |-> q.id, path |-> path,
                    rev |-> do.rev, lists |-> {}] : q \in AgentRows(do.t, do.a, do.g)}
<1>1. /\ UNCHANGED <<tenants, assets, agents, sources, points, sourceRevs, outbox, lost>>
      /\ runtimes' = runtimes \union new
      /\ RuntimeRows(path, do.rev) = {}
      /\ Done(c)
  BY DEF AddRuntimeRevision, directory
<1>2. Fresh(runtimes) \in RowId /\ \A r \in runtimes : r.id # Fresh(runtimes)
  BY FreshIsFree DEF AddRuntimeRevision
<1>3. TablesTyped'
  <2>1. do.rev \in Revision /\ path \in AgentPath
    BY DEF AddRuntimeRevision, IndInv, AllNamed, Named, AgentPath
  <2>2. new \subseteq Runtime
    BY <1>2, <2>1 DEF IndInv, TypeOK, AgentRows, Agent, Runtime
  <2> QED BY <1>1, <2>2 DEF TablesTyped, IndInv, TypeOK
<1>4. OneRowPerCode'
  <2>1. \A r, q \in new : r = q
    BY LookupsAreUnique DEF IndInv
  <2>2. \A r \in runtimes, q \in new :
            ~(r.id = q.id \/ (r.path = q.path /\ r.rev = q.rev))
    BY <1>1, <1>2 DEF RuntimeRows
  <2> QED BY <1>1, <2>1, <2>2 DEF IndInv, OneRowPerCode
<1>5. NoOrphans'
  <2>1. \A r \in new : \E q \in agents : q.id = r.agent
    BY DEF AgentRows
  <2> QED BY <1>1, <2>1 DEF IndInv, NoOrphans
<1>6. RowsPersist
  BY <1>1, Persistence DEF IndInv
<1>7. CodesAgree'
  <2>1. \A r \in new : \E q \in AgentRows(r.path[1], r.path[2], r.path[3]) : q.id = r.agent
    OBVIOUS
  <2>2. \A t, a, g : AgentRows(t, a, g)' = AgentRows(t, a, g)
    BY <1>1 DEF AgentRows, AssetRows, TenantRows
  <2> QED BY <1>1, <1>4, <1>5, <1>6, <2>1, <2>2, CodesStep DEF IndInv
<1> QED BY <1>1, <1>3, <1>4, <1>5, <1>6, <1>7, LocksHold, CommitStep

(* A source revision entered by hand is inserted, if its runtime revision is *)
(* there.                                                                    *)
LEMMA AddSourceRevisionStep ==
  ASSUME IndInv, NEW c \in Client, AddSourceRevision(c)
  PROVE  IndInv'
<1> DEFINE do == session[c]
<1> DEFINE path == <<do.t, do.a, do.g>>
<1> DEFINE new == NewSourceRevisions(do)
<1>1. /\ UNCHANGED <<tenants, assets, agents, sources, points, runtimes, outbox, lost>>
      /\ sourceRevs' = sourceRevs \union new
      /\ ~SourceRevTaken(path, do.s, do.srev)
      /\ Done(c)
  BY DEF AddSourceRevision, directory
<1>3. \A r \in new : \E q \in SourceRows(do.t, do.a, do.g, do.s), x \in RuntimeRows(path, do.rev) :
            r = [source |-> q.id, runtime |-> x.id, path |-> path, code |-> do.s,
                 srev |-> do.srev, rev |-> do.rev]
  BY DEF NewSourceRevisions
<1> HIDE DEF new
<1>2. TablesTyped'
  <2>1. /\ do.rev \in Revision /\ do.srev \in Revision
        /\ do.s \in SourceCode /\ path \in AgentPath
    BY DEF AddSourceRevision, IndInv, AllNamed, Named, AgentPath
  <2>2. new \subseteq SourceRev
    BY <1>3, <2>1 DEF IndInv, TypeOK, SourceRows, Source, RuntimeRows, Runtime, SourceRev
  <2> QED BY <1>1, <2>2 DEF TablesTyped, IndInv, TypeOK
<1>4. OneRowPerCode'
  <2>1. \A q, r \in RuntimeRows(path, do.rev) : q = r
    BY DEF RuntimeRows, IndInv, OneRowPerCode
  <2>2. \A r, q \in new : r = q
    BY <1>3, <2>1, LookupsAreUnique DEF IndInv
  <2>3. \A r \in sourceRevs, q \in new :
            ~(r.path = q.path /\ r.code = q.code /\ r.srev = q.srev)
    BY <1>1, <1>3 DEF SourceRevTaken
  <2> QED BY <1>1, <2>2, <2>3 DEF IndInv, OneRowPerCode
<1>5. NoOrphans'
  <2>1. \A r \in new : /\ \E q \in sources : q.id = r.source
                       /\ \E q \in runtimes : q.id = r.runtime
    BY <1>3 DEF SourceRows, RuntimeRows
  <2> QED BY <1>1, <2>1 DEF IndInv, NoOrphans
<1>6. RowsPersist
  BY <1>1, Persistence DEF IndInv
<1>7. CodesAgree'
  <2>1. \A r \in new : /\ \E q \in SourceRows(r.path[1], r.path[2], r.path[3], r.code) :
                                q.id = r.source
                       /\ \E q \in RuntimeRows(r.path, r.rev) : q.id = r.runtime
    BY <1>3
  <2>2. /\ \A t, a, g, s : SourceRows(t, a, g, s)' = SourceRows(t, a, g, s)
        /\ \A p, rev : RuntimeRows(p, rev)' = RuntimeRows(p, rev)
    BY <1>1 DEF SourceRows, AgentRows, AssetRows, TenantRows, RuntimeRows
  <2> QED BY <1>1, <1>4, <1>5, <1>6, <2>1, <2>2, CodesStep DEF IndInv
<1> QED BY <1>1, <1>2, <1>4, <1>5, <1>6, <1>7, LocksHold, CommitStep

(* A session that goes on with new locks, on tables that stay as they are. *)
LEMMA GoOnStep ==
  ASSUME IndInv, NEW c \in Client, NEW call \in UseCase,
         session' = [session EXCEPT ![c] = call], UNCHANGED <<tables, lost>>,
         Named(call), Held(call), Covered(call)
  PROVE  IndInv'
<1>1. \A d \in Client : session'[d] = IF d = c THEN call ELSE session[d]
  BY DEF IndInv, TypeOK
<1>2. TypeOK'
  BY DEF IndInv, TypeOK, tables, directory, config
<1>3. AllNamed'
  <2> SUFFICES ASSUME NEW d \in Client PROVE Named(session'[d])
    BY DEF AllNamed, Named
  <2> QED BY <1>1 DEF IndInv, AllNamed
<1>4. OneRowPerCode' /\ NoOrphans'
  BY DEF IndInv, OneRowPerCode, NoOrphans, tables, directory, config
<1>5. CodesAgree'
  BY DEF IndInv, CodesAgree, AgentRows, AssetRows, TenantRows, SourceRows,
     PointRows, RuntimeRows, tables, directory, config
<1>6. HeldRows'
  <2>1. /\ \A t, a, g : AgentRows(t, a, g)' = AgentRows(t, a, g)
        /\ \A t, a, g, s : SourceRows(t, a, g, s)' = SourceRows(t, a, g, s)
        /\ \A path, rev : RuntimeRows(path, rev)' = RuntimeRows(path, rev)
    BY DEF AgentRows, AssetRows, TenantRows, SourceRows, RuntimeRows, tables,
       directory, config
  <2> SUFFICES ASSUME NEW d \in Client
               PROVE  (Held(session[d]) /\ Covered(session[d]))'
    BY DEF HeldRows
  <2>2. Held(session'[d]) /\ Covered(session'[d])
    BY <1>1 DEF IndInv, HeldRows
  <2>3. ASSUME NEW n, RecordHeld(session'[d], n)
        PROVE  RecordHeld(session[d], n)'
    BY <2>1, <2>3 DEF RecordHeld
  <2>4. Held(session[d])'
    BY <2>1, <2>2, <2>3 DEF Held
  <2> QED BY <2>2, <2>4 DEF Covered, Recorded
<1> QED BY <1>2, <1>3, <1>4, <1>5, <1>6 DEF IndInv

(* Storing begins by locking the agent, if it is there. *)
LEMMA BeginStoreStep ==
  ASSUME IndInv, NEW c \in Client, BeginStore(c)
  PROVE  IndInv'
<1> DEFINE do == session[c]
<1> DEFINE storing == [do EXCEPT !.op = "storing", !.left = do.lists]
<1>1. /\ do \in UseCase /\ Named(do) /\ Held(do) /\ do.op = "rendered"
  BY DEF BeginStore, IndInv, TypeOK, AllNamed, HeldRows
<1>2. UNCHANGED <<tables, lost>>
  BY DEF BeginStore
<1>3. storing \in UseCase
  BY <1>1 DEF UseCase, Op
<1>4. /\ storing.op = "storing" /\ storing.agent = do.agent
      /\ storing.t = do.t /\ storing.a = do.a /\ storing.g = do.g
      /\ storing.rev = do.rev /\ storing.srev = do.srev
      /\ storing.lists = do.lists /\ storing.kept = do.kept
      /\ storing.records = do.records /\ storing.left = do.lists
  BY <1>1 DEF UseCase
<1> HIDE DEF storing
<1>5. ASSUME NEW call, call.op = "storing",
             call.t = do.t, call.a = do.a, call.g = do.g,
             call.rev = do.rev, call.srev = do.srev, call.lists = do.lists,
             call.kept = do.kept, call.records = do.records, call.left = do.lists,
             call.agent # None =>
                \E q \in AgentRows(do.t, do.a, do.g) : q.id = call.agent,
             call.agent = None => do.agent = None
      PROVE  Named(call) /\ Held(call) /\ Covered(call)
  <2>1. Named(call)
    BY <1>1, <1>5 DEF Named
  <2>2. \A n : RecordHeld(do, n) => RecordHeld(call, n)
    BY <1>5 DEF RecordHeld
  <2>3. Held(call)
    BY <1>1, <1>5, <2>2 DEF Held
  <2>4. Covered(call)
    BY <1>5 DEF Covered
  <2> QED BY <2>1, <2>3, <2>4
<1>6. CASE session' = [session EXCEPT ![c] = storing]
  <2>1. Named(storing) /\ Held(storing) /\ Covered(storing)
    BY <1>1, <1>4, <1>5 DEF Held
  <2> QED BY <1>2, <1>3, <1>6, <2>1, GoOnStep
<1>7. ASSUME NEW q \in AgentRows(do.t, do.a, do.g),
             session' = [session EXCEPT ![c] = [storing EXCEPT !.agent = q.id]]
      PROVE  IndInv'
  <2> DEFINE call == [storing EXCEPT !.agent = q.id]
  <2>0. q.id \in RowId
    BY DEF AgentRows, Agent, IndInv, TypeOK
  <2>1. call \in UseCase
    BY <1>3, <2>0 DEF UseCase
  <2>2. /\ call.op = storing.op /\ call.agent = q.id
        /\ call.t = storing.t /\ call.a = storing.a /\ call.g = storing.g
        /\ call.rev = storing.rev /\ call.srev = storing.srev
        /\ call.lists = storing.lists /\ call.kept = storing.kept
        /\ call.records = storing.records /\ call.left = storing.left
    BY <1>3 DEF UseCase
  <2>3. q.id # None
    BY <2>0, NoneAssumption
  <2>4. session' = [session EXCEPT ![c] = call]
    BY <1>7
  <2> HIDE DEF call
  <2>5. Named(call) /\ Held(call) /\ Covered(call)
    BY <1>4, <1>5, <2>2, <2>3
  <2> QED BY <1>2, <2>1, <2>4, <2>5, GoOnStep
<1> QED BY <1>6, <1>7 DEF BeginStore, storing

(* Then it locks the listed sources, one by one. *)
LEMMA StoreSourceRevisionStep ==
  ASSUME IndInv, NEW c \in Client, StoreSourceRevision(c)
  PROVE  IndInv'
<1> DEFINE do == session[c]
<1>1. do \in UseCase /\ Named(do) /\ Held(do) /\ do.op = "storing"
  BY DEF StoreSourceRevision, IndInv, TypeOK, AllNamed, HeldRows
<1> DEFINE found(s) == IF OfRuntime(do) = {} THEN {} ELSE SourceRows(do.t, do.a, do.g, s)
<1> DEFINE kept(s) == [do EXCEPT !.left = @ \ {s}, !.kept = @ \union found(s)]
<1> DEFINE last(s) == [kept(s) EXCEPT !.op = "recording",
                                      !.left = do.lists \union {AgentScope}]
<1>2. PICK s \in do.left :
            session' = [session EXCEPT ![c] = IF kept(s).left # {} THEN kept(s) ELSE last(s)]
  BY DEF StoreSourceRevision
<1>3. UNCHANGED <<tables, lost>>
  BY DEF StoreSourceRevision
<1>4. /\ found(s) \subseteq Source
      /\ \A q \in found(s) : q \in SourceRows(do.t, do.a, do.g, q.code) /\ q.code = s
      /\ found(s) # {} => OfRuntime(do) # {}
  BY DEF SourceRows, IndInv, TypeOK
<1> HIDE DEF found
<1>5. kept(s) \in UseCase
  BY <1>1, <1>4 DEF UseCase
<1>6. /\ kept(s).op = do.op /\ kept(s).agent = do.agent
      /\ kept(s).t = do.t /\ kept(s).a = do.a /\ kept(s).g = do.g
      /\ kept(s).rev = do.rev /\ kept(s).srev = do.srev
      /\ kept(s).lists = do.lists /\ kept(s).kept = do.kept \union found(s)
      /\ kept(s).records = do.records /\ kept(s).left = do.left \ {s}
  BY <1>1 DEF UseCase
<1> HIDE DEF kept
<1>7. last(s) \in UseCase
  <2>1. do.lists \union {AgentScope} \in SUBSET (SourceCode \union {AgentScope})
    BY <1>1 DEF UseCase
  <2>2. "recording" \in Op
    BY DEF Op
  <2> QED BY <1>5, <2>1, <2>2 DEF UseCase
<1>8. /\ last(s).op = "recording" /\ last(s).agent = do.agent
      /\ last(s).t = do.t /\ last(s).a = do.a /\ last(s).g = do.g
      /\ last(s).rev = do.rev /\ last(s).srev = do.srev
      /\ last(s).lists = do.lists /\ last(s).kept = do.kept \union found(s)
      /\ last(s).records = do.records
      /\ last(s).left = do.lists \union {AgentScope}
  BY <1>5, <1>6 DEF UseCase
<1> HIDE DEF last
<1>9. \A q \in found(s) : q.code \in do.lists
  BY <1>1, <1>2, <1>4, NoneAssumption DEF Held, Source
<1>10. ASSUME NEW call, call.op \in {"storing", "recording"},
             call.t = do.t, call.a = do.a, call.g = do.g, call.agent = do.agent,
             call.rev = do.rev, call.srev = do.srev, call.lists = do.lists,
             call.kept = do.kept \union found(s), call.records = do.records,
             call.left \subseteq do.lists \union {AgentScope}
      PROVE  Named(call) /\ Held(call)
  <2>1. Named(call)
    BY <1>1, <1>10 DEF Named
  <2>2. \A n : RecordHeld(do, n) => RecordHeld(call, n)
    BY <1>10 DEF RecordHeld
  <2>3. call.kept # {} /\ call.agent = None =>
            RuntimeRows(<<call.t, call.a, call.g>>, call.rev) # {}
    BY <1>1, <1>4, <1>10 DEF Held, OfRuntime
  <2>4. Held(call)
    BY <1>1, <1>4, <1>9, <1>10, <2>2, <2>3 DEF Held
  <2> QED BY <2>1, <2>4
<1>11. CASE kept(s).left # {}
  <2>1. Named(kept(s)) /\ Held(kept(s)) /\ Covered(kept(s))
    <3>1. Named(kept(s)) /\ Held(kept(s))
      BY <1>1, <1>6, <1>10 DEF Held
    <3> QED BY <1>1, <1>6, <3>1 DEF Covered
  <2> QED BY <1>2, <1>3, <1>5, <1>11, <2>1, GoOnStep
<1>12. CASE kept(s).left = {}
  <2>1. Named(last(s)) /\ Held(last(s))
    BY <1>8, <1>10
  <2>2. Covered(last(s))
    BY <1>8, <2>1 DEF Covered, Recorded, Held
  <2> QED BY <1>2, <1>3, <1>7, <1>12, <2>1, <2>2, GoOnStep
<1> QED BY <1>11, <1>12

(* Then it inserts the records, of what it finds. *)
LEMMA StoreRecordStep ==
  ASSUME IndInv, NEW c \in Client, StoreRecord(c)
  PROVE  IndInv'
<1> DEFINE do == session[c]
<1>1. /\ do \in UseCase /\ Named(do) /\ Held(do) /\ Covered(do)
      /\ do.op = "recording"
  BY DEF StoreRecord, IndInv, TypeOK, AllNamed, HeldRows
<1> DEFINE call(x) == [do EXCEPT !.left = @ \ {x},
                                 !.records = @ \union NewRecords(do, x)]
<1>2. PICK x \in do.left : session' = [session EXCEPT ![c] = call(x)]
  BY DEF StoreRecord, IndInv, TypeOK
<1>3. UNCHANGED <<tables, lost>>
  BY DEF StoreRecord
<1>4. x \in do.lists \union {AgentScope}
  BY <1>1, <1>2 DEF Held
<1>5. do.rev \in Revision /\ <<do.t, do.a, do.g>> \in AgentPath
  BY <1>1 DEF Named, AgentPath
<1>6. NewRecords(do, x) \subseteq OutboxRow
  <2>1. /\ \A q \in AgentRows(do.t, do.a, do.g) : q.id \in RowId
        /\ \A q \in SourceRows(do.t, do.a, do.g, x) : q.id \in RowId /\ q.agent \in RowId
    BY DEF AgentRows, Agent, SourceRows, Source, IndInv, TypeOK
  <2>2. x \in SourceCode \union {AgentScope}
    BY <1>1 DEF UseCase
  <2> QED BY <1>5, <2>1, <2>2 DEF NewRecords, OutboxRow
<1>7. \A n \in NewRecords(do, x) : RecordHeld(do, n) /\ n.code = x
  BY <1>4 DEF NewRecords, RecordHeld
<1>8. /\ x = AgentScope => (AgentRows(do.t, do.a, do.g) # {} =>
                \E n \in NewRecords(do, x) : n.code = x)
      /\ x # AgentScope => (SourceRows(do.t, do.a, do.g, x) # {} =>
                \E n \in NewRecords(do, x) : n.code = x)
  <2>1. CASE x = AgentScope
    <3>1. ASSUME NEW q \in AgentRows(do.t, do.a, do.g)
          PROVE  [agent |-> q.id, source |-> None, path |-> <<do.t, do.a, do.g>>,
                  code |-> x, rev |-> do.rev] \in NewRecords(do, x)
      BY <2>1 DEF NewRecords
    <3> QED BY <2>1, <3>1
  <2>2. CASE x # AgentScope
    <3>1. ASSUME NEW q \in SourceRows(do.t, do.a, do.g, x)
          PROVE  [agent |-> q.agent, source |-> q.id, path |-> <<do.t, do.a, do.g>>,
                  code |-> x, rev |-> do.rev] \in NewRecords(do, x)
      BY <2>2 DEF NewRecords
    <3> QED BY <2>2, <3>1
  <2> QED BY <2>1, <2>2
<1>9. call(x) \in UseCase
  BY <1>1, <1>6 DEF UseCase
<1>10. /\ call(x).op = "recording" /\ call(x).agent = do.agent
       /\ call(x).t = do.t /\ call(x).a = do.a /\ call(x).g = do.g
       /\ call(x).rev = do.rev /\ call(x).srev = do.srev
       /\ call(x).lists = do.lists /\ call(x).kept = do.kept
       /\ call(x).left = do.left \ {x}
       /\ call(x).records = do.records \union NewRecords(do, x)
  BY <1>1 DEF UseCase
<1> HIDE DEF call
<1>11. Named(call(x))
  BY <1>1, <1>10 DEF Named
<1>12. Held(call(x))
  <2>1. \A n : RecordHeld(do, n) => RecordHeld(call(x), n)
    BY <1>10 DEF RecordHeld
  <2> QED BY <1>1, <1>7, <1>10, <2>1 DEF Held
<1>13. Covered(call(x))
  <2>1. ASSUME NEW q \in do.kept PROVE Recorded(call(x), q.code)
    <3>1. Recorded(do, q.code) /\ q \in SourceRows(do.t, do.a, do.g, q.code)
      BY <1>1 DEF Covered, Held
    <3>2. q.code # AgentScope
      BY <1>1, NoneAssumption DEF UseCase, Source
    <3> QED BY <1>8, <1>10, <3>1, <3>2 DEF Recorded
  <2>2. ASSUME do.agent # None \/ do.kept # {} PROVE Recorded(call(x), AgentScope)
    <3>1. Recorded(do, AgentScope)
      BY <1>1, <2>2 DEF Covered
    <3>2. AgentRows(do.t, do.a, do.g) # {}
      BY <1>1, <2>2 DEF Held, SourceRows
    <3> QED BY <1>8, <1>10, <3>1, <3>2 DEF Recorded
  <2> QED BY <1>10, <2>1, <2>2 DEF Covered
<1> QED BY <1>2, <1>3, <1>9, <1>11, <1>12, <1>13, GoOnStep

(* The stored revision, its source revisions and its records are committed. *)
LEMMA StoreOutboxStep ==
  ASSUME IndInv, NEW c \in Client, StoreOutbox(c)
  PROVE  IndInv'
<1> DEFINE do == session[c]
<1> DEFINE path == <<do.t, do.a, do.g>>
<1> DEFINE R == NewRuntimes(do)
<1> DEFINE S == KeptSourceRevs(do)
<1> DEFINE O == do.records
<1>1. /\ UNCHANGED <<tenants, assets, agents, sources, points>>
      /\ runtimes' = runtimes \union R
      /\ sourceRevs' = sourceRevs \union S
      /\ outbox' = outbox \union O
      /\ lost' = [lost EXCEPT ![c] = {}]
      /\ do.agent # None => RuntimeRows(path, do.rev) = {}
      /\ \A q \in do.kept : ~SourceRevTaken(path, q.code, do.srev)
      /\ \A r \in outbox, n \in O : <<r.path, r.code, r.rev>> # <<n.path, n.code, n.rev>>
      /\ Done(c)
  BY DEF StoreOutbox, directory
<1>2. Fresh(runtimes) \in RowId /\ \A r \in runtimes : r.id # Fresh(runtimes)
  BY FreshIsFree DEF StoreOutbox
<1>3. do \in UseCase /\ do.rev \in Revision /\ do.srev \in Revision /\ path \in AgentPath
  BY DEF StoreOutbox, IndInv, TypeOK, AllNamed, Named, AgentPath
<1>4. /\ do.agent # None => \E q \in AgentRows(do.t, do.a, do.g) : q.id = do.agent
      /\ \A q \in do.kept : q \in SourceRows(do.t, do.a, do.g, q.code)
      /\ \A r \in O : RecordHeld(do, r)
  BY DEF IndInv, HeldRows, Held
<1>5. \A r \in R : /\ do.agent # None
                   /\ r = [id |-> Fresh(runtimes), agent |-> do.agent, path |-> path,
                           rev |-> do.rev, lists |-> do.lists]
  BY DEF NewRuntimes
<1>6. \A i \in OfRuntime(do) :
            \E r \in runtimes \union R : r.id = i /\ r.path = path /\ r.rev = do.rev
  <2>1. CASE do.agent = None
    BY <2>1 DEF OfRuntime, RuntimeRows
  <2>2. CASE do.agent # None
    <3> DEFINE row == [id |-> Fresh(runtimes), agent |-> do.agent, path |-> path,
                       rev |-> do.rev, lists |-> do.lists]
    <3>1. row \in R /\ \A i \in OfRuntime(do) : i = Fresh(runtimes)
      BY <2>2 DEF NewRuntimes, OfRuntime
    <3>2. row.id = Fresh(runtimes) /\ row.path = path /\ row.rev = do.rev
      OBVIOUS
    <3> HIDE DEF row, R, path
    <3> QED BY <3>1, <3>2
  <2> QED BY <2>1, <2>2
<1>7. \A r \in S : \E q \in do.kept, i \in OfRuntime(do) :
            r = [source |-> q.id, runtime |-> i, path |-> path,
                 code |-> q.code, srev |-> do.srev, rev |-> do.rev]
  BY DEF KeptSourceRevs
<1>8. /\ \A i, j \in OfRuntime(do) : i = j
      /\ OfRuntime(do) \subseteq RowId
  <2>1. \A q, r \in RuntimeRows(path, do.rev) : q = r /\ q.id \in RowId
    BY DEF RuntimeRows, IndInv, TypeOK, OneRowPerCode, Runtime
  <2> QED BY <1>2, <2>1 DEF OfRuntime
<1> HIDE DEF R, S, O
<1>9. TablesTyped'
  <2>1. R \subseteq Runtime
    BY <1>2, <1>3, <1>5 DEF UseCase, Runtime
  <2>2. S \subseteq SourceRev
    <3>1. \A q \in do.kept : q.id \in RowId /\ q.code \in SourceCode
      BY <1>3 DEF UseCase, Source
    <3> QED BY <1>3, <1>7, <1>8, <3>1 DEF SourceRev
  <2>3. O \subseteq OutboxRow
    BY <1>3 DEF UseCase, O
  <2> QED BY <1>1, <2>1, <2>2, <2>3 DEF TablesTyped, IndInv, TypeOK
<1>10. OneRowPerCode'
  <2>1. \A r, q \in runtimes' :
            r.id = q.id \/ (r.path = q.path /\ r.rev = q.rev) => r = q
    <3>1. \A r \in runtimes, q \in R :
            ~(r.id = q.id \/ (r.path = q.path /\ r.rev = q.rev))
      BY <1>1, <1>2, <1>5 DEF RuntimeRows
    <3>2. \A r, q \in R : r = q
      BY <1>5
    <3> QED BY <1>1, <3>1, <3>2 DEF IndInv, OneRowPerCode
  <2>2. \A r, q \in sourceRevs' :
            r.path = q.path /\ r.code = q.code /\ r.srev = q.srev => r = q
    <3>1. \A r \in sourceRevs, q \in S :
            ~(r.path = q.path /\ r.code = q.code /\ r.srev = q.srev)
      BY <1>1, <1>7 DEF SourceRevTaken
    <3>2. \A r, q \in do.kept : r.code = q.code => r = q
      BY <1>4, LookupsAreUnique DEF IndInv
    <3>3. \A r, q \in S : r.code = q.code => r = q
      BY <1>7, <1>8, <3>2
    <3> QED BY <1>1, <3>1, <3>3 DEF IndInv, OneRowPerCode
  <2>3. \A r, q \in outbox' :
            r.path = q.path /\ r.code = q.code /\ r.rev = q.rev => r = q
    <3>2. \A r \in outbox, q \in O :
            ~(r.path = q.path /\ r.code = q.code /\ r.rev = q.rev)
      BY <1>1
    <3>3. ASSUME NEW r \in O, NEW q \in O, r.code = q.code PROVE r = q
      <4>1. r.source = q.source /\ r.agent = q.agent
        <5>1. AgentScope \notin do.lists
          BY <1>3, NoneAssumption DEF UseCase
        <5>2. RecordHeld(do, r) /\ RecordHeld(do, q)
          BY <1>4
        <5>3. CASE r.code = AgentScope
          BY <3>3, <5>1, <5>2, <5>3, LookupsAreUnique DEF RecordHeld, IndInv
        <5>4. CASE r.code # AgentScope
          BY <3>3, <5>2, <5>4, LookupsAreUnique DEF RecordHeld, IndInv
        <5> QED BY <5>3, <5>4
      <4>2. r.path = q.path /\ r.rev = q.rev
        BY <1>4 DEF RecordHeld
      <4>3. r \in OutboxRow /\ q \in OutboxRow
        BY <1>3 DEF UseCase, O
      <4> QED BY <3>3, <4>1, <4>2, <4>3 DEF OutboxRow
    <3> QED BY <1>1, <3>2, <3>3 DEF IndInv, OneRowPerCode
  <2> QED BY <1>1, <2>1, <2>2, <2>3 DEF IndInv, OneRowPerCode
<1>11. NoOrphans'
  <2>1. \A r \in R \union O : \E q \in agents : q.id = r.agent
    BY <1>4, <1>5 DEF AgentRows, RecordHeld, SourceRows
  <2>2. \A r \in S : /\ \E q \in sources : q.id = r.source
                     /\ \E q \in runtimes' : q.id = r.runtime
    BY <1>1, <1>4, <1>6, <1>7 DEF SourceRows
  <2>3. \A r \in O : r.source # None => \E q \in sources : q.id = r.source
    BY <1>4 DEF SourceRows, RecordHeld
  <2> QED BY <1>1, <2>1, <2>2, <2>3 DEF IndInv, NoOrphans
<1>12. RowsPersist
  BY <1>1, Persistence DEF IndInv
<1>13. CodesAgree'
  <2>1. /\ \A t, a, g : AgentRows(t, a, g)' = AgentRows(t, a, g)
        /\ \A t, a, g, s : SourceRows(t, a, g, s)' = SourceRows(t, a, g, s)
    BY <1>1 DEF SourceRows, AgentRows, AssetRows, TenantRows
  <2>2. \A r \in R \union O :
            \E q \in AgentRows(r.path[1], r.path[2], r.path[3]) : q.id = r.agent
    <3>1. \A r \in R : r.agent = do.agent /\ do.agent # None /\ r.path = path
      BY <1>5
    <3>2. \A r \in O : \E q \in AgentRows(do.t, do.a, do.g) : q.id = r.agent
      BY <1>4 DEF RecordHeld, SourceRows
    <3>3. \A r \in O : r.path = path
      BY <1>4 DEF RecordHeld
    <3> QED BY <1>4, <3>1, <3>2, <3>3
  <2>3. ASSUME NEW r \in S
        PROVE  /\ \E q \in SourceRows(r.path[1], r.path[2], r.path[3], r.code) :
                        q.id = r.source
               /\ (\E q \in RuntimeRows(r.path, r.rev) : q.id = r.runtime)'
    <3>1. PICK q \in do.kept, i \in OfRuntime(do) :
                r = [source |-> q.id, runtime |-> i, path |-> path,
                     code |-> q.code, srev |-> do.srev, rev |-> do.rev]
      BY <1>7
    <3>2. q \in SourceRows(do.t, do.a, do.g, q.code)
      BY <1>4
    <3>3. \E x \in runtimes' : x.id = i /\ x.path = path /\ x.rev = do.rev
      BY <1>1, <1>6
    <3> QED BY <3>1, <3>2, <3>3 DEF RuntimeRows
  <2>4. \A r \in O : r.source # None =>
            \E q \in SourceRows(r.path[1], r.path[2], r.path[3], r.code) : q.id = r.source
    BY <1>4 DEF RecordHeld
  <2> QED BY <1>1, <1>10, <1>11, <1>12, <2>1, <2>2, <2>3, <2>4, CodesStep DEF IndInv
<1> QED BY <1>1, <1>9, <1>10, <1>11, <1>12, <1>13, LocksHold, CommitStep

(* The whole graph of an agent is deleted. *)
LEMMA DeleteGraphStep ==
  ASSUME IndInv, NEW c \in Client, DeleteGraph(c)
  PROVE  IndInv'
<1> DEFINE do == session[c]
<1> DEFINE path == <<do.t, do.a, do.g>>
<1> DEFINE gone == IF "agent" \in do.had THEN AgentRows(do.t, do.a, do.g) ELSE {}
<1> DEFINE goneSources == {r \in sources : \E q \in gone : r.agent = q.id}
<1>1. /\ \A q \in gone : q.id \notin LockedAgents
      /\ \A q \in goneSources : q.id \notin LockedSources
      /\ outbox' = {r \in outbox : r.path # path}
      /\ points' = {r \in points : \A q \in goneSources : r.source # q.id}
      /\ \A q \in goneSources, r \in sourceRevs' \union outbox' : r.source # q.id
      /\ sources' = sources \ goneSources
      /\ \A q \in gone, r \in runtimes' \union outbox' : r.agent # q.id
      /\ agents' = agents \ gone
      /\ Lose(path, {q.code : q \in goneSources})
      /\ Done(c)
  BY DEF DeleteGraph
<1>0. \/ /\ runtimes' = {r \in runtimes : r.path # path}
         /\ gone = AgentRows(do.t, do.a, do.g)
      \/ runtimes' = runtimes
  BY DEF DeleteGraph
<1>2. \/ /\ sourceRevs' = {r \in sourceRevs : r.path # path}
         /\ runtimes' = {r \in runtimes : r.path # path}
      \/ sourceRevs' = sourceRevs /\ runtimes' = runtimes
  BY DEF DeleteGraph
<1>3. /\ assets' \subseteq assets
      /\ \A q \in assets \ assets', r \in agents' : r.asset # q.id
  BY DEF DeleteGraph
<1>4. /\ tenants' \subseteq tenants
      /\ \A q \in tenants \ tenants', r \in assets' : r.tenant # q.id
  BY DEF DeleteGraph
<1>5. {q.code : q \in goneSources} \subseteq SourceCode
  BY DEF IndInv, TypeOK, Source
<1>6. \A r \in sources \ goneSources, q \in gone : r.agent # q.id
  OBVIOUS
<1> HIDE DEF gone
<1>7. TablesTyped'
  BY <1>1, <1>2, <1>3, <1>4, <1>5, LoseTyped DEF TablesTyped, IndInv, TypeOK
<1> HIDE DEF goneSources
<1>8. OneRowPerCode'
  BY <1>1, <1>2, <1>3, <1>4 DEF IndInv, OneRowPerCode
<1>9. RowsPersist
  BY <1>1, <1>2, <1>3, <1>4, Persistence DEF IndInv
<1>10. OwnersExist'
  <2>1. \A r \in assets' : \E q \in tenants' : q.id = r.tenant
    BY <1>3, <1>4 DEF IndInv, NoOrphans
  <2>2. \A r \in agents' : \E q \in assets' : q.id = r.asset
    BY <1>1, <1>3 DEF IndInv, NoOrphans
  <2>3. \A r \in sources' : \E q \in agents' : q.id = r.agent
    BY <1>1, <1>6 DEF IndInv, NoOrphans
  <2> QED BY <2>1, <2>2, <2>3 DEF OwnersExist
<1>11. NoOrphans'
  <2>1. \A r \in points' : \E q \in sources' : q.id = r.source
    BY <1>1 DEF IndInv, NoOrphans
  <2>2. \A r \in points' : \E z \in tenants' : z.id = r.tenant
    BY <1>1, <1>9, <1>10, <2>1, PointsPersist DEF IndInv
  <2>3. \A r \in runtimes' \union outbox' : \E q \in agents' : q.id = r.agent
    BY <1>1, <1>2 DEF IndInv, NoOrphans
  <2>4. \A r \in sourceRevs' : \E q \in sources' : q.id = r.source
    BY <1>1, <1>2 DEF IndInv, NoOrphans
  <2>5. \A r \in sourceRevs' : \E q \in runtimes' : q.id = r.runtime
    <3> SUFFICES ASSUME NEW r \in sourceRevs'
                 PROVE  \E q \in runtimes' : q.id = r.runtime
      OBVIOUS
    <3>1. PICK q \in RuntimeRows(r.path, r.rev) : q.id = r.runtime
      BY <1>2 DEF IndInv, CodesAgree
    <3>2. q \in runtimes /\ q.path = r.path
      BY DEF RuntimeRows
    <3> QED BY <1>2, <3>1, <3>2
  <2>6. \A r \in outbox' : r.source # None => \E q \in sources' : q.id = r.source
    BY <1>1 DEF IndInv, NoOrphans
  <2> QED BY <1>10, <2>1, <2>2, <2>3, <2>4, <2>5, <2>6 DEF NoOrphans, OwnersExist
<1>12. CodesAgree'
  <2>1. /\ runtimes' \subseteq runtimes /\ outbox' \subseteq outbox
        /\ sourceRevs' \subseteq sourceRevs /\ points' \subseteq points
    BY <1>1, <1>2
  <2> QED BY <1>8, <1>9, <1>11, <2>1, CodesStep DEF IndInv
<1>13. LocksKept
  <2>1. ASSUME NEW r \in runtimes, r.agent \in LockedAgents PROVE r \in runtimes'
    <3>1. PICK q \in AgentRows(r.path[1], r.path[2], r.path[3]) : q.id = r.agent
      BY DEF IndInv, CodesAgree
    <3>2. r.path = path => q \in AgentRows(do.t, do.a, do.g)
      BY <3>1
    <3> QED BY <1>0, <1>1, <2>1, <3>1, <3>2
  <2> QED BY <1>1, <2>1 DEF LocksKept
<1> QED BY <1>1, <1>7, <1>8, <1>9, <1>11, <1>12, <1>13, CommitStep

-----------------------------------------------------------------------------
(* Theorems.                                                               *)

(* The inductive invariant holds of every state. *)
THEOREM Invariance == Spec => []IndInv
<1>1. Init => IndInv
  <2> SUFFICES ASSUME Init PROVE IndInv
    OBVIOUS
  <2>1. Idle \in UseCase /\ Named(Idle)
    <3>1. Idle \in UseCase
      BY DEF Idle, UseCase, Op
    <3>2. Named(Idle)
      BY DEF Idle, Named
    <3> QED BY <3>1, <3>2
  <2>2. TypeOK /\ AllNamed
    BY <2>1 DEF Init, TypeOK, AllNamed
  <2>3. OneRowPerCode /\ NoOrphans /\ CodesAgree
    BY DEF Init, OneRowPerCode, NoOrphans, CodesAgree
  <2>4. HeldRows
    BY DEF Init, HeldRows, Held, Covered, Idle
  <2> QED BY <2>2, <2>3, <2>4 DEF IndInv
<1>2. IndInv /\ [Next]_vars => IndInv'
  <2> SUFFICES ASSUME IndInv, [Next]_vars PROVE IndInv'
    OBVIOUS
  <2>1. ASSUME NEW c \in Client, Call(c)
        PROVE  IndInv'
    BY <2>1, CallStep
  <2>2. ASSUME NEW c \in Client, Commit(c)
        PROVE  IndInv'
    BY <2>2, AddTenantStep, DropTenantStep, AddAssetStep, DropAssetStep,
       AddAgentStep, DropAgentStep, AddSourceStep, DropSourceStep,
       AddPointStep, SetPointStep, DropPointStep, AddRuntimeRevisionStep,
       AddSourceRevisionStep, BeginStoreStep, StoreSourceRevisionStep,
       StoreRecordStep, StoreOutboxStep, DeleteGraphStep, AbortStep DEF Commit
  <2>3. CASE UNCHANGED vars
    <3>1. TypeOK' /\ OneRowPerCode' /\ NoOrphans'
      BY <2>3 DEF vars, tables, directory, config, IndInv, TypeOK, OneRowPerCode, NoOrphans
    <3>2. AllNamed'
      BY <2>3 DEF vars, IndInv, AllNamed, Named
    <3>3. CodesAgree'
      BY <2>3 DEF vars, tables, directory, config, IndInv, CodesAgree,
         AgentRows, AssetRows, TenantRows, SourceRows, PointRows, RuntimeRows
    <3>4. HeldRows'
      <4>1. RowsPersist /\ OwnersExist' /\ Unlocks /\ LocksKept
        BY <2>3 DEF vars, tables, directory, config, IndInv, RowsPersist, NoOrphans,
           OwnersExist, Unlocks, LocksKept
      <4> QED BY <4>1, HeldStep DEF IndInv
    <3> QED BY <3>1, <3>2, <3>3, <3>4 DEF IndInv
  <2> QED BY <2>1, <2>2, <2>3 DEF Next
<1> QED BY <1>1, <1>2, PTL DEF Spec

(* Rows and units of work have their types. *)
THEOREM TypeCorrect == Spec => []TypeOK
<1>1. IndInv => TypeOK
  BY DEF IndInv
<1> QED BY <1>1, Invariance, PTL

(* Codes, keys, revisions and row ids are unique, however clients interleave. *)
THEOREM CodesAreUnique == Spec => []OneRowPerCode
<1>1. IndInv => OneRowPerCode
  BY DEF IndInv
<1> QED BY <1>1, Invariance, PTL

(* Nothing refers to a row that is gone. *)
THEOREM ReferencesHold == Spec => []NoOrphans
<1>1. IndInv => NoOrphans
  BY DEF IndInv
<1> QED BY <1>1, Invariance, PTL

(* The codes a row repeats are those of the rows it refers to. *)
THEOREM RepeatedCodesAreTrue == Spec => []CodesAgree
<1>1. IndInv => CodesAgree
  BY DEF IndInv
<1> QED BY <1>1, Invariance, PTL

=============================================================================
