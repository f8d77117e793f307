------------------------ MODULE ConfigStoringProofs ------------------------
(***************************************************************************)
(* For any number of clients, codes, revisions and rows: a rendered config *)
(* is stored whole, but for what was deleted since it was rendered.        *)
(***************************************************************************)
EXTENDS ConfigRegistryProofs

Storing == {"rendered", "storing", "recording"}

(* What a render has listed and nobody has deleted is still there; the       *)
(* transaction that stores it has found the agent, then the source.          *)
Follows(do, gone) ==
    do.op \in Storing => \A s \in do.lists \ gone :
        /\ SourceRows(do.t, do.a, do.g, s) # {}
        /\ do.op # "rendered" => do.agent # None
        /\ do.op = "storing" => s \in do.left \/ \E q \in do.kept : q.code = s
        /\ do.op = "recording" => \E q \in do.kept : q.code = s

RendersFollow == \A d \in Client : Follows(session[d], lost[d])

-----------------------------------------------------------------------------
(* A source row is found under one path and one code. *)
LEMMA PathIsUnique ==
  ASSUME OneRowPerCode, NEW t, NEW a, NEW g, NEW s, NEW q \in SourceRows(t, a, g, s),
         NEW t2, NEW a2, NEW g2, NEW s2, q \in SourceRows(t2, a2, g2, s2)
  PROVE  t = t2 /\ a = a2 /\ g = g2 /\ s = s2
<1>1. PICK x1 \in agents, y1 \in assets, z1 \in tenants :
            /\ q.code = s /\ q.agent = x1.id /\ x1.code = g /\ x1.asset = y1.id
            /\ y1.code = a /\ y1.tenant = z1.id /\ z1.code = t
  BY DEF SourceRows, AgentRows, AssetRows, TenantRows
<1>2. PICK x2 \in agents, y2 \in assets, z2 \in tenants :
            /\ q.code = s2 /\ q.agent = x2.id /\ x2.code = g2 /\ x2.asset = y2.id
            /\ y2.code = a2 /\ y2.tenant = z2.id /\ z2.code = t2
  BY DEF SourceRows, AgentRows, AssetRows, TenantRows
<1>3. x1 = x2
  BY <1>1, <1>2, AgentIds
<1>4. y1 = y2
  BY <1>1, <1>2, <1>3, AssetIds
<1>5. z1 = z2
  BY <1>1, <1>2, <1>4, TenantIds
<1> QED BY <1>1, <1>2, <1>3, <1>4, <1>5

(* Sources that go are lost to those who have rendered them. *)
Mourned ==
    \A d \in Client, s \in SourceCode :
        session[d].op \in Storing =>
            \A q \in SourceRows(session[d].t, session[d].a, session[d].g, s) :
                q \in sources' \/ s \in lost'[d]

(* A session that the step leaves alone still finds its sources. *)
LEMMA OthersFollow ==
  ASSUME IndInv, RendersFollow, RowsPersist, OwnersExist', Mourned,
         NEW d \in Client, session'[d] = session[d], lost[d] \subseteq lost'[d]
  PROVE  Follows(session[d], lost[d])'
<1> DEFINE do == session[d]
<1> SUFFICES ASSUME do.op \in Storing, NEW s \in do.lists \ lost'[d]
             PROVE  /\ SourceRows(do.t, do.a, do.g, s)' # {}
                    /\ do.op # "rendered" => do.agent # None
                    /\ do.op = "storing" =>
                            s \in do.left \/ \E q \in do.kept : q.code = s
                    /\ do.op = "recording" => \E q \in do.kept : q.code = s
  BY DEF Follows
<1>1. /\ SourceRows(do.t, do.a, do.g, s) # {}
      /\ do.op # "rendered" => do.agent # None
      /\ do.op = "storing" => s \in do.left \/ \E q \in do.kept : q.code = s
      /\ do.op = "recording" => \E q \in do.kept : q.code = s
  BY DEF RendersFollow, Follows
<1>2. s \in SourceCode
  BY DEF IndInv, TypeOK, UseCase
<1>3. PICK q \in SourceRows(do.t, do.a, do.g, s) : q \in sources'
  BY <1>1, <1>2 DEF Mourned
<1>4. q \in SourceRows(do.t, do.a, do.g, s)'
  BY <1>3, LookupsPersist
<1> QED BY <1>1, <1>4

(* A unit of work ends, and no source is deleted unnoticed. *)
LEMMA EndStep ==
  ASSUME IndInv, RendersFollow, RowsPersist, OwnersExist', Mourned,
         NEW c \in Client, Done(c),
         \A d \in Client \ {c} : lost[d] \subseteq lost'[d]
  PROVE  RendersFollow'
<1> SUFFICES ASSUME NEW d \in Client PROVE Follows(session[d], lost[d])'
  BY DEF RendersFollow
<1>1. CASE d = c
  <2>1. session'[d].op = "none"
    BY <1>1 DEF Done, IndInv, TypeOK, Idle
  <2> QED BY <2>1 DEF Follows, Storing
<1>2. CASE d # c
  <2>1. session'[d] = session[d]
    BY <1>2 DEF Done, IndInv, TypeOK
  <2> QED BY <1>2, <2>1, OthersFollow
<1> QED BY <1>1, <1>2

(* Most writes delete no source and take no note. *)
LEMMA QuietStep ==
  ASSUME IndInv, OwnersExist', RendersFollow, NEW c \in Client, Done(c), lost' = lost,
         tenants' \subseteq tenants \/ tenants \subseteq tenants',
         assets' \subseteq assets \/ assets \subseteq assets',
         agents' \subseteq agents \/ agents \subseteq agents',
         sources \subseteq sources',
         runtimes \subseteq runtimes'
  PROVE  RendersFollow'
<1>1. RowsPersist
  BY Persistence DEF IndInv
<1>2. Mourned
  BY DEF Mourned, SourceRows
<1> QED BY <1>1, <1>2, EndStep

-----------------------------------------------------------------------------
(* The steps.                                                              *)

(* Nothing is deleted and nobody else moves on. *)
LEMMA AloneStep ==
  ASSUME IndInv, RendersFollow, NEW c \in Client, UNCHANGED <<tables, lost>>,
         \A d \in Client \ {c} : session'[d] = session[d],
         Follows(session[c], lost[c])'
  PROVE  RendersFollow'
<1>1. /\ UNCHANGED <<tenants, assets, agents, sources, points, runtimes>>
      /\ lost' = lost
  BY DEF tables, directory, config
<1>2. RowsPersist /\ OwnersExist'
  BY <1>1 DEF IndInv, RowsPersist, NoOrphans, OwnersExist
<1>3. Mourned
  BY <1>1 DEF Mourned, SourceRows
<1> QED BY <1>1, <1>2, <1>3, OthersFollow DEF RendersFollow

(* A unit of work begins: a render lists what is there. *)
LEMMA BeginsFollow ==
  ASSUME IndInv, RendersFollow, NEW c \in Client, NEW call, Begin(c, call),
         call.op \in Storing =>
            /\ call.op = "rendered"
            /\ \A s \in call.lists : SourceRows(call.t, call.a, call.g, s) # {}
  PROVE  RendersFollow'
<1>1. /\ UNCHANGED <<tables, lost>>
      /\ \A d \in Client : session'[d] = IF d = c THEN call ELSE session[d]
  BY DEF Begin, IndInv, TypeOK
<1>2. \A t, a, g, s : SourceRows(t, a, g, s)' = SourceRows(t, a, g, s)
  BY <1>1 DEF tables, directory, SourceRows, AgentRows, AssetRows, TenantRows
<1>3. Follows(session[c], lost[c])'
  <2> SUFFICES ASSUME call.op \in Storing, NEW s \in call.lists
               PROVE  SourceRows(call.t, call.a, call.g, s)' # {} /\ call.op = "rendered"
    BY <1>1 DEF Follows
  <2> QED BY <1>2
<1> QED BY <1>1, <1>3, AloneStep

(* Calls that render nothing. *)
LEMMA OtherCalls ==
  ASSUME IndInv, RendersFollow, NEW c \in Client, NEW call, Begin(c, call),
         call.op \notin Storing
  PROVE  RendersFollow'
BY BeginsFollow

(* What a client may call. *)
LEMMA CallsFollow ==
  ASSUME IndInv, RendersFollow, NEW c \in Client, Call(c)
  PROVE  RendersFollow'
<1>1. ASSUME NEW t \in TenantCode, TenantCalls(c, t)
      PROVE  RendersFollow'
  <2>1. ASSUME BeginCreateTenant(c, t)
        PROVE  RendersFollow'
    <3> DEFINE call == [Idle EXCEPT !.op = "create tenant", !.t = t]
    <3>1. Begin(c, call)
      BY <2>1 DEF BeginCreateTenant
    <3>2. call.op \notin Storing
      BY DEF Storing, Idle
    <3> HIDE DEF call
    <3> QED BY <3>1, <3>2, OtherCalls
  <2>2. ASSUME BeginDeleteTenant(c, t)
        PROVE  RendersFollow'
    <3> DEFINE call == [Idle EXCEPT !.op = "delete tenant", !.t = t]
    <3>1. Begin(c, call)
      BY <2>2 DEF BeginDeleteTenant
    <3>2. call.op \notin Storing
      BY DEF Storing, Idle
    <3> HIDE DEF call
    <3> QED BY <3>1, <3>2, OtherCalls
  <2> QED BY <1>1, <2>1, <2>2 DEF TenantCalls
<1>2. ASSUME NEW t \in TenantCode, NEW p \in PointCode, PointCalls(c, t, p)
      PROVE  RendersFollow'
  <2>1. ASSUME BeginDeletePoint(c, t, p)
        PROVE  RendersFollow'
    <3> DEFINE call == [Idle EXCEPT !.op = "delete point", !.t = t, !.p = p]
    <3>1. Begin(c, call)
      BY <2>1 DEF BeginDeletePoint
    <3>2. call.op \notin Storing
      BY DEF Storing, Idle
    <3> HIDE DEF call
    <3> QED BY <3>1, <3>2, OtherCalls
  <2>2. ASSUME NEW key \in PointKey, BeginUpdatePoint(c, t, p, key)
        PROVE  RendersFollow'
    <3> DEFINE call == [Idle EXCEPT !.op = "update point", !.t = t, !.p = p, !.key = key]
    <3>1. Begin(c, call)
      BY <2>2 DEF BeginUpdatePoint
    <3>2. call.op \notin Storing
      BY DEF Storing, Idle
    <3> HIDE DEF call
    <3> QED BY <3>1, <3>2, OtherCalls
  <2>3. ASSUME NEW key \in PointKey, NEW a \in AssetCode, NEW g \in AgentCode,
             NEW s \in SourceCode, BeginCreatePoint(c, t, a, g, s, p, key)
        PROVE  RendersFollow'
    <3> DEFINE call == [Idle EXCEPT !.op = "create point", !.t = t, !.a = a, !.g = g,
                                    !.s = s, !.p = p, !.key = key]
    <3>1. Begin(c, call)
      BY <2>3 DEF BeginCreatePoint
    <3>2. call.op \notin Storing
      BY DEF Storing, Idle
    <3> HIDE DEF call
    <3> QED BY <3>1, <3>2, OtherCalls
  <2> QED BY <1>2, <2>1, <2>2, <2>3 DEF PointCalls
<1>3. ASSUME NEW t \in TenantCode, NEW a \in AssetCode, AssetCalls(c, t, a)
      PROVE  RendersFollow'
  <2>1. ASSUME BeginCreateAsset(c, t, a)
        PROVE  RendersFollow'
    <3> DEFINE call == [Idle EXCEPT !.op = "create asset", !.t = t, !.a = a]
    <3>1. Begin(c, call)
      BY <2>1 DEF BeginCreateAsset
    <3>2. call.op \notin Storing
      BY DEF Storing, Idle
    <3> HIDE DEF call
    <3> QED BY <3>1, <3>2, OtherCalls
  <2>2. ASSUME BeginDeleteAsset(c, t, a)
        PROVE  RendersFollow'
    <3> DEFINE call == [Idle EXCEPT !.op = "delete asset", !.t = t, !.a = a]
    <3>1. Begin(c, call)
      BY <2>2 DEF BeginDeleteAsset
    <3>2. call.op \notin Storing
      BY DEF Storing, Idle
    <3> HIDE DEF call
    <3> QED BY <3>1, <3>2, OtherCalls
  <2> QED BY <1>3, <2>1, <2>2 DEF AssetCalls
<1>4. ASSUME NEW t \in TenantCode, NEW a \in AssetCode, NEW g \in AgentCode,
             AgentCalls(c, t, a, g)
      PROVE  RendersFollow'
  <2>1. ASSUME BeginCreateAgent(c, t, a, g)
        PROVE  RendersFollow'
    <3> DEFINE call == [Idle EXCEPT !.op = "create agent", !.t = t, !.a = a, !.g = g]
    <3>1. Begin(c, call)
      BY <2>1 DEF BeginCreateAgent
    <3>2. call.op \notin Storing
      BY DEF Storing, Idle
    <3> HIDE DEF call
    <3> QED BY <3>1, <3>2, OtherCalls
  <2>2. ASSUME BeginDeleteAgent(c, t, a, g)
        PROVE  RendersFollow'
    <3> DEFINE call == [Idle EXCEPT !.op = "delete agent", !.t = t, !.a = a, !.g = g]
    <3>1. Begin(c, call)
      BY <2>2 DEF BeginDeleteAgent
    <3>2. call.op \notin Storing
      BY DEF Storing, Idle
    <3> HIDE DEF call
    <3> QED BY <3>1, <3>2, OtherCalls
  <2> QED BY <1>4, <2>1, <2>2 DEF AgentCalls
<1>5. ASSUME NEW t \in TenantCode, NEW a \in AssetCode, NEW g \in AgentCode,
             RevisionCalls(c, t, a, g)
      PROVE  RendersFollow'
  <2>1. ASSUME NEW rev \in Revision, BeginRuntimeRevision(c, t, a, g, rev)
        PROVE  RendersFollow'
    <3> DEFINE call == [Idle EXCEPT !.op = "runtime revision", !.t = t,
                                    !.a = a, !.g = g, !.rev = rev]
    <3>1. Begin(c, call)
      BY <2>1 DEF BeginRuntimeRevision
    <3>2. call.op \notin Storing
      BY DEF Storing, Idle
    <3> HIDE DEF call
    <3> QED BY <3>1, <3>2, OtherCalls
  <2>2. ASSUME NEW rev \in Revision, NEW s \in SourceCode, NEW srev \in Revision,
             BeginSourceRevision(c, t, a, g, s, srev, rev)
        PROVE  RendersFollow'
    <3> DEFINE call == [Idle EXCEPT !.op = "source revision", !.t = t, !.a = a, !.g = g,
                                    !.s = s, !.srev = srev, !.rev = rev]
    <3>1. Begin(c, call)
      BY <2>2 DEF BeginSourceRevision
    <3>2. call.op \notin Storing
      BY DEF Storing, Idle
    <3> HIDE DEF call
    <3> QED BY <3>1, <3>2, OtherCalls
  <2> QED BY <1>5, <2>1, <2>2 DEF RevisionCalls
<1>6. ASSUME NEW t \in TenantCode, NEW a \in AssetCode, NEW g \in AgentCode,
             NEW s \in SourceCode, SourceCalls(c, t, a, g, s)
      PROVE  RendersFollow'
  <2>1. ASSUME BeginCreateSource(c, t, a, g, s)
        PROVE  RendersFollow'
    <3> DEFINE call == [Idle EXCEPT !.op = "create source", !.t = t, !.a = a, !.g = g, !.s = s]
    <3>1. Begin(c, call)
      BY <2>1 DEF BeginCreateSource
    <3>2. call.op \notin Storing
      BY DEF Storing, Idle
    <3> HIDE DEF call
    <3> QED BY <3>1, <3>2, OtherCalls
  <2>2. ASSUME BeginDeleteSource(c, t, a, g, s)
        PROVE  RendersFollow'
    <3> DEFINE call == [Idle EXCEPT !.op = "delete source", !.t = t, !.a = a, !.g = g, !.s = s]
    <3>1. Begin(c, call)
      BY <2>2 DEF BeginDeleteSource
    <3>2. call.op \notin Storing
      BY DEF Storing, Idle
    <3> HIDE DEF call
    <3> QED BY <3>1, <3>2, OtherCalls
  <2> QED BY <1>6, <2>1, <2>2 DEF SourceCalls
<1>7. ASSUME NEW t \in TenantCode, NEW a \in AssetCode, NEW g \in AgentCode,
             NEW with \in SUBSET {"asset", "tenant"}, BeginDeleteGraph(c, t, a, g, with)
      PROVE  RendersFollow'
  <2>1. PICK found : Begin(c, [Idle EXCEPT !.op = "delete graph", !.t = t, !.a = a, !.g = g,
                                           !.with = with, !.had = found])
    BY <1>7 DEF BeginDeleteGraph
  <2> DEFINE call == [Idle EXCEPT !.op = "delete graph", !.t = t, !.a = a, !.g = g,
                                  !.with = with, !.had = found]
  <2>2. call.op \notin Storing
    BY DEF Storing, Idle
  <2>3. Begin(c, call)
    BY <2>1
  <2> HIDE DEF call
  <2> QED BY <2>2, <2>3, OtherCalls
<1>8. ASSUME NEW t \in TenantCode, NEW a \in AssetCode, NEW g \in AgentCode,
             NEW rev \in Revision, NEW srev \in Revision, Render(c, t, a, g, rev, srev)
      PROVE  RendersFollow'
  <2> DEFINE listed == {s \in SourceCode : SourceRows(t, a, g, s) # {}}
  <2> DEFINE call == [Idle EXCEPT !.op = "rendered", !.t = t, !.a = a, !.g = g,
                                  !.rev = rev, !.srev = srev, !.lists = listed]
  <2>1. Begin(c, call)
    BY <1>8 DEF Render
  <2>2. /\ call.op = "rendered" /\ call.t = t /\ call.a = a /\ call.g = g
        /\ call.lists = listed
    BY DEF Idle
  <2> HIDE DEF call
  <2> QED BY <2>1, <2>2, BeginsFollow
<1> QED BY <1>1, <1>2, <1>3, <1>4, <1>5, <1>6, <1>7, <1>8 DEF Call, GraphCalls

(* The insert of the revision finds the agent, if a listed source is left. *)
LEMMA BeginStoreFollows ==
  ASSUME IndInv, RendersFollow, NEW c \in Client, BeginStore(c)
  PROVE  RendersFollow'
<1> DEFINE do == session[c]
<1>1. /\ do.op = "rendered"
      /\ UNCHANGED <<tables, lost>>
      /\ \A d \in Client \ {c} : session'[d] = session[d]
  BY DEF BeginStore, IndInv, TypeOK
<1>2. /\ session'[c].op = "storing" /\ session'[c].lists = do.lists
      /\ session'[c].left = do.lists
      /\ session'[c].t = do.t /\ session'[c].a = do.a /\ session'[c].g = do.g
      /\ AgentRows(do.t, do.a, do.g) # {} =>
            \E q \in AgentRows(do.t, do.a, do.g) : session'[c].agent = q.id
  <2> DEFINE storing == [do EXCEPT !.op = "storing", !.left = do.lists]
  <2>1. do \in UseCase /\ session \in [Client -> UseCase]
    BY DEF IndInv, TypeOK
  <2>2. /\ storing.op = "storing" /\ storing.left = do.lists
        /\ storing.lists = do.lists
        /\ storing.t = do.t /\ storing.a = do.a /\ storing.g = do.g
        /\ \A x : /\ [storing EXCEPT !.agent = x].agent = x
                 /\ [storing EXCEPT !.agent = x].op = "storing"
                 /\ [storing EXCEPT !.agent = x].left = do.lists
                 /\ [storing EXCEPT !.agent = x].lists = do.lists
                 /\ [storing EXCEPT !.agent = x].t = do.t
                 /\ [storing EXCEPT !.agent = x].a = do.a
                 /\ [storing EXCEPT !.agent = x].g = do.g
    BY <2>1 DEF UseCase
  <2>3. \/ /\ AgentRows(do.t, do.a, do.g) = {}
           /\ session' = [session EXCEPT ![c] = storing]
        \/ \E q \in AgentRows(do.t, do.a, do.g) :
                session' = [session EXCEPT ![c] = [storing EXCEPT !.agent = q.id]]
    BY DEF BeginStore
  <2>4. \/ /\ AgentRows(do.t, do.a, do.g) = {}
           /\ session'[c] = storing
        \/ \E q \in AgentRows(do.t, do.a, do.g) :
                session'[c] = [storing EXCEPT !.agent = q.id]
    BY <2>1, <2>3
  <2> HIDE DEF storing
  <2>5. CASE AgentRows(do.t, do.a, do.g) = {} /\ session'[c] = storing
    BY <2>2, <2>5
  <2>6. CASE \E q \in AgentRows(do.t, do.a, do.g) :
                session'[c] = [storing EXCEPT !.agent = q.id]
    <3>1. PICK q \in AgentRows(do.t, do.a, do.g) :
                session'[c] = [storing EXCEPT !.agent = q.id]
      BY <2>6
    <3>2. /\ session'[c].agent = q.id /\ session'[c].op = "storing"
          /\ session'[c].left = do.lists /\ session'[c].lists = do.lists
          /\ session'[c].t = do.t /\ session'[c].a = do.a /\ session'[c].g = do.g
      BY <2>2, <3>1
    <3> QED BY <3>2
  <2> QED BY <2>4, <2>5, <2>6
<1>3. ASSUME NEW s \in do.lists \ lost[c]
      PROVE  SourceRows(do.t, do.a, do.g, s) # {} /\ session'[c].agent # None
  <2>1. SourceRows(do.t, do.a, do.g, s) # {}
    BY <1>1 DEF RendersFollow, Follows, Storing
  <2>2. \E q \in AgentRows(do.t, do.a, do.g) : session'[c].agent = q.id
    BY <1>2, <2>1 DEF SourceRows
  <2>3. \A q \in AgentRows(do.t, do.a, do.g) : q.id # None
    BY NoneAssumption DEF AgentRows, IndInv, TypeOK, Agent
  <2> QED BY <2>1, <2>2, <2>3
<1>4. \A t, a, g, s : SourceRows(t, a, g, s)' = SourceRows(t, a, g, s)
  BY <1>1 DEF tables, directory, SourceRows, AgentRows, AssetRows, TenantRows
<1>5. Follows(session[c], lost[c])'
  BY <1>1, <1>2, <1>3, <1>4 DEF Follows
<1> QED BY <1>1, <1>5, AloneStep

(* The source revisions keep every listed source that is left. *)
LEMMA StoreSourceFollows ==
  ASSUME IndInv, RendersFollow, NEW c \in Client, StoreSourceRevision(c)
  PROVE  RendersFollow'
<1> DEFINE do == session[c]
<1>1. /\ do.op = "storing"
      /\ UNCHANGED <<tables, lost>>
      /\ \A d \in Client \ {c} : session'[d] = session[d]
  BY DEF StoreSourceRevision, IndInv, TypeOK
<1>2. PICK x \in do.left :
            LET rows == IF OfRuntime(do) = {} THEN {} ELSE SourceRows(do.t, do.a, do.g, x)
                kept == [do EXCEPT !.left = @ \ {x}, !.kept = @ \union rows]
            IN  session' = [session EXCEPT ![c] =
                    IF kept.left # {} THEN kept
                    ELSE [kept EXCEPT !.op = "recording",
                                      !.left = do.lists \union {AgentScope}]]
  BY DEF StoreSourceRevision
<1>3. /\ session'[c].lists = do.lists
      /\ session'[c].t = do.t /\ session'[c].a = do.a /\ session'[c].g = do.g
      /\ session'[c].agent = do.agent
      /\ session'[c].kept = do.kept \union
            (IF OfRuntime(do) = {} THEN {} ELSE SourceRows(do.t, do.a, do.g, x))
      /\ \/ session'[c].op = "storing" /\ session'[c].left = do.left \ {x}
         \/ session'[c].op = "recording" /\ do.left \ {x} = {}
  BY <1>1, <1>2 DEF IndInv, TypeOK, UseCase
<1>4. ASSUME NEW s \in do.lists \ lost[c]
      PROVE  /\ SourceRows(do.t, do.a, do.g, s) # {} /\ do.agent # None
             /\ s \in do.left \ {x} \/ \E q \in session'[c].kept : q.code = s
  <2>1. /\ SourceRows(do.t, do.a, do.g, s) # {} /\ do.agent # None
        /\ s \in do.left \/ \E q \in do.kept : q.code = s
    BY <1>1 DEF RendersFollow, Follows, Storing
  <2>2. OfRuntime(do) # {}
    BY <2>1 DEF OfRuntime
  <2>3. PICK q \in SourceRows(do.t, do.a, do.g, s) : q.code = s
    BY <2>1 DEF SourceRows
  <2> QED BY <1>3, <2>1, <2>2, <2>3
<1>5. \A t, a, g, s : SourceRows(t, a, g, s)' = SourceRows(t, a, g, s)
  BY <1>1 DEF tables, directory, SourceRows, AgentRows, AssetRows, TenantRows
<1>6. Follows(session[c], lost[c])'
  BY <1>1, <1>3, <1>4, <1>5 DEF Follows
<1> QED BY <1>1, <1>6, AloneStep

(* While the records are inserted, the sources kept stay the same. *)
LEMMA StoreRecordFollows ==
  ASSUME IndInv, RendersFollow, NEW c \in Client, StoreRecord(c)
  PROVE  RendersFollow'
<1> DEFINE do == session[c]
<1>1. /\ do.op = "recording"
      /\ UNCHANGED <<tables, lost>>
      /\ \A d \in Client \ {c} : session'[d] = session[d]
  BY DEF StoreRecord, IndInv, TypeOK
<1>2. /\ session'[c].op = do.op /\ session'[c].lists = do.lists
      /\ session'[c].t = do.t /\ session'[c].a = do.a /\ session'[c].g = do.g
      /\ session'[c].agent = do.agent /\ session'[c].kept = do.kept
  BY DEF StoreRecord, IndInv, TypeOK, UseCase
<1>3. \A t, a, g, s : SourceRows(t, a, g, s)' = SourceRows(t, a, g, s)
  BY <1>1 DEF tables, directory, SourceRows, AgentRows, AssetRows, TenantRows
<1>4. Follows(do, lost[c])
  BY DEF RendersFollow
<1>5. Follows(session[c], lost[c])'
  BY <1>1, <1>2, <1>3, <1>4 DEF Follows
<1> QED BY <1>1, <1>5, AloneStep

(* A source is deleted: whoever has rendered it takes note. *)
LEMMA DropSourceFollows ==
  ASSUME IndInv, OwnersExist', RendersFollow, NEW c \in Client, DropSource(c)
  PROVE  RendersFollow'
<1> DEFINE do == session[c]
<1>1. /\ sources' = sources \ SourceRows(do.t, do.a, do.g, do.s)
      /\ Lose(<<do.t, do.a, do.g>>, {q.code : q \in SourceRows(do.t, do.a, do.g, do.s)})
      /\ UNCHANGED <<tenants, assets, agents, runtimes>>
      /\ Done(c)
  BY DEF DropSource, config
<1>2. RowsPersist
  BY <1>1, Persistence DEF IndInv
<1>3. \A d \in Client : lost[d] \subseteq lost'[d]
  BY <1>1 DEF Lose
<1>4. Mourned
  <2> SUFFICES ASSUME NEW d \in Client, session[d].op \in Storing, NEW s,
                      NEW q \in SourceRows(session[d].t, session[d].a, session[d].g, s),
                      q \notin sources'
               PROVE  s \in lost'[d]
    BY DEF Mourned
  <2>1. q \in SourceRows(do.t, do.a, do.g, do.s)
    BY <1>1 DEF SourceRows
  <2>2. session[d].t = do.t /\ session[d].a = do.a /\ session[d].g = do.g /\ s = do.s
    BY <2>1, PathIsUnique DEF IndInv
  <2>3. s \in {x.code : x \in SourceRows(do.t, do.a, do.g, do.s)}
    BY <2>1, <2>2 DEF SourceRows
  <2> QED BY <1>1, <2>2, <2>3 DEF Lose, Storing
<1> QED BY <1>1, <1>2, <1>3, <1>4, EndStep

(* A graph is deleted: whoever has rendered its agent takes note. *)
LEMMA DeleteGraphFollows ==
  ASSUME IndInv, OwnersExist', RendersFollow, NEW c \in Client, DeleteGraph(c)
  PROVE  RendersFollow'
<1> DEFINE do == session[c]
<1> DEFINE gone == IF "agent" \in do.had THEN AgentRows(do.t, do.a, do.g) ELSE {}
<1> DEFINE goneSources == {r \in sources : \E q \in gone : r.agent = q.id}
<1>1. /\ sources' = sources \ goneSources
      /\ agents' = agents \ gone
      /\ assets' \subseteq assets /\ tenants' \subseteq tenants
      /\ runtimes' \subseteq runtimes
      /\ Lose(<<do.t, do.a, do.g>>, {q.code : q \in goneSources})
      /\ Done(c)
  BY DEF DeleteGraph
<1>2. RowsPersist
  BY <1>1, Persistence DEF IndInv
<1>3. \A d \in Client : lost[d] \subseteq lost'[d]
  BY <1>1 DEF Lose
<1>4. \A q \in goneSources : q \in SourceRows(do.t, do.a, do.g, q.code)
  BY DEF SourceRows
<1> HIDE DEF gone, goneSources
<1>5. Mourned
  <2> SUFFICES ASSUME NEW d \in Client, session[d].op \in Storing, NEW s,
                      NEW q \in SourceRows(session[d].t, session[d].a, session[d].g, s),
                      q \notin sources'
               PROVE  s \in lost'[d]
    BY DEF Mourned
  <2>1. q \in goneSources /\ q.code = s
    BY <1>1 DEF SourceRows
  <2>2. session[d].t = do.t /\ session[d].a = do.a /\ session[d].g = do.g
    BY <1>4, <2>1, PathIsUnique DEF IndInv
  <2> QED BY <1>1, <2>1, <2>2 DEF Lose, Storing
<1> QED BY <1>1, <1>2, <1>3, <1>5, EndStep

(* A call is rolled back. *)
LEMMA AbortFollows ==
  ASSUME IndInv, OwnersExist', RendersFollow, NEW c \in Client, Abort(c)
  PROVE  RendersFollow'
<1>1. /\ UNCHANGED <<tenants, assets, agents, sources, runtimes>>
      /\ lost' = [lost EXCEPT ![c] = {}]
      /\ Done(c)
  BY DEF Abort, tables, directory, config
<1>2. RowsPersist /\ Mourned
  BY <1>1, Persistence DEF IndInv, Mourned, SourceRows
<1>3. \A d \in Client \ {c} : lost'[d] = lost[d]
  BY <1>1 DEF IndInv, TypeOK
<1> QED BY <1>1, <1>2, <1>3, EndStep

(* A config is stored: the session that did it is over. *)
LEMMA StoreOutboxFollows ==
  ASSUME IndInv, OwnersExist', RendersFollow, NEW c \in Client, StoreOutbox(c)
  PROVE  RendersFollow'
<1>1. /\ UNCHANGED <<tenants, assets, agents, sources>>
      /\ runtimes \subseteq runtimes'
      /\ lost' = [lost EXCEPT ![c] = {}]
      /\ Done(c)
  BY DEF StoreOutbox, directory
<1>2. RowsPersist /\ Mourned
  BY <1>1, Persistence DEF IndInv, Mourned, SourceRows
<1>3. \A d \in Client \ {c} : lost'[d] = lost[d]
  BY <1>1 DEF IndInv, TypeOK
<1> QED BY <1>1, <1>2, <1>3, EndStep

(* Every step keeps to it. *)
LEMMA NextFollows ==
  ASSUME IndInv, IndInv', RendersFollow, [Next]_vars
  PROVE  RendersFollow'
<1>0. OwnersExist'
  BY DEF IndInv, NoOrphans, OwnersExist
<1>1. ASSUME NEW c \in Client, Call(c) PROVE RendersFollow'
  BY <1>1, CallsFollow
<1>2. ASSUME NEW c \in Client,
             \/ AddTenant(c) \/ DropTenant(c) \/ AddAsset(c) \/ DropAsset(c)
             \/ AddAgent(c) \/ DropAgent(c)
      PROVE  RendersFollow'
  <2>1. /\ Done(c) /\ lost' = lost
        /\ tenants' \subseteq tenants \/ tenants \subseteq tenants'
        /\ assets' \subseteq assets \/ assets \subseteq assets'
        /\ agents' \subseteq agents \/ agents \subseteq agents'
        /\ sources' = sources /\ runtimes' = runtimes
    BY <1>2 DEF AddTenant, DropTenant, AddAsset, DropAsset, AddAgent, DropAgent, config
  <2> QED BY <1>0, <2>1, QuietStep
<1>3. ASSUME NEW c \in Client,
             \/ AddSource(c) \/ AddPoint(c) \/ SetPoint(c) \/ DropPoint(c)
             \/ AddRuntimeRevision(c) \/ AddSourceRevision(c)
      PROVE  RendersFollow'
  <2>1. /\ Done(c) /\ lost' = lost
        /\ UNCHANGED <<tenants, assets, agents>>
        /\ sources \subseteq sources' /\ runtimes \subseteq runtimes'
    BY <1>3 DEF AddSource, AddPoint, SetPoint, DropPoint, AddRuntimeRevision,
       AddSourceRevision, config, directory
  <2> QED BY <1>0, <2>1, QuietStep
<1>4. ASSUME NEW c \in Client, Commit(c) PROVE RendersFollow'
  BY <1>0, <1>2, <1>3, <1>4, BeginStoreFollows, StoreSourceFollows,
     StoreRecordFollows, StoreOutboxFollows,
     DropSourceFollows, DeleteGraphFollows, AbortFollows DEF Commit
<1>5. CASE UNCHANGED vars
  BY <1>5 DEF vars, tables, directory, RendersFollow, Follows, SourceRows, AgentRows,
     AssetRows, TenantRows
<1> QED BY <1>1, <1>4, <1>5 DEF Next

(* What the commit of a storing transaction leaves behind. *)
LEMMA WhatIsStored ==
  ASSUME IndInv, RendersFollow, NEW c \in Client, StoreOutbox(c),
         NEW s \in session[c].lists \ lost[c]
  PROVE  LET do == session[c]  path == <<do.t, do.a, do.g>> IN
         /\ \E r \in runtimes' : r.path = path /\ r.rev = do.rev /\ s \in r.lists
         /\ \E r \in sourceRevs' : r.path = path /\ r.code = s /\ r.rev = do.rev
         /\ \E r \in outbox' : r.path = path /\ r.code = s /\ r.rev = do.rev
<1> DEFINE do == session[c]
<1> DEFINE path == <<do.t, do.a, do.g>>
<1>1. /\ do.op = "recording" /\ do.left = {}
      /\ runtimes' = runtimes \union NewRuntimes(do)
      /\ sourceRevs' = sourceRevs \union KeptSourceRevs(do)
      /\ outbox' = outbox \union do.records
  BY DEF StoreOutbox
<1>2. /\ do.agent # None
      /\ \E q \in do.kept : q.code = s
  BY <1>1 DEF RendersFollow, Follows, Storing
<1>3. \E r \in NewRuntimes(do) : r.path = path /\ r.rev = do.rev /\ s \in r.lists
  BY <1>2 DEF NewRuntimes
<1>4. \E r \in KeptSourceRevs(do) : r.path = path /\ r.code = s /\ r.rev = do.rev
  <2>1. PICK q \in do.kept : q.code = s
    BY <1>2
  <2> DEFINE row == [source |-> q.id, runtime |-> Fresh(runtimes), path |-> path,
                     code |-> q.code, srev |-> do.srev, rev |-> do.rev]
  <2>2. row \in KeptSourceRevs(do)
    <3>1. Fresh(runtimes) \in OfRuntime(do)
      BY <1>2 DEF OfRuntime
    <3> QED BY <3>1 DEF KeptSourceRevs
  <2> QED BY <2>1, <2>2
<1>5. \E r \in do.records : r.path = path /\ r.code = s /\ r.rev = do.rev
  <2>1. Held(do) /\ Covered(do)
    BY DEF IndInv, HeldRows
  <2>2. \E r \in do.records : r.code = s
    BY <1>1, <1>2, <2>1 DEF Covered, Recorded
  <2> QED BY <2>1, <2>2 DEF Held, RecordHeld
<1> QED BY <1>1, <1>3, <1>4, <1>5

(* Whatever is deleted, created and stored side by side: a config that is    *)
(* stored has revision and outbox record of each source that was left.       *)
THEOREM StoringIsComplete == Spec => StoresAllThatIsLeft
<1>1. Init => RendersFollow
  BY DEF Init, RendersFollow, Follows, Storing, Idle
<1>2. IndInv /\ IndInv' /\ RendersFollow /\ [Next]_vars => RendersFollow'
  BY NextFollows
<1>3. ASSUME IndInv, RendersFollow
      PROVE  [\A c \in Client : StoreOutbox(c) =>
                LET do == session[c]  path == <<do.t, do.a, do.g>> IN
                \A s \in do.lists \ lost[c] :
                    /\ \E r \in runtimes' : r.path = path /\ r.rev = do.rev /\ s \in r.lists
                    /\ \E r \in sourceRevs' : r.path = path /\ r.code = s /\ r.rev = do.rev
                    /\ \E r \in outbox' : r.path = path /\ r.code = s /\ r.rev = do.rev]_vars
  BY <1>3, WhatIsStored
<1> QED BY <1>1, <1>2, <1>3, Invariance, PTL DEF Spec, StoresAllThatIsLeft

=============================================================================
