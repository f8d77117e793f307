----------------------------- MODULE AssetGraph -----------------------------
(***************************************************************************)
(* The Asset Graph Registry of one tenant: asset graph nodes with their    *)
(* attributes and relationships, the bindings of telemetry points to       *)
(* attributes, and the default catalog tree                                *)
(* (application/use_cases/asset_graph.py, catalog.py,                      *)
(* infrastructure/postgres/unit_of_work.py, models.py).                    *)
(*                                                                         *)
(* The tables have no foreign keys, only unique constraints: references    *)
(* are kept by the use cases, which first read and then write in one READ  *)
(* COMMITTED transaction.  A request is therefore several steps, and       *)
(* requests of different clients interleave: all the reads of its use      *)
(* case, then, of an update, the repository's own select of the row, and   *)
(* last the flush with the commit.  A request that is refused changes      *)
(* nothing and is no step.                                                 *)
(*                                                                         *)
(* Names, metadata, value types, units and sort orders are left out, and   *)
(* with them the updates that change nothing else.                         *)
(***************************************************************************)
EXTENDS Naturals, FiniteSets

CONSTANTS
  Client,        \* concurrent callers of the API
  Node,          \* asset_graph_node_code values
  Key,           \* attribute_key values
  Relationship,  \* relationship_code values
  Binding,       \* binding_code values
  Point,         \* point_code values the Config Registry knows
  CatalogNode,   \* catalog node_code values
  Root,          \* parent_node_code IS NULL
  Folder,        \* target of a catalog node that names no asset graph node
  MaxRaces,      \* bound: requests begun while another is under way
  Nil            \* no row, no request

ASSUME BoundAssumption == MaxRaces \in Nat

Ends == [source : Node, target : Node]

Bound == [point : Point, node : Node, key : Key]

Place == [parent : CatalogNode \cup {Root}, target : Node \cup {Folder}]

RowWrite(table, code, row) ==
  [table : {table}, op : {"add"}, code : code, row : row]
    \cup [table : {table}, op : {"update"}, code : code, row : row, read : row \cup {Nil}]
    \cup [table : {table}, op : {"delete"}, code : code]

(* What a transaction is about to write, and for an update the row as its   *)
(* repository has selected it                                              *)
Write ==
  [table : {"nodes"}, op : {"add", "delete"}, node : Node]
    \cup [table : {"attributes"}, op : {"add", "delete"}, attribute : Node \X Key]
    \cup RowWrite("relationships", Relationship, Ends)
    \cup RowWrite("bindings", Binding, Bound)
    \cup RowWrite("catalog", CatalogNode, Place)

(* The rows that others refer to, each by its table and code *)
Row ==
  ({"nodes"} \X Node) \cup ({"attributes"} \X (Node \X Key)) \cup ({"catalog"} \X CatalogNode)

ASSUME NilAssumption ==
  /\ Root \notin CatalogNode
  /\ Folder \notin Node
  /\ Nil \notin Ends \cup Bound \cup Place \cup Write

VARIABLES
  nodes,          \* asset_graph_nodes
  attributes,     \* asset_graph_node_attributes: <<node, key>> pairs
  relationships,  \* asset_graph_relationships: a row or Nil per code
  bindings,       \* asset_graph_telemetry_bindings: a row or Nil per code
  catalog,        \* catalog_nodes: a row or Nil per code
  request,        \* per client: what its transaction is about to write
  races,          \* history: requests begun while another was under way
  contested       \* history: rows that one request deleted and another named
                  \* while both were under way

graph == <<nodes, attributes, relationships, bindings, catalog>>

vars == <<graph, request, races, contested>>

Related == {r \in Relationship : relationships[r] # Nil}

Taken == {b \in Binding : bindings[b] # Nil}

Placed == {c \in CatalogNode : catalog[c] # Nil}

(***************************************************************************)
(* The reads of a request.  An operator marked "Fault" is no part of the   *)
(* model: it is a way the next definition could have been got wrong, kept  *)
(* to show which property would notice.                                    *)
(***************************************************************************)
Begin(client, write) ==
  LET overlap == IF \E other \in Client : request[other] # Nil THEN 1 ELSE 0 IN
  /\ request[client] = Nil
  /\ races + overlap <= MaxRaces
  /\ races' = races + overlap
  /\ request' = [request EXCEPT ![client] = write]
  /\ UNCHANGED <<graph, contested>>

CreateNode(client) ==
  \E n \in Node \ nodes : Begin(client, [table |-> "nodes", op |-> "add", node |-> n])

(* Fault: the catalog is not asked *)
NodeIsFreeOutsideCatalog(n) ==
  /\ \A k \in Key : <<n, k>> \notin attributes
  /\ \A r \in Related : n \notin {relationships[r].source, relationships[r].target}
  /\ \A b \in Taken : bindings[b].node # n

NodeIsFree(n) ==
  /\ \A k \in Key : <<n, k>> \notin attributes
  /\ \A r \in Related : n \notin {relationships[r].source, relationships[r].target}
  /\ \A b \in Taken : bindings[b].node # n
  /\ \A c \in Placed : catalog[c].target # n

DeleteNode(client) ==
  \E n \in nodes :
    NodeIsFree(n) /\ Begin(client, [table |-> "nodes", op |-> "delete", node |-> n])

CreateAttribute(client) ==
  \E n \in nodes, k \in Key :
    /\ <<n, k>> \notin attributes
    /\ Begin(client, [table |-> "attributes", op |-> "add", attribute |-> <<n, k>>])

(* Fault: the delete asks about the node only, not about the attribute *)
AttributeIsFreeOfNode(n, k) == n \in nodes

(* No binding refers to the attribute *)
AttributeIsFree(n, k) ==
  \A b \in Taken : bindings[b].node # n \/ bindings[b].key # k

DeleteAttribute(client) ==
  \E n \in Node, k \in Key :
    /\ <<n, k>> \in attributes
    /\ AttributeIsFree(n, k)
    /\ Begin(client, [table |-> "attributes", op |-> "delete", attribute |-> <<n, k>>])

CreateRelationship(client) ==
  \E r \in Relationship \ Related, source \in nodes, target \in nodes :
    Begin(client, [ table |-> "relationships", op |-> "add", code |-> r,
                    row |-> [source |-> source, target |-> target] ])

UpdateRelationship(client) ==
  \E r \in Related, source \in nodes, target \in nodes :
    Begin(client, [ table |-> "relationships", op |-> "update", code |-> r,
                    row |-> [source |-> source, target |-> target], read |-> Nil ])

DeleteRelationship(client) ==
  \E r \in Related : Begin(client, [table |-> "relationships", op |-> "delete", code |-> r])

(* No binding but b has the point or the attribute *)
BindingIsFree(b, row) ==
  \A other \in Taken \ {b} :
    /\ bindings[other].point # row.point
    /\ bindings[other].node # row.node \/ bindings[other].key # row.key

(* The point is looked up in the Config Registry before the transaction *)
CreateBinding(client) ==
  \E b \in Binding \ Taken, row \in Bound :
    /\ BindingIsFree(b, row)
    /\ <<row.node, row.key>> \in attributes
    /\ Begin(client, [table |-> "bindings", op |-> "add", code |-> b, row |-> row])

UpdateBinding(client) ==
  \E b \in Taken, row \in Bound :
    /\ <<row.node, row.key>> \in attributes
    /\ BindingIsFree(b, row)
    /\ Begin(client, [ table |-> "bindings", op |-> "update", code |-> b,
                       row |-> row, read |-> Nil ])

DeleteBinding(client) ==
  \E b \in Taken : Begin(client, [table |-> "bindings", op |-> "delete", code |-> b])

CreateCatalogNode(client) ==
  \E c \in CatalogNode \ Placed, parent \in Placed \cup {Root}, target \in nodes \cup {Folder} :
    Begin(client, [ table |-> "catalog", op |-> "add", code |-> c,
                    row |-> [parent |-> parent, target |-> target] ])

(* _validate_target: a folder takes no target, a reference needs one *)
UpdateCatalogNode(client) ==
  \E c \in Placed, target \in nodes \cup {Folder} :
    /\ (target = Folder) <=> (catalog[c].target = Folder)
    /\ Begin(client, [ table |-> "catalog", op |-> "update", code |-> c,
                       row |-> [catalog[c] EXCEPT !.target = target], read |-> Nil ])

Children(above) == {c \in Placed : catalog[c].parent \in above}

(* _descendant_codes: what is reached from c by way of children, that is the *)
(* least set that has them and is closed under children                     *)
Descendants(c) ==
  {d \in Placed : \A S \in SUBSET Placed : Children({c}) \cup Children(S) \subseteq S => d \in S}

(* Fault: only the node itself is kept from adopting it *)
MayAdoptBelow(parent, c) == parent = Root \/ parent \in Placed \ {c}

MayAdopt(parent, c) ==
  parent = Root \/ (parent \in Placed \ {c} /\ parent \notin Descendants(c))

MoveCatalogNode(client) ==
  \E c \in Placed, parent \in CatalogNode \cup {Root} :
    /\ MayAdopt(parent, c)
    /\ Begin(client, [ table |-> "catalog", op |-> "update", code |-> c,
                       row |-> [catalog[c] EXCEPT !.parent = parent], read |-> Nil ])

DeleteCatalogNode(client) ==
  \E c \in Placed :
    /\ Children({c}) = {}
    /\ Begin(client, [table |-> "catalog", op |-> "delete", code |-> c])

(***************************************************************************)
(* The write and the commit.  An insert that breaks a unique constraint is *)
(* rolled back, an update or delete of a row that is gone changes nothing. *)
(***************************************************************************)
RowOf(write) ==
  CASE write.table = "relationships" -> relationships[write.code]
    [] write.table = "bindings" -> bindings[write.code]
    [] write.table = "catalog" -> catalog[write.code]

(* An update's repository selects the row again: others may have changed it *)
(* since the use case read it, and a row that is gone ends the request.    *)
Select(client) ==
  LET write == request[client] IN
  /\ write # Nil
  /\ write.op = "update"
  /\ write.read = Nil
  /\ request' = [request EXCEPT ![client] =
                    IF RowOf(write) = Nil THEN Nil ELSE [write EXCEPT !.read = RowOf(write)]]
  /\ UNCHANGED <<graph, races, contested>>

(* Fault: the row is replaced by its changed columns *)
FlushedChangesOnly(row, read, new) ==
  [column \in {k \in DOMAIN row : new[k] # read[k]} |-> new[column]]

(* Of a row the flush writes the columns that differ from the selected ones *)
Flushed(row, read, new) ==
  [column \in DOMAIN row |-> IF new[column] = read[column] THEN row[column] ELSE new[column]]

WriteNode(write) ==
  /\ nodes' = IF write.op = "add" THEN nodes \cup {write.node} ELSE nodes \ {write.node}
  /\ UNCHANGED <<attributes, relationships, bindings, catalog>>

WriteAttribute(write) ==
  /\ attributes' = IF write.op = "add" THEN attributes \cup {write.attribute}
                   ELSE attributes \ {write.attribute}
  /\ UNCHANGED <<nodes, relationships, bindings, catalog>>

(* The row an update leaves where it finds `row` *)
Written(row, write) ==
  CASE write.op = "add" -> IF row = Nil THEN write.row ELSE row
    [] write.op = "update" -> IF row = Nil THEN Nil ELSE Flushed(row, write.read, write.row)
    [] write.op = "delete" -> Nil

WriteRelationship(write) ==
  /\ relationships' = [relationships EXCEPT ![write.code] = Written(@, write)]
  /\ UNCHANGED <<nodes, attributes, bindings, catalog>>

(* uq_..._point and uq_..._attribute: one binding per point and per attribute *)
OneToOne(table) ==
  \A b, d \in Binding : table[b] # Nil /\ table[d] # Nil /\ b # d =>
    /\ table[b].point # table[d].point
    /\ table[b].node # table[d].node \/ table[b].key # table[d].key

WriteBinding(write) ==
  LET table == [bindings EXCEPT ![write.code] = Written(@, write)] IN
  /\ bindings' = IF OneToOne(table) THEN table ELSE bindings
  /\ UNCHANGED <<nodes, attributes, relationships, catalog>>

WriteCatalogNode(write) ==
  /\ catalog' = [catalog EXCEPT ![write.code] = Written(@, write)]
  /\ UNCHANGED <<nodes, attributes, relationships, bindings>>

(* A deleted row takes with it the updates that have selected it: their     *)
(* flush finds nothing, even if the code has been given to a new row.      *)
Voids(write, other) ==
  /\ write.op = "delete"
  /\ other # Nil
  /\ other.table = write.table
  /\ other.op = "update"
  /\ other.code = write.code
  /\ other.read # Nil

(* The rows a row refers to: a folder and a root are always there *)
EndsOf(row) == {<<"nodes", row.source>>, <<"nodes", row.target>>}

AttributeOf(row) == {<<"attributes", <<row.node, row.key>>>>}

PlaceOf(row) == {<<"nodes", row.target>>, <<"catalog", row.parent>>}

(* What a write makes a row refer to *)
Names(write) ==
  IF write.op = "delete" THEN {}
  ELSE CASE write.table = "nodes" -> {}
         [] write.table = "attributes" -> {<<"nodes", write.attribute[1]>>}
         [] write.table = "relationships" -> EndsOf(write.row)
         [] write.table = "bindings" -> AttributeOf(write.row)
         [] write.table = "catalog" -> PlaceOf(write.row)

(* The row that others may refer to and a write takes away *)
Removes(write) ==
  IF write.op # "delete" THEN {}
  ELSE CASE write.table = "nodes" -> {<<"nodes", write.node>>}
         [] write.table = "attributes" -> {<<"attributes", write.attribute>>}
         [] write.table = "catalog" -> {<<"catalog", write.code>>}
         [] OTHER -> {}

(* The attribute of a binding of which two updates have each written half: *)
(* the one its node, the other its key                                     *)
Mixed(write) ==
  IF write.table = "bindings" /\ write.op = "update" /\ bindings[write.code] \notin {Nil, write.read}
  THEN AttributeOf(Written(bindings[write.code], write))
         \ (AttributeOf(bindings[write.code]) \cup AttributeOf(write.row))
  ELSE {}

(* What a commit brings into contest with the requests still under way *)
Contested(client) ==
  LET write == request[client]
      Other == {request[other] : other \in {c \in Client \ {client} : request[c] # Nil}}
  IN  Mixed(write)
        \cup UNION {(Names(write) \cap Removes(other)) \cup (Removes(write) \cap Names(other)) :
                      other \in Other}

Commit(client) ==
  LET write == request[client] IN
  /\ write # Nil
  /\ write.op = "update" => write.read # Nil
  /\ request' = [c \in Client |->
                   IF c = client \/ Voids(write, request[c]) THEN Nil ELSE request[c]]
  /\ races' = races
  /\ contested' = contested \cup Contested(client)
  /\ \/ write.table = "nodes" /\ WriteNode(write)
     \/ write.table = "attributes" /\ WriteAttribute(write)
     \/ write.table = "relationships" /\ WriteRelationship(write)
     \/ write.table = "bindings" /\ WriteBinding(write)
     \/ write.table = "catalog" /\ WriteCatalogNode(write)

(* The transaction fails: a lost connection, or both insert the default tree *)
Rollback(client) ==
  /\ request[client] # Nil
  /\ request' = [request EXCEPT ![client] = Nil]
  /\ UNCHANGED <<graph, races, contested>>

Init ==
  /\ nodes = {}
  /\ attributes = {}
  /\ relationships = [r \in Relationship |-> Nil]
  /\ bindings = [b \in Binding |-> Nil]
  /\ catalog = [c \in CatalogNode |-> Nil]
  /\ request = [client \in Client |-> Nil]
  /\ races = 0
  /\ contested = {}

(***************************************************************************)
(* What a client may ask for: the routes of the API.                       *)
(***************************************************************************)
NodeRequests(client) == CreateNode(client) \/ DeleteNode(client)

AttributeRequests(client) == CreateAttribute(client) \/ DeleteAttribute(client)

RelationshipRequests(client) ==
  CreateRelationship(client) \/ UpdateRelationship(client) \/ DeleteRelationship(client)

BindingRequests(client) ==
  CreateBinding(client) \/ UpdateBinding(client) \/ DeleteBinding(client)

CatalogRequests(client) ==
  \/ CreateCatalogNode(client)
  \/ UpdateCatalogNode(client)
  \/ MoveCatalogNode(client)
  \/ DeleteCatalogNode(client)

Next ==
  \E client \in Client :
    \/ NodeRequests(client)
    \/ AttributeRequests(client)
    \/ RelationshipRequests(client)
    \/ BindingRequests(client)
    \/ CatalogRequests(client)
    \/ Select(client)
    \/ Commit(client)
    \/ Rollback(client)

Spec == Init /\ [][Next]_vars

(***************************************************************************)
(* Properties.                                                             *)
(***************************************************************************)
TypeOK ==
  /\ nodes \subseteq Node
  /\ attributes \subseteq Node \X Key
  /\ relationships \in [Relationship -> Ends \cup {Nil}]
  /\ bindings \in [Binding -> Bound \cup {Nil}]
  /\ catalog \in [CatalogNode -> Place \cup {Nil}]
  /\ request \in [Client -> Write \cup {Nil}]
  /\ races \in Nat
  /\ contested \subseteq Row

(* What the rows of the graph refer to *)
Named ==
  {<<"nodes", a[1]>> : a \in attributes}
    \cup (UNION {EndsOf(relationships[r]) : r \in Related})
    \cup (UNION {AttributeOf(bindings[b]) : b \in Taken})
    \cup (UNION {PlaceOf(catalog[c]) : c \in Placed})

Existing ==
  ({"nodes"} \X (nodes \cup {Folder})) \cup ({"attributes"} \X attributes)
    \cup ({"catalog"} \X (Placed \cup {Root}))

(* However requests overlap, what dangles was contested: a row that exists  *)
(* no more, and yet is referred to, was deleted by one request and named by *)
(* another while both were under way, or is the attribute of a binding that *)
(* two updates have written half each.  Checks and deletes that do not meet *)
(* over one row can overlap as they like: they lose no reference, neither   *)
(* to a node or an attribute nor to a parent in the catalog.               *)
DanglingWasContested == Named \subseteq Existing \cup contested

(* As long as requests come one after the other nothing dangles: what an    *)
(* attribute, a relationship, a binding or a catalog node refers to exists. *)
NothingDangles ==
  races = 0 =>
    /\ \A a \in attributes : a[1] \in nodes
    /\ \A r \in Related : {relationships[r].source, relationships[r].target} \subseteq nodes
    /\ \A b \in Taken : <<bindings[b].node, bindings[b].key>> \in attributes
    /\ \A c \in Placed : catalog[c].target \in nodes \cup {Folder}

IsForest ==
  \A c \in Placed : catalog[c].parent \in Placed \cup {Root} /\ c \notin Descendants(c)

(* As long as requests come one after the other the catalog is a forest: no *)
(* sequence of creations, moves and deletions orphans a node or closes a    *)
(* circle.                                                                 *)
CatalogIsForest == races = 0 => IsForest

(***************************************************************************)
(* Why references hold: without an overlap the one pending write is still  *)
(* as legal as when its request read the tables.                           *)
(***************************************************************************)
Legal(write) ==
  CASE write.table = "nodes" -> write.op = "delete" => NodeIsFree(write.node)
    [] write.table = "attributes" ->
         IF write.op = "add" THEN write.attribute[1] \in nodes
         ELSE AttributeIsFree(write.attribute[1], write.attribute[2])
    [] write.table = "relationships" ->
         write.op # "delete" =>
           /\ {write.row.source, write.row.target} \subseteq nodes
           /\ write.op = "update" => write.read \in {Nil, relationships[write.code]}
    [] write.table = "bindings" ->
         write.op # "delete" =>
           /\ <<write.row.node, write.row.key>> \in attributes
           /\ write.op = "update" => write.read \in {Nil, bindings[write.code]}
    [] write.table = "catalog" ->
         write.op # "delete" =>
           /\ write.row.target \in nodes \cup {Folder}
           /\ write.op = "update" => write.read \in {Nil, catalog[write.code]}

Pending == {client \in Client : request[client] # Nil}

PendingIsLegal ==
  races = 0 =>
    /\ \A a, b \in Pending : a = b
    /\ \A client \in Pending : Legal(request[client])

IndInv == TypeOK /\ NothingDangles /\ PendingIsLegal

(* test_catalog_move_rejects_cycles: what would close a circle is refused.   *)
(* Requests that overlap, each legal on what it read, close one.           *)
CatalogHasNoCycle == \A c \in Placed : c \notin Descendants(c)
=============================================================================
