-------------------------- MODULE AssetGraphProofs --------------------------
(***************************************************************************)
(* For any number of clients, nodes, attributes, bindings and races: what  *)
(* dangles was contested whatever requests overlap, and nothing dangles    *)
(* and the catalog is a forest while none do.                              *)
(***************************************************************************)
EXTENDS AssetGraph, TLAPS

(* A flush leaves a row of the table's type, and the whole new row where    *)
(* nobody has changed what was read.                                       *)
LEMMA FlushedEnds ==
  ASSUME NEW row \in Ends, NEW read \in Ends, NEW new \in Ends
  PROVE  /\ Flushed(row, read, new) \in Ends
         /\ row = read => Flushed(row, read, new) = new
BY DEF Flushed, Ends

(* The same of a binding. *)
LEMMA FlushedBound ==
  ASSUME NEW row \in Bound, NEW read \in Bound, NEW new \in Bound
  PROVE  /\ Flushed(row, read, new) \in Bound
         /\ row = read => Flushed(row, read, new) = new
BY DEF Flushed, Bound

(* The same of a catalog node. *)
LEMMA FlushedPlace ==
  ASSUME NEW row \in Place, NEW read \in Place, NEW new \in Place
  PROVE  /\ Flushed(row, read, new) \in Place
         /\ row = read => Flushed(row, read, new) = new
BY DEF Flushed, Place

(* A request that has found its write legal, on the tables as they are,     *)
(* keeps the invariant: an overlap is counted.                             *)
LEMMA BeginStep ==
  ASSUME IndInv, NEW client \in Client, NEW write \in Write, Begin(client, write),
         races' = 0 => Legal(write)
  PROVE  IndInv'
<1>1. /\ UNCHANGED graph
      /\ contested' = contested
      /\ request[client] = Nil
      /\ request' = [request EXCEPT ![client] = write]
      /\ races' \in Nat
      /\ races' = 0 => races = 0 /\ \A other \in Client : request[other] = Nil
  BY DEF Begin, IndInv, TypeOK
<1>2. TypeOK'
  BY <1>1 DEF IndInv, TypeOK, graph
<1>4. NothingDangles'
  BY <1>1 DEF IndInv, NothingDangles, Related, Taken, Placed, graph
<1>5. PendingIsLegal'
  <2> SUFFICES ASSUME races' = 0
               PROVE  /\ \A a, b \in Pending' : a = b
                      /\ \A c \in Pending' : Legal(request[c])'
    BY DEF PendingIsLegal
  <2>1. Pending' \subseteq {client}
    BY <1>1 DEF Pending, IndInv, TypeOK
  <2>2. request'[client] = write
    BY <1>1 DEF IndInv, TypeOK
  <2>3. Legal(write)
    OBVIOUS
  <2>4. Legal(request[client])'
    <3>1. Legal(write)' <=> Legal(write)
      BY <1>1 DEF Legal, NodeIsFree, AttributeIsFree, Related, Taken, Placed, graph
    <3>2. Legal(request[client])' <=> Legal(write)'
      BY <2>2 DEF Legal
    <3> QED BY <2>3, <3>1, <3>2
  <2> QED BY <2>1, <2>4
<1> QED BY <1>2, <1>4, <1>5 DEF IndInv

(* A select keeps the invariant: without an overlap it finds what the use   *)
(* case has read.                                                          *)
LEMMA SelectStep ==
  ASSUME IndInv, NEW client \in Client, Select(client)
  PROVE  IndInv'
<1> DEFINE write == request[client]
<1> DEFINE found == RowOf(write)
<1> DEFINE next == IF found = Nil THEN Nil ELSE [write EXCEPT !.read = found]
<1>1. /\ write # Nil
      /\ write.op = "update"
      /\ write.read = Nil
      /\ request' = [request EXCEPT ![client] = next]
      /\ UNCHANGED graph
      /\ races' = races /\ contested' = contested
  BY DEF Select
<1>2. write \in Write
  BY <1>1 DEF IndInv, TypeOK
<1>3. \/ write \in [table : {"relationships"}, op : {"update"}, code : Relationship,
                   row : Ends, read : Ends \cup {Nil}]
      \/ write \in [table : {"bindings"}, op : {"update"}, code : Binding,
                   row : Bound, read : Bound \cup {Nil}]
      \/ write \in [table : {"catalog"}, op : {"update"}, code : CatalogNode,
                   row : Place, read : Place \cup {Nil}]
  BY <1>1, <1>2 DEF Write, RowWrite
<1>4. /\ next \in Write \cup {Nil}
      /\ Legal(write) => next = Nil \/ Legal(next)
  <2>1. CASE write \in [table : {"relationships"}, op : {"update"}, code : Relationship,
                        row : Ends, read : Ends \cup {Nil}]
    BY <2>1 DEF RowOf, Legal, Write, RowWrite, IndInv, TypeOK
  <2>2. CASE write \in [table : {"bindings"}, op : {"update"}, code : Binding,
                        row : Bound, read : Bound \cup {Nil}]
    BY <2>2 DEF RowOf, Legal, Write, RowWrite, IndInv, TypeOK
  <2>3. CASE write \in [table : {"catalog"}, op : {"update"}, code : CatalogNode,
                        row : Place, read : Place \cup {Nil}]
    BY <2>3 DEF RowOf, Legal, Write, RowWrite, IndInv, TypeOK
  <2> QED BY <1>3, <2>1, <2>2, <2>3
<1> HIDE DEF next
<1>5. request'[client] = next /\ \A c \in Client \ {client} : request'[c] = request[c]
  BY <1>1 DEF IndInv, TypeOK
<1>6. TypeOK'
  BY <1>1, <1>4 DEF IndInv, TypeOK, graph
<1>7. NothingDangles'
  BY <1>1 DEF IndInv, NothingDangles, Related, Taken, Placed, graph
<1>8. PendingIsLegal'
  <2> SUFFICES ASSUME races = 0
               PROVE  /\ \A a, b \in Pending' : a = b
                      /\ \A c \in Pending' : Legal(request[c])'
    BY <1>1 DEF PendingIsLegal
  <2>1. client \in Pending /\ Legal(write) /\ \A c \in Pending : c = client
    BY <1>1 DEF IndInv, PendingIsLegal, Pending
  <2>2. Pending' \subseteq {client}
    BY <1>5, <2>1 DEF Pending
  <2>3. client \in Pending' => Legal(request[client])'
    <3> SUFFICES ASSUME next # Nil PROVE Legal(request[client])'
      BY <1>5 DEF Pending
    <3>1. Legal(next)
      BY <1>4, <2>1
    <3>2. PICK w : w = next
      OBVIOUS
    <3>3. Legal(w)' <=> Legal(w)
      BY <1>1 DEF Legal, NodeIsFree, AttributeIsFree, Related, Taken, Placed, graph
    <3>4. Legal(request[client])' <=> Legal(w)'
      BY <1>5, <3>2 DEF Legal
    <3> QED BY <3>1, <3>2, <3>3, <3>4
  <2> QED BY <2>2, <2>3
<1> QED BY <1>6, <1>7, <1>8 DEF IndInv

(* A transaction that fails leaves one pending write less. *)
LEMMA RollbackStep ==
  ASSUME IndInv, NEW client \in Client, Rollback(client)
  PROVE  IndInv'
<1>1. /\ request' = [request EXCEPT ![client] = Nil]
      /\ UNCHANGED graph
      /\ races' = races /\ contested' = contested
  BY DEF Rollback
<1>2. \A c \in Client : request'[c] \in {request[c], Nil}
  BY <1>1 DEF IndInv, TypeOK
<1>3. TypeOK' /\ NothingDangles'
  BY <1>1, <1>2 DEF IndInv, TypeOK, NothingDangles, Related,
     Taken, Placed, graph
<1>4. \A c \in Client : Legal(request[c])' <=> Legal(request'[c])
  BY <1>1 DEF Legal, NodeIsFree, AttributeIsFree, Related, Taken, Placed, graph
<1>5. PendingIsLegal'
  BY <1>1, <1>2, <1>4 DEF IndInv, PendingIsLegal, Pending
<1> QED BY <1>3, <1>5 DEF IndInv

(* What a write leaves in a row it finds legal to write. *)
LEMMA WrittenRow ==
  ASSUME NEW row, NEW write, NEW Columns, Nil \notin Columns,
         write.op \in {"add", "update", "delete"},
         row \in Columns \cup {Nil},
         write.op # "delete" => write.row \in Columns,
         write.op = "update" => write.read \in Columns,
         \A r \in Columns, read \in Columns, new \in Columns :
           /\ Flushed(r, read, new) \in Columns
           /\ r = read => Flushed(r, read, new) = new
  PROVE  /\ Written(row, write) \in Columns \cup {Nil}
         /\ \/ Written(row, write) \in {row, Nil}
            \/ write.op # "delete" /\ Written(row, write) = write.row
            \/ write.op = "update" /\ write.read # row
BY DEF Written

(* What two writes contest is a row of the tables that others refer to. *)
LEMMA ContestedRows ==
  ASSUME TypeOK, NEW client \in Client, Commit(client)
  PROVE  contested' \subseteq Row
<1> DEFINE write == request[client]
<1>1. write \in Write /\ (write.op = "update" => write.read # Nil)
  BY DEF Commit, TypeOK
<1>2. ASSUME NEW w \in Write PROVE Removes(w) \subseteq Row
  BY <1>2 DEF Removes, Write, RowWrite, Row
<1>3. Mixed(write) \subseteq Row
  <2> SUFFICES ASSUME write.table = "bindings", write.op = "update", bindings[write.code] # Nil
               PROVE  AttributeOf(Written(bindings[write.code], write)) \subseteq Row
    BY DEF Mixed
  <2>1. write.code \in Binding /\ write.row \in Bound /\ write.read \in Bound
    BY <1>1 DEF Write, RowWrite
  <2>2. bindings[write.code] \in Bound
    BY <2>1 DEF TypeOK
  <2>3. Written(bindings[write.code], write) \in Bound
    BY <2>1, <2>2, FlushedBound DEF Written
  <2> QED BY <2>3 DEF AttributeOf, Row, Bound
<1>4. Contested(client) \subseteq Row
  <2> SUFFICES ASSUME NEW row \in Contested(client) PROVE row \in Row
    OBVIOUS
  <2>1. CASE row \in Mixed(write)
    BY <1>3, <2>1
  <2>2. CASE row \notin Mixed(write)
    <3>1. PICK other \in {request[c] : c \in {d \in Client \ {client} : request[d] # Nil}} :
            row \in Removes(other) \/ row \in Removes(write)
      BY <2>2 DEF Contested
    <3>2. other \in Write
      BY <3>1 DEF TypeOK
    <3> QED BY <1>1, <1>2, <3>1, <3>2
  <2> QED BY <2>1, <2>2
<1> QED BY <1>4 DEF Commit, TypeOK

(* What a commit may count on: its write is of the right type and, while    *)
(* nothing has overlapped, still legal and the only one pending.           *)
LEMMA CommitStart ==
  ASSUME IndInv, NEW client \in Client, Commit(client)
  PROVE  /\ request[client] \in Write
         /\ races = 0 => Legal(request[client])
         /\ request[client].op = "update" => request[client].read # Nil
         /\ request' \in [Client -> Write \cup {Nil}]
         /\ races' = races
         /\ contested' \subseteq Row
         /\ races = 0 => Pending' = {}
         /\ PendingIsLegal'
<1>1. request[client] \in Write /\ client \in Pending
  <2>1. request[client] # Nil
    BY DEF Commit
  <2>2. request[client] \in Write \cup {Nil}
    BY DEF IndInv, TypeOK
  <2> QED BY <2>1, <2>2 DEF Pending
<1>2. /\ \A other \in Client : request'[other] \in {request[other], Nil}
      /\ request'[client] = Nil
      /\ request' \in [Client -> Write \cup {Nil}]
      /\ races' = races
  <2>1. /\ request' = [c \in Client |->
                        IF c = client \/ Voids(request[client], request[c]) THEN Nil ELSE request[c]]
        /\ races' = races
    BY DEF Commit
  <2> QED BY <2>1 DEF IndInv, TypeOK
<1>3. races = 0 => Pending' = {}
  <2>1. races = 0 => \A other \in Client \ {client} : request[other] = Nil
    BY <1>1 DEF IndInv, PendingIsLegal, Pending
  <2> QED BY <1>2, <2>1 DEF Pending
<1>4. PendingIsLegal'
  BY <1>2, <1>3 DEF PendingIsLegal
<1>5. races = 0 => Legal(request[client])
  BY <1>1 DEF IndInv, PendingIsLegal
<1>6. request[client].op = "update" => request[client].read # Nil
  BY DEF Commit
<1>7. contested' \subseteq Row
  BY ContestedRows DEF IndInv
<1> QED BY <1>1, <1>2, <1>3, <1>4, <1>5, <1>6, <1>7

(* A node is added, or deleted when nothing refers to it. *)
LEMMA WriteNodeStep ==
  ASSUME IndInv, NEW client \in Client, Commit(client),
         request[client].table = "nodes", WriteNode(request[client])
  PROVE  IndInv'
<1> DEFINE write == request[client]
<1>1. /\ write \in Write
      /\ races = 0 => Legal(write)
      /\ request' \in [Client -> Write \cup {Nil}]
      /\ races' = races /\ contested' \subseteq Row
      /\ PendingIsLegal'
  BY CommitStart
<1>2. write.op \in {"add", "delete"} /\ write.node \in Node
  BY <1>1 DEF Write, RowWrite
<1>3. /\ nodes' = IF write.op = "add" THEN nodes \cup {write.node} ELSE nodes \ {write.node}
      /\ UNCHANGED <<attributes, relationships, bindings, catalog>>
  BY DEF WriteNode
<1> HIDE DEF write
<1>4. TypeOK'
  BY <1>1, <1>2, <1>3 DEF IndInv, TypeOK
<1>5. NothingDangles'
  <2> SUFFICES ASSUME races = 0 PROVE NothingDangles'
    BY <1>1 DEF NothingDangles
  <2>1. CASE write.op = "add"
    BY <1>2, <1>3, <2>1 DEF IndInv, NothingDangles, Related, Taken, Placed
  <2>2. CASE write.op = "delete"
    <3>1. NodeIsFree(write.node) /\ nodes' = nodes \ {write.node}
      BY <1>1, <1>3, <2>2, request[client].table = "nodes" DEF Legal, write
    <3>2. \A a \in attributes : a[1] \in Node /\ a[2] \in Key /\ a = <<a[1], a[2]>>
      BY DEF IndInv, TypeOK
    <3>3. \A a \in attributes' : a[1] \in nodes'
      BY <1>3, <3>1, <3>2 DEF IndInv, NothingDangles, NodeIsFree
    <3>4. (\A r \in Related : {relationships[r].source, relationships[r].target} \subseteq nodes)'
      BY <1>3, <3>1 DEF IndInv, NothingDangles, NodeIsFree, Related
    <3>5. (\A b \in Taken : <<bindings[b].node, bindings[b].key>> \in attributes)'
      BY <1>3 DEF IndInv, NothingDangles, Taken
    <3>6. (\A c \in Placed : catalog[c].target \in nodes \cup {Folder})'
      BY <1>3, <3>1 DEF IndInv, NothingDangles, NodeIsFree, Placed
    <3> QED BY <3>3, <3>4, <3>5, <3>6 DEF NothingDangles
  <2> QED BY <1>2, <2>1, <2>2
<1> QED BY <1>1, <1>4, <1>5 DEF IndInv

(* An attribute is added to a node that exists, or deleted when no binding  *)
(* refers to it.                                                           *)
LEMMA WriteAttributeStep ==
  ASSUME IndInv, NEW client \in Client, Commit(client),
         request[client].table = "attributes", WriteAttribute(request[client])
  PROVE  IndInv'
<1> DEFINE write == request[client]
<1>1. /\ write \in Write
      /\ races = 0 => Legal(write)
      /\ request' \in [Client -> Write \cup {Nil}]
      /\ races' = races /\ contested' \subseteq Row
      /\ PendingIsLegal'
  BY CommitStart
<1>2. write.op \in {"add", "delete"} /\ write.attribute \in Node \X Key
  BY <1>1 DEF Write, RowWrite
<1>3. /\ attributes' = IF write.op = "add" THEN attributes \cup {write.attribute}
                       ELSE attributes \ {write.attribute}
      /\ UNCHANGED <<nodes, relationships, bindings, catalog>>
  BY DEF WriteAttribute
<1>4. races = 0 => IF write.op = "add" THEN write.attribute[1] \in nodes
                   ELSE AttributeIsFree(write.attribute[1], write.attribute[2])
  BY <1>1 DEF Legal
<1> HIDE DEF write
<1>5. TypeOK'
  BY <1>1, <1>2, <1>3 DEF IndInv, TypeOK
<1>6. NothingDangles'
  <2> SUFFICES ASSUME races = 0 PROVE NothingDangles'
    BY <1>1 DEF NothingDangles
  <2>1. \A a \in attributes' : a[1] \in nodes'
    BY <1>2, <1>3, <1>4 DEF IndInv, NothingDangles
  <2>2. (\A r \in Related : {relationships[r].source, relationships[r].target} \subseteq nodes)'
    BY <1>3 DEF IndInv, NothingDangles, Related
  <2>3. (\A b \in Taken : <<bindings[b].node, bindings[b].key>> \in attributes)'
    BY <1>2, <1>3, <1>4 DEF IndInv, NothingDangles, AttributeIsFree, Taken
  <2>4. (\A c \in Placed : catalog[c].target \in nodes \cup {Folder})'
    BY <1>3 DEF IndInv, NothingDangles, Placed
  <2> QED BY <2>1, <2>2, <2>3, <2>4 DEF NothingDangles
<1> QED BY <1>1, <1>5, <1>6 DEF IndInv

(* A relationship is added or changed between nodes that exist, or deleted. *)
LEMMA WriteRelationshipStep ==
  ASSUME IndInv, NEW client \in Client, Commit(client),
         request[client].table = "relationships", WriteRelationship(request[client])
  PROVE  IndInv'
<1> DEFINE write == request[client]
<1> DEFINE new == Written(relationships[write.code], write)
<1>1. /\ write \in Write
      /\ races = 0 => Legal(write)
      /\ write.op = "update" => write.read # Nil
      /\ request' \in [Client -> Write \cup {Nil}]
      /\ races' = races /\ contested' \subseteq Row
      /\ PendingIsLegal'
  BY CommitStart
<1>2. /\ write.op \in {"add", "update", "delete"}
      /\ write.code \in Relationship
      /\ write.op # "delete" => write.row \in Ends
      /\ write.op = "update" => write.read \in Ends
  BY <1>1 DEF Write, RowWrite
<1>3. /\ relationships' = [relationships EXCEPT ![write.code] = new]
      /\ UNCHANGED <<nodes, attributes, bindings, catalog>>
  BY DEF WriteRelationship
<1>4. /\ relationships[write.code] \in Ends \cup {Nil}
      /\ Nil \notin Ends
  BY <1>2, NilAssumption DEF IndInv, TypeOK
<1>5. /\ new \in Ends \cup {Nil}
      /\ \/ new \in {relationships[write.code], Nil}
         \/ write.op # "delete" /\ new = write.row
         \/ write.op = "update" /\ write.read # relationships[write.code]
  BY <1>2, <1>4, WrittenRow, FlushedEnds
<1>6. races = 0 /\ write.op # "delete" =>
        /\ {write.row.source, write.row.target} \subseteq nodes
        /\ write.op = "update" => write.read = relationships[write.code]
  BY <1>1 DEF Legal
<1> HIDE DEF write, new
<1>7. TypeOK'
  BY <1>1, <1>2, <1>3, <1>5 DEF IndInv, TypeOK
<1>8. NothingDangles'
  <2> SUFFICES ASSUME races = 0 PROVE NothingDangles'
    BY <1>1 DEF NothingDangles
  <2>1. \A r \in Relationship : relationships'[r] =
          IF r = write.code THEN new ELSE relationships[r]
    BY <1>2, <1>3 DEF IndInv, TypeOK
  <2>2. new = Nil \/ {new.source, new.target} \subseteq nodes
    BY <1>2, <1>5, <1>6 DEF IndInv, NothingDangles, Related
  <2>3. (\A r \in Related : {relationships[r].source, relationships[r].target} \subseteq nodes)'
    BY <1>3, <2>1, <2>2 DEF IndInv, NothingDangles, Related
  <2> QED BY <1>3, <2>3 DEF IndInv, NothingDangles, Taken, Placed
<1> QED BY <1>1, <1>7, <1>8 DEF IndInv

(* A binding is added or changed for an attribute that exists, or deleted,  *)
(* unless a unique constraint rolls the write back.                        *)
LEMMA WriteBindingStep ==
  ASSUME IndInv, NEW client \in Client, Commit(client),
         request[client].table = "bindings", WriteBinding(request[client])
  PROVE  IndInv'
<1> DEFINE write == request[client]
<1> DEFINE new == Written(bindings[write.code], write)
<1> DEFINE table == [bindings EXCEPT ![write.code] = new]
<1>1. /\ write \in Write
      /\ races = 0 => Legal(write)
      /\ write.op = "update" => write.read # Nil
      /\ request' \in [Client -> Write \cup {Nil}]
      /\ races' = races /\ contested' \subseteq Row
      /\ PendingIsLegal'
  BY CommitStart
<1>2. /\ write.op \in {"add", "update", "delete"}
      /\ write.code \in Binding
      /\ write.op # "delete" => write.row \in Bound
      /\ write.op = "update" => write.read \in Bound
  BY <1>1 DEF Write, RowWrite
<1>3. /\ bindings' = IF OneToOne(table) THEN table ELSE bindings
      /\ UNCHANGED <<nodes, attributes, relationships, catalog>>
  BY DEF WriteBinding
<1>4. /\ bindings[write.code] \in Bound \cup {Nil}
      /\ Nil \notin Bound
  BY <1>2, NilAssumption DEF IndInv, TypeOK
<1>5. /\ new \in Bound \cup {Nil}
      /\ \/ new \in {bindings[write.code], Nil}
         \/ write.op # "delete" /\ new = write.row
         \/ write.op = "update" /\ write.read # bindings[write.code]
  BY <1>2, <1>4, WrittenRow, FlushedBound
<1>6. races = 0 /\ write.op # "delete" =>
        /\ <<write.row.node, write.row.key>> \in attributes
        /\ write.op = "update" => write.read = bindings[write.code]
  BY <1>1 DEF Legal
<1> HIDE DEF write, new
<1>7. bindings' \in [Binding -> Bound \cup {Nil}]
  BY <1>2, <1>3, <1>5 DEF IndInv, TypeOK
<1>8. TypeOK'
  BY <1>1, <1>3, <1>7 DEF IndInv, TypeOK
<1>10. NothingDangles'
  <2> SUFFICES ASSUME races = 0 PROVE NothingDangles'
    BY <1>1 DEF NothingDangles
  <2>1. \A b \in Binding : bindings'[b] \in {bindings[b], IF b = write.code THEN new ELSE bindings[b]}
    BY <1>2, <1>3 DEF IndInv, TypeOK
  <2>2. new = Nil \/ <<new.node, new.key>> \in attributes
    BY <1>2, <1>5, <1>6 DEF IndInv, NothingDangles, Taken
  <2>3. (\A b \in Taken : <<bindings[b].node, bindings[b].key>> \in attributes)'
    BY <1>3, <2>1, <2>2 DEF IndInv, NothingDangles, Taken
  <2> QED BY <1>3, <2>3 DEF IndInv, NothingDangles, Related, Placed
<1> QED BY <1>1, <1>8, <1>10 DEF IndInv

(* A catalog node is added, changed or moved with a target that exists, or  *)
(* deleted.                                                                *)
LEMMA WriteCatalogNodeStep ==
  ASSUME IndInv, NEW client \in Client, Commit(client),
         request[client].table = "catalog", WriteCatalogNode(request[client])
  PROVE  IndInv'
<1> DEFINE write == request[client]
<1> DEFINE new == Written(catalog[write.code], write)
<1>1. /\ write \in Write
      /\ races = 0 => Legal(write)
      /\ write.op = "update" => write.read # Nil
      /\ request' \in [Client -> Write \cup {Nil}]
      /\ races' = races /\ contested' \subseteq Row
      /\ PendingIsLegal'
  BY CommitStart
<1>2. /\ write.op \in {"add", "update", "delete"}
      /\ write.code \in CatalogNode
      /\ write.op # "delete" => write.row \in Place
      /\ write.op = "update" => write.read \in Place
  BY <1>1 DEF Write, RowWrite
<1>3. /\ catalog' = [catalog EXCEPT ![write.code] = new]
      /\ UNCHANGED <<nodes, attributes, relationships, bindings>>
  BY DEF WriteCatalogNode
<1>4. /\ catalog[write.code] \in Place \cup {Nil}
      /\ Nil \notin Place
  BY <1>2, NilAssumption DEF IndInv, TypeOK
<1>5. /\ new \in Place \cup {Nil}
      /\ \/ new \in {catalog[write.code], Nil}
         \/ write.op # "delete" /\ new = write.row
         \/ write.op = "update" /\ write.read # catalog[write.code]
  BY <1>2, <1>4, WrittenRow, FlushedPlace
<1>6. races = 0 /\ write.op # "delete" =>
        /\ write.row.target \in nodes \cup {Folder}
        /\ write.op = "update" => write.read = catalog[write.code]
  BY <1>1 DEF Legal
<1> HIDE DEF write, new
<1>7. TypeOK'
  BY <1>1, <1>2, <1>3, <1>5 DEF IndInv, TypeOK
<1>8. NothingDangles'
  <2> SUFFICES ASSUME races = 0 PROVE NothingDangles'
    BY <1>1 DEF NothingDangles
  <2>1. \A c \in CatalogNode : catalog'[c] = IF c = write.code THEN new ELSE catalog[c]
    BY <1>2, <1>3 DEF IndInv, TypeOK
  <2>2. new = Nil \/ new.target \in nodes \cup {Folder}
    BY <1>2, <1>5, <1>6 DEF IndInv, NothingDangles, Placed
  <2>3. (\A c \in Placed : catalog[c].target \in nodes \cup {Folder})'
    BY <1>3, <2>1, <2>2 DEF IndInv, NothingDangles, Placed
  <2> QED BY <1>3, <2>3 DEF IndInv, NothingDangles, Related, Taken
<1> QED BY <1>1, <1>7, <1>8 DEF IndInv

(* Whatever the interleaving, IndInv holds: the tables and the pending       *)
(* writes are typed, and sound until two requests overlap.                 *)
THEOREM Invariance == Spec => []IndInv
<1>1. Init => IndInv
  <2> SUFFICES ASSUME Init PROVE IndInv
    OBVIOUS
  <2>1. TypeOK
    BY DEF Init, TypeOK
  <2>2. NothingDangles /\ PendingIsLegal
    BY DEF Init, NothingDangles, PendingIsLegal, Pending, Related, Taken, Placed
  <2> QED BY <2>1, <2>2 DEF IndInv
<1>2. IndInv /\ [Next]_vars => IndInv'
  <2> SUFFICES ASSUME IndInv, [Next]_vars PROVE IndInv'
    OBVIOUS
  <2> USE DEF Write, RowWrite
  <2>1. ASSUME NEW client \in Client, CreateNode(client) PROVE IndInv'
    <3>1. PICK n \in Node \ nodes :
            Begin(client, [table |-> "nodes", op |-> "add", node |-> n])
      BY <2>1 DEF CreateNode
    <3>2. Legal([table |-> "nodes", op |-> "add", node |-> n])
      BY DEF Legal
    <3> QED BY <3>1, <3>2, BeginStep
  <2>2. ASSUME NEW client \in Client, DeleteNode(client) PROVE IndInv'
    <3>1. PICK n \in nodes :
            NodeIsFree(n) /\ Begin(client, [table |-> "nodes", op |-> "delete", node |-> n])
      BY <2>2 DEF DeleteNode
    <3>2. n \in Node
      BY DEF IndInv, TypeOK
    <3>3. Legal([table |-> "nodes", op |-> "delete", node |-> n])
      BY <3>1 DEF Legal
    <3> QED BY <3>1, <3>2, <3>3, BeginStep
  <2>3. ASSUME NEW client \in Client, CreateAttribute(client) PROVE IndInv'
    <3>1. PICK n \in nodes, k \in Key :
            Begin(client, [table |-> "attributes", op |-> "add", attribute |-> <<n, k>>])
      BY <2>3 DEF CreateAttribute
    <3>2. n \in Node
      BY DEF IndInv, TypeOK
    <3>3. Legal([table |-> "attributes", op |-> "add", attribute |-> <<n, k>>])
      BY DEF Legal
    <3> QED BY <3>1, <3>2, <3>3, BeginStep
  <2>4. ASSUME NEW client \in Client, DeleteAttribute(client) PROVE IndInv'
    <3>1. PICK n \in Node, k \in Key :
            /\ AttributeIsFree(n, k)
            /\ Begin(client, [table |-> "attributes", op |-> "delete", attribute |-> <<n, k>>])
      BY <2>4 DEF DeleteAttribute
    <3>2. Legal([table |-> "attributes", op |-> "delete", attribute |-> <<n, k>>])
      BY <3>1 DEF Legal
    <3> QED BY <3>1, <3>2, BeginStep
  <2>5. ASSUME NEW client \in Client, CreateRelationship(client) PROVE IndInv'
    <3>1. PICK r \in Relationship, source \in nodes, target \in nodes :
            Begin(client, [ table |-> "relationships", op |-> "add", code |-> r,
                            row |-> [source |-> source, target |-> target] ])
      BY <2>5 DEF CreateRelationship
    <3>2. [source |-> source, target |-> target] \in Ends
      BY DEF IndInv, TypeOK, Ends
    <3>3. Legal([ table |-> "relationships", op |-> "add", code |-> r,
                  row |-> [source |-> source, target |-> target] ])
      BY DEF Legal
    <3> QED BY <3>1, <3>2, <3>3, BeginStep
  <2>6. ASSUME NEW client \in Client, UpdateRelationship(client) PROVE IndInv'
    <3>1. PICK r \in Related, source \in nodes, target \in nodes :
            Begin(client, [ table |-> "relationships", op |-> "update", code |-> r,
                            row |-> [source |-> source, target |-> target], read |-> Nil ])
      BY <2>6 DEF UpdateRelationship
    <3>2. /\ r \in Relationship
          /\ relationships[r] \in Ends
          /\ [source |-> source, target |-> target] \in Ends
      BY DEF IndInv, TypeOK, Ends, Related
    <3>3. Legal([ table |-> "relationships", op |-> "update", code |-> r,
                  row |-> [source |-> source, target |-> target], read |-> Nil ])
      BY DEF Legal
    <3> QED BY <3>1, <3>2, <3>3, BeginStep
  <2>7. ASSUME NEW client \in Client, DeleteRelationship(client) PROVE IndInv'
    <3>1. PICK r \in Relationship :
            Begin(client, [table |-> "relationships", op |-> "delete", code |-> r])
      BY <2>7 DEF DeleteRelationship, Related
    <3>2. Legal([table |-> "relationships", op |-> "delete", code |-> r])
      BY DEF Legal
    <3> QED BY <3>1, <3>2, BeginStep
  <2>8. ASSUME NEW client \in Client, CreateBinding(client) PROVE IndInv'
    <3>1. PICK b \in Binding, row \in Bound :
            /\ <<row.node, row.key>> \in attributes
            /\ Begin(client, [table |-> "bindings", op |-> "add", code |-> b, row |-> row])
      BY <2>8 DEF CreateBinding
    <3>2. Legal([table |-> "bindings", op |-> "add", code |-> b, row |-> row])
      BY <3>1 DEF Legal
    <3> QED BY <3>1, <3>2, BeginStep
  <2>9. ASSUME NEW client \in Client, UpdateBinding(client) PROVE IndInv'
    <3>1. PICK b \in Taken, row \in Bound :
            /\ <<row.node, row.key>> \in attributes
            /\ Begin(client, [ table |-> "bindings", op |-> "update", code |-> b,
                               row |-> row, read |-> Nil ])
      BY <2>9 DEF UpdateBinding
    <3>2. b \in Binding /\ bindings[b] \in Bound
      BY DEF IndInv, TypeOK, Taken
    <3>3. Legal([ table |-> "bindings", op |-> "update", code |-> b,
                  row |-> row, read |-> Nil ])
      BY <3>1 DEF Legal
    <3> QED BY <3>1, <3>2, <3>3, BeginStep
  <2>10. ASSUME NEW client \in Client, DeleteBinding(client) PROVE IndInv'
    <3>1. PICK b \in Binding :
            Begin(client, [table |-> "bindings", op |-> "delete", code |-> b])
      BY <2>10 DEF DeleteBinding, Taken
    <3>2. Legal([table |-> "bindings", op |-> "delete", code |-> b])
      BY DEF Legal
    <3> QED BY <3>1, <3>2, BeginStep
  <2>11. ASSUME NEW client \in Client, CreateCatalogNode(client) PROVE IndInv'
    <3>1. PICK c \in CatalogNode, parent \in Placed \cup {Root}, target \in nodes \cup {Folder} :
            Begin(client, [ table |-> "catalog", op |-> "add", code |-> c,
                            row |-> [parent |-> parent, target |-> target] ])
      BY <2>11 DEF CreateCatalogNode
    <3>2. [parent |-> parent, target |-> target] \in Place
      BY DEF IndInv, TypeOK, Place, Placed
    <3>3. Legal([ table |-> "catalog", op |-> "add", code |-> c,
                  row |-> [parent |-> parent, target |-> target] ])
      BY DEF Legal
    <3> QED BY <3>1, <3>2, <3>3, BeginStep
  <2>12. ASSUME NEW client \in Client, UpdateCatalogNode(client) PROVE IndInv'
    <3>1. PICK c \in Placed, target \in nodes \cup {Folder} :
            Begin(client, [ table |-> "catalog", op |-> "update", code |-> c,
                            row |-> [catalog[c] EXCEPT !.target = target], read |-> Nil ])
      BY <2>12 DEF UpdateCatalogNode
    <3> DEFINE row == [catalog[c] EXCEPT !.target = target]
    <3>2. c \in CatalogNode /\ catalog[c] \in Place
      BY DEF IndInv, TypeOK, Placed
    <3>3. row \in Place /\ row.target = target
      <4>1. target \in Node \cup {Folder}
        BY DEF IndInv, TypeOK
      <4> QED BY <3>2, <4>1 DEF Place
    <3> HIDE DEF row
    <3>4. Legal([ table |-> "catalog", op |-> "update", code |-> c,
                  row |-> row, read |-> Nil ])
      BY <3>3 DEF Legal
    <3> QED BY <3>1, <3>2, <3>3, <3>4, BeginStep DEF row
  <2>13. ASSUME NEW client \in Client, MoveCatalogNode(client) PROVE IndInv'
    <3>1. PICK c \in Placed, parent \in CatalogNode \cup {Root} :
            Begin(client, [ table |-> "catalog", op |-> "update", code |-> c,
                            row |-> [catalog[c] EXCEPT !.parent = parent], read |-> Nil ])
      BY <2>13 DEF MoveCatalogNode
    <3> DEFINE row == [catalog[c] EXCEPT !.parent = parent]
    <3>2. c \in CatalogNode /\ catalog[c] \in Place
      BY DEF IndInv, TypeOK, Placed
    <3>3. row \in Place /\ row.target = catalog[c].target
      BY <3>2 DEF Place
    <3> HIDE DEF row
    <3>4. races' = 0 => races = 0
      BY <3>1 DEF Begin, IndInv, TypeOK
    <3>5. races' = 0 => catalog[c].target \in nodes \cup {Folder}
      BY <3>4 DEF IndInv, NothingDangles
    <3>6. races' = 0 => Legal([ table |-> "catalog", op |-> "update", code |-> c,
                                row |-> row, read |-> Nil ])
      BY <3>3, <3>5 DEF Legal
    <3> QED BY <3>1, <3>2, <3>3, <3>6, BeginStep DEF row
  <2>14. ASSUME NEW client \in Client, DeleteCatalogNode(client) PROVE IndInv'
    <3>1. PICK c \in CatalogNode :
            Begin(client, [table |-> "catalog", op |-> "delete", code |-> c])
      BY <2>14 DEF DeleteCatalogNode, Placed
    <3>2. Legal([table |-> "catalog", op |-> "delete", code |-> c])
      BY DEF Legal
    <3> QED BY <3>1, <3>2, BeginStep
  <2>15. ASSUME NEW client \in Client, Commit(client) PROVE IndInv'
    BY <2>15, WriteNodeStep, WriteAttributeStep, WriteRelationshipStep,
       WriteBindingStep, WriteCatalogNodeStep DEF Commit
  <2>16. ASSUME NEW client \in Client, Select(client) PROVE IndInv'
    BY <2>16, SelectStep
  <2>17. ASSUME NEW client \in Client, Rollback(client) PROVE IndInv'
    BY <2>17, RollbackStep
  <2>18. CASE UNCHANGED vars
    <3>1. UNCHANGED graph /\ request' = request /\ races' = races /\ contested' = contested
      BY <2>18 DEF vars
    <3>2. TypeOK' /\ NothingDangles'
      BY <3>1 DEF graph, IndInv, TypeOK, NothingDangles,
         Related, Taken, Placed
    <3>3. Pending' = Pending
      BY <3>1 DEF Pending
    <3>4. \A client \in Client : Legal(request[client])' <=> Legal(request[client])
      BY <3>1 DEF graph, Legal, NodeIsFree, AttributeIsFree, Related, Taken, Placed
    <3>5. PendingIsLegal'
      BY <3>1, <3>3, <3>4 DEF IndInv, PendingIsLegal, Pending
    <3> QED BY <3>2, <3>5 DEF IndInv
  <2> QED
    BY <2>1, <2>2, <2>3, <2>4, <2>5, <2>6, <2>7, <2>8, <2>9, <2>10, <2>11, <2>12,
       <2>13, <2>14, <2>15, <2>16, <2>17, <2>18
    DEF Next, NodeRequests, AttributeRequests, RelationshipRequests, BindingRequests,
        CatalogRequests
<1> QED BY <1>1, <1>2, PTL DEF Spec

(* The tables and the requests under way have their types. *)
THEOREM TypeCorrect == Spec => []TypeOK
BY Invariance, PTL DEF IndInv

(* The delete and create guards of the use cases are enough while requests  *)
(* come one at a time: no sequence of them leaves a reference to nothing.  *)
THEOREM ReferencesHold == Spec => []NothingDangles
BY Invariance, PTL DEF IndInv

-----------------------------------------------------------------------------
(* What dangles was contested.                                             *)

(* What rows refer to, and what pending writes are about to refer to, exists *)
(* or was contested; so was what a pending delete takes away though a row   *)
(* refers to it.                                                           *)
ContestsKept ==
  /\ DanglingWasContested
  /\ \A client \in Pending :
       /\ Names(request[client]) \subseteq Existing \cup contested
       /\ Removes(request[client]) \cap Named \subseteq contested

(* A request begins with names that exist and with a delete of what nothing *)
(* refers to.                                                              *)
LEMMA BeginKeepsContests ==
  ASSUME TypeOK, ContestsKept, NEW client \in Client, NEW write, Begin(client, write),
         Names(write) \subseteq Existing \cup contested, Removes(write) \cap Named = {}
  PROVE  ContestsKept'
<1>1. /\ UNCHANGED graph /\ contested' = contested
      /\ \A other \in Client : request'[other] = IF other = client THEN write ELSE request[other]
  BY DEF Begin, TypeOK
<1>2. Named' = Named /\ Existing' = Existing
  BY <1>1 DEF Named, Existing, graph, Related, Taken, Placed
<1>3. \A other \in Pending' : other = client \/ other \in Pending
  BY <1>1 DEF Pending
<1>4. ASSUME NEW other \in Pending'
      PROVE  /\ Names(request'[other]) \subseteq Existing \cup contested
             /\ Removes(request'[other]) \cap Named \subseteq contested
  BY <1>1, <1>3, <1>4 DEF ContestsKept, Pending
<1> QED BY <1>1, <1>2, <1>4 DEF ContestsKept, DanglingWasContested, Pending

(* A flush mixes no column of its own into a row: each is the old one or the *)
(* written one.                                                            *)
LEMMA FlushedColumns ==
  ASSUME NEW row, NEW read, NEW new
  PROVE  \A column \in DOMAIN row : Flushed(row, read, new)[column] \in {row[column], new[column]}
BY DEF Flushed

(* A commit makes the rows refer to nothing but what they referred to, what  *)
(* the write names, and the half-written attribute of a binding.           *)
LEMMA CommitNames ==
  ASSUME TypeOK, NEW client \in Client, Commit(client)
  PROVE  Named' \subseteq Named \cup Names(request[client]) \cup Mixed(request[client])
<1> DEFINE write == request[client]
<1>1. /\ write \in Write /\ Nil \notin Ends \cup Bound \cup Place
      /\ write.op = "update" => write.read # Nil
  BY NilAssumption DEF Commit, TypeOK
<1> SUFFICES ASSUME NEW x \in Named', x \notin Named, x \notin Mixed(write)
             PROVE  x \in Names(write)
  OBVIOUS
<1>2. CASE write.table = "nodes" /\ WriteNode(write)
  <2>1. Named' = Named
    BY <1>2 DEF WriteNode, Named, Related, Taken, Placed
  <2> QED BY <2>1
<1>3. CASE write.table = "attributes" /\ WriteAttribute(write)
  <2>1. /\ Related' = Related /\ Taken' = Taken /\ Placed' = Placed
        /\ UNCHANGED <<relationships, bindings, catalog>>
    BY <1>3 DEF WriteAttribute, Related, Taken, Placed
  <2>2. write.op \in {"add", "delete"}
    BY <1>1, <1>3 DEF Write, RowWrite
  <2>3. PICK a \in attributes' : x = <<"nodes", a[1]>>
    BY <2>1 DEF Named
  <2>4. a \notin attributes
    BY <2>3 DEF Named
  <2>5. write.op = "add" /\ a = write.attribute
    BY <1>3, <2>2, <2>3, <2>4 DEF WriteAttribute
  <2> QED BY <1>3, <2>3, <2>5 DEF Names
<1>4. CASE write.table = "relationships" /\ WriteRelationship(write)
  <2>1. /\ Taken' = Taken /\ Placed' = Placed
        /\ UNCHANGED <<attributes, bindings, catalog>>
    BY <1>4 DEF WriteRelationship, Taken, Placed
  <2>2. PICK r \in Related' : x \in EndsOf(relationships'[r])
    BY <2>1 DEF Named
  <2>3. r \notin Related \/ x \notin EndsOf(relationships[r])
    BY DEF Named
  <2>4. r = write.code /\ relationships'[r] = Written(relationships[r], write)
    BY <1>4, <2>2, <2>3 DEF WriteRelationship, TypeOK, Related
  <2>5. /\ write.op \in {"add", "update", "delete"}
        /\ write.op # "delete" => write.row \in Ends
        /\ relationships[r] \in Ends \cup {Nil}
    BY <1>1, <1>4, <2>2 DEF Write, RowWrite, TypeOK, Related
  <2>6. Written(relationships[r], write) # Nil
    BY <2>2, <2>4 DEF Related
  <2>7. write.op # "delete" /\ x \in EndsOf(write.row)
    <3>1. CASE write.op = "add"
      BY <2>2, <2>3, <2>4, <2>5, <2>6, <3>1 DEF Written, Related
    <3>2. CASE write.op = "update"
      <4>1. /\ relationships[r] \in Ends /\ r \in Related
            /\ relationships'[r] = Flushed(relationships[r], write.read, write.row)
        BY <2>2, <2>4, <2>5, <2>6, <3>2 DEF Written, Related
      <4>2. \A column \in {"source", "target"} :
              relationships'[r][column] \in {relationships[r][column], write.row[column]}
        BY <4>1, FlushedColumns DEF Ends
      <4>3. /\ relationships'[r].source \in {relationships[r].source, write.row.source}
            /\ relationships'[r].target \in {relationships[r].target, write.row.target}
        BY <4>2
      <4> QED BY <2>2, <2>3, <3>2, <4>1, <4>3 DEF EndsOf
    <3> QED BY <2>5, <2>6, <3>1, <3>2 DEF Written
  <2> QED BY <1>4, <2>7 DEF Names
<1>5. CASE write.table = "bindings" /\ WriteBinding(write)
  <2>1. /\ Related' = Related /\ Placed' = Placed
        /\ UNCHANGED <<attributes, relationships, catalog>>
    BY <1>5 DEF WriteBinding, Related, Placed
  <2>2. PICK b \in Taken' : x \in AttributeOf(bindings'[b])
    BY <2>1 DEF Named
  <2>3. b \notin Taken \/ x \notin AttributeOf(bindings[b])
    BY DEF Named
  <2>4. b = write.code /\ bindings'[b] = Written(bindings[b], write)
    BY <1>5, <2>2, <2>3 DEF WriteBinding, TypeOK, Taken
  <2>5. /\ write.op \in {"add", "update", "delete"}
        /\ write.op # "delete" => write.row \in Bound
        /\ write.op = "update" => write.read \in Bound
        /\ bindings[b] \in Bound \cup {Nil}
    BY <1>1, <1>5, <2>2 DEF Write, RowWrite, TypeOK, Taken
  <2>6. Written(bindings[b], write) # Nil
    BY <2>2, <2>4 DEF Taken
  <2>7. write.op # "delete" /\ x \in AttributeOf(write.row)
    <3>1. CASE write.op = "add"
      BY <2>2, <2>3, <2>4, <2>5, <2>6, <3>1 DEF Written, Taken
    <3>2. CASE write.op = "update"
      <4>1. /\ bindings[b] \in Bound /\ b \in Taken
            /\ bindings'[b] = Flushed(bindings[b], write.read, write.row)
        BY <2>2, <2>4, <2>5, <2>6, <3>2 DEF Written, Taken
      <4>2. CASE bindings[b] = write.read
        BY <2>2, <2>5, <3>2, <4>1, <4>2, FlushedBound
      <4>3. CASE bindings[b] # write.read
        <5>1. bindings[write.code] \notin {Nil, write.read}
          BY <1>1, <2>4, <4>1, <4>3
        <5>2. Mixed(write) = AttributeOf(bindings'[b])
                \ (AttributeOf(bindings[b]) \cup AttributeOf(write.row))
          BY <1>5, <2>4, <3>2, <5>1 DEF Mixed
        <5> QED BY <2>2, <2>3, <3>2, <4>1, <5>2
      <4> QED BY <4>2, <4>3
    <3> QED BY <2>5, <2>6, <3>1, <3>2 DEF Written
  <2> QED BY <1>5, <2>7 DEF Names
<1>6. CASE write.table = "catalog" /\ WriteCatalogNode(write)
  <2>1. /\ Related' = Related /\ Taken' = Taken
        /\ UNCHANGED <<attributes, relationships, bindings>>
    BY <1>6 DEF WriteCatalogNode, Related, Taken
  <2>2. PICK c \in Placed' : x \in PlaceOf(catalog'[c])
    BY <2>1 DEF Named
  <2>3. c \notin Placed \/ x \notin PlaceOf(catalog[c])
    BY DEF Named
  <2>4. c = write.code /\ catalog'[c] = Written(catalog[c], write)
    BY <1>6, <2>2, <2>3 DEF WriteCatalogNode, TypeOK, Placed
  <2>5. /\ write.op \in {"add", "update", "delete"}
        /\ write.op # "delete" => write.row \in Place
        /\ catalog[c] \in Place \cup {Nil}
    BY <1>1, <1>6, <2>2 DEF Write, RowWrite, TypeOK, Placed
  <2>6. Written(catalog[c], write) # Nil
    BY <2>2, <2>4 DEF Placed
  <2>7. write.op # "delete" /\ x \in PlaceOf(write.row)
    <3>1. CASE write.op = "add"
      BY <2>2, <2>3, <2>4, <2>5, <2>6, <3>1 DEF Written, Placed
    <3>2. CASE write.op = "update"
      <4>1. /\ catalog[c] \in Place /\ c \in Placed
            /\ catalog'[c] = Flushed(catalog[c], write.read, write.row)
        BY <2>2, <2>4, <2>5, <2>6, <3>2 DEF Written, Placed
      <4>2. \A column \in {"target", "parent"} :
              catalog'[c][column] \in {catalog[c][column], write.row[column]}
        BY <4>1, FlushedColumns DEF Place
      <4>3. /\ catalog'[c].target \in {catalog[c].target, write.row.target}
            /\ catalog'[c].parent \in {catalog[c].parent, write.row.parent}
        BY <4>2
      <4> QED BY <2>2, <2>3, <3>2, <4>1, <4>3 DEF PlaceOf
    <3> QED BY <2>5, <2>6, <3>1, <3>2 DEF Written
  <2> QED BY <1>6, <2>7 DEF Names
<1> QED BY <1>2, <1>3, <1>4, <1>5, <1>6 DEF Commit

(* A commit takes away nothing but what its write removes, and a write that  *)
(* removes makes no row refer to anything new.                             *)
LEMMA CommitRemoves ==
  ASSUME TypeOK, NEW client \in Client, Commit(client)
  PROVE  /\ Existing \subseteq Existing' \cup Removes(request[client])
         /\ Removes(request[client]) # {} =>
              Names(request[client]) = {} /\ Mixed(request[client]) = {}
<1> DEFINE write == request[client]
<1>1. /\ write \in Write /\ Nil \notin Ends \cup Bound \cup Place
      /\ write.op = "update" => write.read # Nil
  BY NilAssumption DEF Commit, TypeOK
<1>2. Removes(write) # {} => Names(write) = {} /\ Mixed(write) = {}
  BY DEF Removes, Names, Mixed
<1>3. nodes \subseteq nodes' \cup {n \in nodes : <<"nodes", n>> \in Removes(write)}
  <2>1. CASE write.table = "nodes"
    <3>1. write.op \in {"add", "delete"} /\ WriteNode(write)
      BY <1>1, <2>1 DEF Write, RowWrite, Commit
    <3> QED BY <2>1, <3>1 DEF WriteNode, Removes
  <2>2. CASE write.table # "nodes"
    BY <2>2 DEF Commit, WriteAttribute, WriteRelationship, WriteBinding, WriteCatalogNode
  <2> QED BY <2>1, <2>2
<1>4. attributes \subseteq attributes' \cup {a \in attributes : <<"attributes", a>> \in Removes(write)}
  <2>1. CASE write.table = "attributes"
    <3>1. write.op \in {"add", "delete"} /\ WriteAttribute(write)
      BY <1>1, <2>1 DEF Write, RowWrite, Commit
    <3> QED BY <2>1, <3>1 DEF WriteAttribute, Removes
  <2>2. CASE write.table # "attributes"
    BY <2>2 DEF Commit, WriteNode, WriteRelationship, WriteBinding, WriteCatalogNode
  <2> QED BY <2>1, <2>2
<1>5. Placed \subseteq Placed' \cup {c \in Placed : <<"catalog", c>> \in Removes(write)}
  <2>1. CASE write.table = "catalog"
    <3>1. WriteCatalogNode(write) /\ write.code \in CatalogNode
      BY <1>1, <2>1 DEF Write, RowWrite, Commit
    <3>2. /\ write.op \in {"add", "update", "delete"}
          /\ write.op # "delete" => write.row \in Place
          /\ write.op = "update" => write.read \in Place
      BY <1>1, <2>1 DEF Write, RowWrite
    <3>3. write.code \in Placed /\ write.op # "delete" => Written(catalog[write.code], write) # Nil
      <4> SUFFICES ASSUME write.code \in Placed, write.op # "delete"
                   PROVE  Written(catalog[write.code], write) # Nil
        OBVIOUS
      <4>1. catalog[write.code] \in Place
        BY DEF Placed, TypeOK
      <4> QED BY <1>1, <3>2, <4>1, FlushedPlace DEF Written
    <3>4. write.op = "delete" => <<"catalog", write.code>> \in Removes(write)
      BY <2>1 DEF Removes
    <3>5. \A c \in CatalogNode : catalog'[c] =
            IF c = write.code THEN Written(catalog[c], write) ELSE catalog[c]
      BY <3>1 DEF WriteCatalogNode, TypeOK
    <3> QED BY <3>3, <3>4, <3>5 DEF Placed
  <2>2. CASE write.table # "catalog"
    BY <2>2 DEF Commit, WriteNode, WriteAttribute, WriteRelationship, WriteBinding, Placed
  <2> QED BY <2>1, <2>2
<1>6. Existing \subseteq Existing' \cup Removes(write)
  BY <1>3, <1>4, <1>5 DEF Existing
<1> QED BY <1>2, <1>6

(* A commit loses a reference only to what it brings into contest. *)
LEMMA CommitKeepsContests ==
  ASSUME TypeOK, ContestsKept, NEW client \in Client, Commit(client)
  PROVE  ContestsKept'
<1> DEFINE write == request[client]
<1>1. /\ client \in Pending
      /\ contested' = contested \cup Contested(client)
      /\ \A other \in Client : request'[other] \in {request[other], Nil}
      /\ request'[client] = Nil
  <2>1. request' = [c \in Client |->
                      IF c = client \/ Voids(request[client], request[c]) THEN Nil ELSE request[c]]
    BY DEF Commit
  <2> QED BY <2>1 DEF Commit, Pending
<1>2. /\ Named' \subseteq Named \cup Names(write) \cup Mixed(write)
      /\ Existing \subseteq Existing' \cup Removes(write)
      /\ Removes(write) # {} => Names(write) = {} /\ Mixed(write) = {}
  BY CommitNames, CommitRemoves
<1>3. contested \subseteq contested' /\ Mixed(write) \subseteq contested'
  BY <1>1 DEF Contested
<1>4. ASSUME NEW other \in Pending \ {client}
      PROVE  /\ Names(write) \cap Removes(request[other]) \subseteq contested'
             /\ Removes(write) \cap Names(request[other]) \subseteq contested'
  <2>1. request[other] \in {request[c] : c \in {d \in Client \ {client} : request[d] # Nil}}
    BY DEF Pending
  <2>2. (Names(write) \cap Removes(request[other])) \cup (Removes(write) \cap Names(request[other]))
          \subseteq Contested(client)
    BY <2>1 DEF Contested
  <2> QED BY <1>1, <2>2
<1>5. /\ Named \subseteq Existing \cup contested
      /\ \A c \in Pending : /\ Names(request[c]) \subseteq Existing \cup contested
                           /\ Removes(request[c]) \cap Named \subseteq contested
  BY DEF ContestsKept, DanglingWasContested
<1>6. DanglingWasContested'
  BY <1>1, <1>2, <1>3, <1>5 DEF DanglingWasContested
<1>7. ASSUME NEW other \in Pending'
      PROVE  /\ Names(request'[other]) \subseteq Existing' \cup contested'
             /\ Removes(request'[other]) \cap Named' \subseteq contested'
  <2>1. other \in Pending \ {client} /\ request'[other] = request[other]
    BY <1>1, <1>7 DEF Pending
  <2> QED BY <1>2, <1>3, <1>4, <1>5, <2>1
<1> QED BY <1>6, <1>7 DEF ContestsKept

(* Requests check what they name and what they remove; selects and rollbacks *)
(* leave fewer writes pending; commits are counted as contests.            *)
LEMMA NextKeepsContests ==
  ASSUME TypeOK, ContestsKept, [Next]_vars
  PROVE  ContestsKept'
<1>1. ASSUME NEW client \in Client, NodeRequests(client) PROVE ContestsKept'
  <2>1. CASE CreateNode(client)
    <3>1. PICK n : Begin(client, [table |-> "nodes", op |-> "add", node |-> n])
      BY <2>1 DEF CreateNode
    <3> QED BY <3>1, BeginKeepsContests DEF Names, Removes
  <2>2. CASE DeleteNode(client)
    <3>1. PICK n \in nodes :
            NodeIsFree(n) /\ Begin(client, [table |-> "nodes", op |-> "delete", node |-> n])
      BY <2>2 DEF DeleteNode
    <3>2. <<"nodes", n>> \notin Named
      <4>1. \A a \in attributes : a[1] # n
        <5>1. \A a \in attributes : a = <<a[1], a[2]>> /\ a[2] \in Key
          BY DEF TypeOK
        <5> QED BY <3>1, <5>1 DEF NodeIsFree
      <4>2. \A r \in Related : relationships[r].source # n /\ relationships[r].target # n
        BY <3>1 DEF NodeIsFree
      <4>3. \A c \in Placed : catalog[c].target # n
        BY <3>1 DEF NodeIsFree
      <4> QED BY <4>1, <4>2, <4>3 DEF Named, EndsOf, AttributeOf, PlaceOf
    <3> QED BY <3>1, <3>2, BeginKeepsContests DEF Names, Removes
  <2> QED BY <1>1, <2>1, <2>2 DEF NodeRequests
<1>2. ASSUME NEW client \in Client, AttributeRequests(client) PROVE ContestsKept'
  <2>1. CASE CreateAttribute(client)
    <3>1. PICK n \in nodes, k \in Key :
            Begin(client, [table |-> "attributes", op |-> "add", attribute |-> <<n, k>>])
      BY <2>1 DEF CreateAttribute
    <3>2. <<"nodes", n>> \in Existing
      BY DEF Existing
    <3> QED BY <3>1, <3>2, BeginKeepsContests DEF Names, Removes
  <2>2. CASE DeleteAttribute(client)
    <3>1. PICK n \in Node, k \in Key :
            /\ AttributeIsFree(n, k)
            /\ Begin(client, [table |-> "attributes", op |-> "delete", attribute |-> <<n, k>>])
      BY <2>2 DEF DeleteAttribute
    <3>2. <<"attributes", <<n, k>>>> \notin Named
      BY <3>1 DEF AttributeIsFree, Named, EndsOf, AttributeOf, PlaceOf
    <3> QED BY <3>1, <3>2, BeginKeepsContests DEF Names, Removes
  <2> QED BY <1>2, <2>1, <2>2 DEF AttributeRequests
<1>3. ASSUME NEW client \in Client, RelationshipRequests(client) PROVE ContestsKept'
  <2>1. ASSUME NEW source \in nodes, NEW target \in nodes
        PROVE  EndsOf([source |-> source, target |-> target]) \subseteq Existing
    BY DEF EndsOf, Existing
  <2>2. CASE CreateRelationship(client)
    <3>1. PICK r \in Relationship \ Related, source \in nodes, target \in nodes :
            Begin(client, [ table |-> "relationships", op |-> "add", code |-> r,
                            row |-> [source |-> source, target |-> target] ])
      BY <2>2 DEF CreateRelationship
    <3> QED BY <2>1, <3>1, BeginKeepsContests DEF Names, Removes
  <2>3. CASE UpdateRelationship(client)
    <3>1. PICK r \in Related, source \in nodes, target \in nodes :
            Begin(client, [ table |-> "relationships", op |-> "update", code |-> r,
                            row |-> [source |-> source, target |-> target], read |-> Nil ])
      BY <2>3 DEF UpdateRelationship
    <3> QED BY <2>1, <3>1, BeginKeepsContests DEF Names, Removes
  <2>4. CASE DeleteRelationship(client)
    <3>1. PICK r : Begin(client, [table |-> "relationships", op |-> "delete", code |-> r])
      BY <2>4 DEF DeleteRelationship
    <3> QED BY <3>1, BeginKeepsContests DEF Names, Removes
  <2> QED BY <1>3, <2>2, <2>3, <2>4 DEF RelationshipRequests
<1>4. ASSUME NEW client \in Client, BindingRequests(client) PROVE ContestsKept'
  <2>1. ASSUME NEW row, <<row.node, row.key>> \in attributes
        PROVE  AttributeOf(row) \subseteq Existing
    BY <2>1 DEF AttributeOf, Existing
  <2>2. CASE CreateBinding(client)
    <3>1. PICK b, row :
            /\ <<row.node, row.key>> \in attributes
            /\ Begin(client, [table |-> "bindings", op |-> "add", code |-> b, row |-> row])
      BY <2>2 DEF CreateBinding
    <3> QED BY <2>1, <3>1, BeginKeepsContests DEF Names, Removes
  <2>3. CASE UpdateBinding(client)
    <3>1. PICK b, row :
            /\ <<row.node, row.key>> \in attributes
            /\ Begin(client, [ table |-> "bindings", op |-> "update", code |-> b,
                               row |-> row, read |-> Nil ])
      BY <2>3 DEF UpdateBinding
    <3> QED BY <2>1, <3>1, BeginKeepsContests DEF Names, Removes
  <2>4. CASE DeleteBinding(client)
    <3>1. PICK b : Begin(client, [table |-> "bindings", op |-> "delete", code |-> b])
      BY <2>4 DEF DeleteBinding
    <3> QED BY <3>1, BeginKeepsContests DEF Names, Removes
  <2> QED BY <1>4, <2>2, <2>3, <2>4 DEF BindingRequests
<1>5. ASSUME NEW client \in Client, CatalogRequests(client) PROVE ContestsKept'
  <2>1. ASSUME NEW c \in Placed PROVE PlaceOf(catalog[c]) \subseteq Existing \cup contested
    BY DEF ContestsKept, DanglingWasContested, Named
  <2>2. CASE CreateCatalogNode(client)
    <3>1. PICK c \in CatalogNode \ Placed, parent \in Placed \cup {Root}, target \in nodes \cup {Folder} :
            Begin(client, [ table |-> "catalog", op |-> "add", code |-> c,
                            row |-> [parent |-> parent, target |-> target] ])
      BY <2>2 DEF CreateCatalogNode
    <3>2. PlaceOf([parent |-> parent, target |-> target]) \subseteq Existing
      BY DEF PlaceOf, Existing
    <3> QED BY <3>1, <3>2, BeginKeepsContests DEF Names, Removes
  <2>3. CASE UpdateCatalogNode(client)
    <3>1. PICK c \in Placed, target \in nodes \cup {Folder} :
            Begin(client, [ table |-> "catalog", op |-> "update", code |-> c,
                            row |-> [catalog[c] EXCEPT !.target = target], read |-> Nil ])
      BY <2>3 DEF UpdateCatalogNode
    <3> DEFINE row == [catalog[c] EXCEPT !.target = target]
    <3>2. row.target = target /\ row.parent = catalog[c].parent
      BY DEF TypeOK, Placed, Place
    <3>3. PlaceOf(row) \subseteq Existing \cup contested
      <4>1. <<"nodes", target>> \in Existing
        BY DEF Existing
      <4>2. <<"catalog", catalog[c].parent>> \in Existing \cup contested
        BY <2>1 DEF PlaceOf
      <4> HIDE DEF row
      <4> QED BY <3>2, <4>1, <4>2 DEF PlaceOf
    <3> HIDE DEF row
    <3> QED BY <3>1, <3>3, BeginKeepsContests DEF Names, Removes, row
  <2>4. CASE MoveCatalogNode(client)
    <3>1. PICK c \in Placed, parent \in CatalogNode \cup {Root} :
            /\ MayAdopt(parent, c)
            /\ Begin(client, [ table |-> "catalog", op |-> "update", code |-> c,
                               row |-> [catalog[c] EXCEPT !.parent = parent], read |-> Nil ])
      BY <2>4 DEF MoveCatalogNode
    <3> DEFINE row == [catalog[c] EXCEPT !.parent = parent]
    <3>2. row.parent = parent /\ row.target = catalog[c].target
      BY DEF TypeOK, Placed, Place
    <3>3. PlaceOf(row) \subseteq Existing \cup contested
      <4>1. <<"catalog", parent>> \in Existing
        BY <3>1 DEF MayAdopt, Existing
      <4>2. <<"nodes", catalog[c].target>> \in Existing \cup contested
        BY <2>1 DEF PlaceOf
      <4> HIDE DEF row
      <4> QED BY <3>2, <4>1, <4>2 DEF PlaceOf
    <3> HIDE DEF row
    <3> QED BY <3>1, <3>3, BeginKeepsContests DEF Names, Removes, row
  <2>5. CASE DeleteCatalogNode(client)
    <3>1. PICK c \in Placed :
            /\ Children({c}) = {}
            /\ Begin(client, [table |-> "catalog", op |-> "delete", code |-> c])
      BY <2>5 DEF DeleteCatalogNode
    <3>2. <<"catalog", c>> \notin Named
      BY <3>1 DEF Children, Named, EndsOf, AttributeOf, PlaceOf
    <3> QED BY <3>1, <3>2, BeginKeepsContests DEF Names, Removes
  <2> QED BY <1>5, <2>2, <2>3, <2>4, <2>5 DEF CatalogRequests
<1>6. ASSUME UNCHANGED <<graph, contested>>,
             \A c \in Pending' : /\ c \in Pending
                                 /\ Names(request'[c]) = Names(request[c])
                                 /\ Removes(request'[c]) = Removes(request[c])
      PROVE  ContestsKept'
  <2>1. Named' = Named /\ Existing' = Existing
    BY <1>6 DEF Named, Existing, graph, Related, Taken, Placed
  <2> QED BY <1>6, <2>1 DEF ContestsKept, DanglingWasContested
<1>7. ASSUME NEW client \in Client, Select(client) PROVE ContestsKept'
  <2> DEFINE write == request[client]
             next == IF RowOf(write) = Nil THEN Nil ELSE [write EXCEPT !.read = RowOf(write)]
  <2>1. /\ client \in Pending /\ write \in Write /\ write.op = "update"
        /\ UNCHANGED <<graph, contested>>
        /\ \A c \in Client : request'[c] = IF c = client THEN next ELSE request[c]
    BY <1>7 DEF Select, Pending, TypeOK
  <2>2. next # Nil => /\ next.table = write.table
                      /\ next.op = write.op
                      /\ next.row = write.row
    <3>1. \E T, C, R, D : write \in [table : T, op : {"update"}, code : C, row : R, read : D]
      BY <2>1 DEF Write, RowWrite
    <3> QED BY <3>1
  <2>3. write.table \in {"relationships", "bindings", "catalog"}
    BY <2>1 DEF Write, RowWrite
  <2> HIDE DEF next, write
  <2>4. next # Nil => Names(next) = Names(write) /\ Removes(next) = Removes(write)
    BY <2>1, <2>2, <2>3 DEF Names, Removes
  <2> QED BY <1>6, <2>1, <2>4 DEF Pending, write
<1>8. ASSUME NEW client \in Client, Rollback(client) PROVE ContestsKept'
  BY <1>6, <1>8 DEF Rollback, Pending, TypeOK
<1>9. CASE UNCHANGED vars
  BY <1>6, <1>9 DEF vars, Pending
<1> QED
  BY <1>1, <1>2, <1>3, <1>4, <1>5, <1>7, <1>8, <1>9, CommitKeepsContests DEF Next

(* For any number of clients whose requests overlap as they like: a row that *)
(* is referred to and does not exist was deleted by one request and named   *)
(* by another that was under way with it, or is a binding's that two        *)
(* updates have written half each.                                         *)
THEOREM LostReferencesWereContested == Spec => []DanglingWasContested
<1>1. Init => ContestsKept
  BY DEF Init, ContestsKept, DanglingWasContested, Named, Existing, Related, Taken, Placed, Pending
<1>2. IndInv /\ ContestsKept /\ [Next]_vars => ContestsKept'
  BY NextKeepsContests DEF IndInv
<1>3. ContestsKept => DanglingWasContested
  BY DEF ContestsKept
<1> QED BY <1>1, <1>2, <1>3, Invariance, PTL DEF Spec

-----------------------------------------------------------------------------
(* The catalog is a forest.                                                *)

(* What a pending write of the catalog has found: a new node and its parent, *)
(* a parent that may adopt, a node without children.                        *)
KeepsForest(write) ==
  write.table = "catalog" =>
    /\ write.op = "add" => write.row.parent \in Placed \cup {Root} /\ write.code \notin Placed
    /\ write.op = "update" =>
         /\ write.code \in Placed
         /\ \/ write.row.parent = catalog[write.code].parent
            \/ MayAdopt(write.row.parent, write.code)
    /\ write.op = "delete" => Children({write.code}) = {}

GrowsAsForest ==
  races = 0 => IsForest /\ \A client \in Pending : KeepsForest(request[client])

(* Descendants are the least set with the children that is closed under them. *)
LEMMA DescendantsClose ==
  ASSUME NEW c
  PROVE  /\ Descendants(c) \subseteq Placed
         /\ Children({c}) \subseteq Descendants(c)
         /\ Children(Descendants(c)) \subseteq Descendants(c)
         /\ \A S \in SUBSET Placed :
              Children({c}) \cup Children(S) \subseteq S => Descendants(c) \subseteq S
BY DEF Descendants, Children

(* The descendants of a descendant are descendants. *)
LEMMA DescendantsNest ==
  ASSUME NEW c, NEW d \in Descendants(c)
  PROVE  Descendants(d) \subseteq Descendants(c)
<1>1. Children({d}) \subseteq Children(Descendants(c))
  BY DEF Children
<1>2. Children({d}) \cup Children(Descendants(c)) \subseteq Descendants(c)
  BY <1>1, DescendantsClose
<1> QED BY <1>2, DescendantsClose

(* What has no children has no descendants. *)
LEMMA ChildlessEnds ==
  ASSUME NEW c, Children({c}) = {} PROVE Descendants(c) = {}
<1>1. Children({c}) \cup Children({}) \subseteq {} /\ {} \in SUBSET Placed
  BY DEF Children
<1> QED BY <1>1, DescendantsClose

(* A node may be given any parent that is neither it nor below it.           *)
LEMMA AdoptionKeepsForest ==
  ASSUME TypeOK, IsForest, NEW code \in CatalogNode, NEW new \in Place,
         catalog' = [catalog EXCEPT ![code] = new],
         new.parent \in Placed \cup {Root},
         new.parent \notin Descendants(code) \cup {code}
  PROVE  IsForest'
<1> DEFINE p == new.parent
           Branch == Descendants(code) \cup {code}
           Below(d) == Descendants(d) \cup IF p \in Descendants(d) \cup {d} THEN Branch ELSE {}
<1>1. /\ \A d \in CatalogNode : catalog'[d] = IF d = code THEN new ELSE catalog[d]
      /\ Nil \notin Place /\ Root \notin CatalogNode
  BY NilAssumption DEF TypeOK
<1>2. Placed' = Placed \cup {code}
  BY <1>1 DEF Placed
<1>3. \A X : Children(X)' \subseteq Children(X) \cup IF p \in X THEN {code} ELSE {}
  BY <1>1, <1>2 DEF Children
<1>4. \A d \in Placed' : catalog'[d].parent \in Placed' \cup {Root}
  BY <1>1, <1>2 DEF IsForest
<1>5. ASSUME NEW d \in CatalogNode, d \in Descendants(d)' PROVE FALSE
  <2>0. PICK S : S = Below(d)
    OBVIOUS
  <2>1. S \in SUBSET (Placed')
    BY <1>2, <2>0, DescendantsClose
  <2>2. ASSUME NEW x \in Children({d})' \cup Children(S)' PROVE x \in Below(d)
    <3>1. CASE x = code /\ p \in {d} \cup Below(d)
      BY <3>1
    <3>2. CASE x \in Children({d}) \cup Children(Below(d))
      <4>1. PICK y \in {d} \cup Below(d) : x \in Placed /\ catalog[x].parent = y
        BY <3>2 DEF Children
      <4>2. x \in Children({y})
        BY <4>1 DEF Children
      <4>3. CASE y = d
        BY <4>2, <4>3, DescendantsClose
      <4>4. CASE y \in Descendants(d)
        BY <4>1, <4>4, DescendantsClose DEF Children
      <4>5. CASE y \in Branch /\ p \in Descendants(d) \cup {d}
        <5>1. x \in Descendants(code)
          BY <4>1, <4>2, <4>5, DescendantsClose DEF Children
        <5> QED BY <4>5, <5>1
      <4> QED BY <4>1, <4>3, <4>4, <4>5
    <3> QED BY <1>3, <2>0, <2>2, <3>1, <3>2
  <2>3. Descendants(d)' \subseteq Below(d)
    <3>1. Children({d})' \cup Children(S)' \subseteq S
      BY <2>0, <2>2
    <3> HIDE DEF Below
    <3>2. Descendants(d)' \subseteq S
      BY <2>1, <3>1 DEF Descendants
    <3> QED BY <2>0, <3>2
  <2>4. d \notin Descendants(d)
    <3>1. CASE d \in Placed
      BY <3>1 DEF IsForest
    <3>2. CASE d \notin Placed
      BY <3>2, DescendantsClose
    <3> QED BY <3>1, <3>2
  <2>5. p \in Descendants(d) \cup {d} /\ d \in Branch
    BY <1>5, <2>3, <2>4
  <2>6. Descendants(d) \subseteq Descendants(code)
    BY <2>5, DescendantsNest
  <2> QED BY <2>5, <2>6
<1> QED BY <1>4, <1>5 DEF IsForest, Placed

(* A node that keeps its parent keeps the forest. *)
LEMMA RetargetingKeepsForest ==
  ASSUME TypeOK, IsForest, NEW code \in Placed, NEW new \in Place,
         catalog' = [catalog EXCEPT ![code] = new],
         new.parent = catalog[code].parent
  PROVE  IsForest'
<1>1. \A d \in CatalogNode : catalog'[d] = IF d = code THEN new ELSE catalog[d]
  BY DEF TypeOK
<1>2. Placed' = Placed /\ \A d \in Placed : catalog'[d].parent = catalog[d].parent
  BY <1>1, NilAssumption DEF Placed
<1>3. \A X : Children(X)' = Children(X)
  BY <1>2 DEF Children
<1>4. \A d : Descendants(d)' = Descendants(d)
  BY <1>2, <1>3 DEF Descendants
<1> QED BY <1>2, <1>4 DEF IsForest

(* A leaf can go. *)
LEMMA PruningKeepsForest ==
  ASSUME TypeOK, IsForest, NEW code \in CatalogNode, Children({code}) = {},
         catalog' = [catalog EXCEPT ![code] = Nil]
  PROVE  IsForest'
<1>1. \A d \in CatalogNode : catalog'[d] = IF d = code THEN Nil ELSE catalog[d]
  BY DEF TypeOK
<1>2. Placed' = Placed \ {code} /\ \A d \in Placed' : catalog'[d] = catalog[d]
  BY <1>1 DEF Placed
<1>3. \A X : Children(X)' = Children(X) \ {code}
  BY <1>2 DEF Children
<1>4. \A d \in Placed' : catalog'[d].parent \in Placed' \cup {Root}
  BY <1>2 DEF IsForest, Children
<1>5. ASSUME NEW d \in Placed' PROVE d \notin Descendants(d)'
  <2>0. PICK S : S = Descendants(d) \ {code}
    OBVIOUS
  <2>1. S \in SUBSET (Placed')
    BY <1>2, <2>0, DescendantsClose
  <2>2. Children({d})' \cup Children(S)' \subseteq S
    <3>1. Children(S) \subseteq Children(Descendants(d))
      BY <2>0 DEF Children
    <3> QED BY <1>3, <2>0, <3>1, DescendantsClose
  <2>3. Descendants(d)' \subseteq S
    BY <2>1, <2>2 DEF Descendants
  <2> QED BY <1>2, <1>5, <2>0, <2>3 DEF IsForest
<1> QED BY <1>4, <1>5 DEF IsForest

(* A write that has found what KeepsForest says, and is still up to date,    *)
(* keeps the forest.                                                       *)
LEMMA CatalogWriteKeepsForest ==
  ASSUME IndInv, IsForest, races = 0, NEW client \in Client, Commit(client),
         request[client].table = "catalog", WriteCatalogNode(request[client]),
         KeepsForest(request[client])
  PROVE  IsForest'
<1> DEFINE write == request[client]
           code == write.code
           new == Written(catalog[code], write)
<1>1. /\ write \in Write
      /\ Legal(write)
      /\ write.op = "update" => write.read # Nil
  BY CommitStart
<1>2. /\ write.op \in {"add", "update", "delete"}
      /\ code \in CatalogNode
      /\ write.op # "delete" => write.row \in Place
      /\ write.op = "update" => write.read \in Place
  BY <1>1 DEF Write, RowWrite
<1>3. catalog' = [catalog EXCEPT ![code] = new]
  BY DEF WriteCatalogNode
<1>4. TypeOK /\ Nil \notin Place
  BY NilAssumption DEF IndInv
<1>5. CASE write.op = "add"
  <2>1. write.row.parent \in Placed \cup {Root} /\ code \notin Placed
    BY <1>5 DEF KeepsForest
  <2>2. new = write.row
    BY <1>2, <1>5, <2>1 DEF Written, Placed
  <2>3. Children({code}) = {}
    <3>1. Root \notin CatalogNode
      BY NilAssumption
    <3> QED BY <1>2, <2>1, <3>1 DEF Children, IsForest
  <2>4. write.row.parent \notin Descendants(code) \cup {code}
    <3>1. Descendants(code) = {}
      BY <2>3, ChildlessEnds
    <3>2. Root \notin CatalogNode
      BY NilAssumption
    <3> QED BY <1>2, <2>1, <3>1, <3>2
  <2> QED BY <1>2, <1>3, <1>4, <1>5, <2>1, <2>2, <2>4, AdoptionKeepsForest
<1>6. CASE write.op = "update"
  <2>1. /\ code \in Placed
        /\ write.row.parent = catalog[code].parent \/ MayAdopt(write.row.parent, code)
    BY <1>6 DEF KeepsForest
  <2>2. catalog[code] \in Place /\ write.read = catalog[code]
    BY <1>1, <1>2, <1>4, <1>6, <2>1 DEF TypeOK, Placed, Legal
  <2>3. new = write.row
    BY <1>2, <1>4, <1>6, <2>2, FlushedPlace DEF Written
  <2>4. CASE write.row.parent = catalog[code].parent
    BY <1>2, <1>3, <1>4, <1>6, <2>1, <2>3, <2>4, RetargetingKeepsForest
  <2>5. CASE MayAdopt(write.row.parent, code)
    <3>1. /\ write.row.parent \in Placed \cup {Root}
          /\ write.row.parent \notin Descendants(code) \cup {code}
      <4>1. Root \notin CatalogNode /\ Descendants(code) \subseteq CatalogNode
        BY NilAssumption, DescendantsClose DEF Placed
      <4> QED BY <1>2, <2>5, <4>1 DEF MayAdopt
    <3> QED BY <1>2, <1>3, <1>4, <1>6, <2>3, <3>1, AdoptionKeepsForest
  <2> QED BY <2>1, <2>4, <2>5
<1>7. CASE write.op = "delete"
  <2>1. Children({code}) = {} /\ new = Nil
    BY <1>7 DEF KeepsForest, Written
  <2> QED BY <1>2, <1>3, <1>4, <2>1, PruningKeepsForest
<1> QED BY <1>2, <1>5, <1>6, <1>7

(* What the catalog and a pending write say of one another does not change   *)
(* with the rest.                                                          *)
LEMMA CatalogUntouched ==
  ASSUME catalog' = catalog
  PROVE  /\ IsForest' <=> IsForest
         /\ \A write : KeepsForest(write)' <=> KeepsForest(write)
<1>1. Placed' = Placed /\ \A X : Children(X)' = Children(X)
  BY DEF Placed, Children
<1>2. \A c : Descendants(c)' = Descendants(c)
  BY <1>1 DEF Descendants
<1>3. \A parent, c : MayAdopt(parent, c)' <=> MayAdopt(parent, c)
  BY <1>1, <1>2 DEF MayAdopt
<1>4. IsForest' <=> IsForest
  BY <1>1, <1>2 DEF IsForest
<1>5. ASSUME NEW write PROVE KeepsForest(write)' <=> KeepsForest(write)
  BY <1>1, <1>3 DEF KeepsForest
<1> QED BY <1>4, <1>5

(* A request begins with what it has found. *)
LEMMA BeginKeepsForest ==
  ASSUME IndInv, GrowsAsForest, NEW client \in Client, NEW write, Begin(client, write),
         IsForest => KeepsForest(write)
  PROVE  GrowsAsForest'
<1>1. /\ catalog' = catalog
      /\ \A other \in Client : request'[other] = IF other = client THEN write ELSE request[other]
      /\ races' = 0 => races = 0 /\ \A other \in Client : request[other] = Nil
  BY DEF Begin, IndInv, TypeOK, graph
<1> SUFFICES ASSUME races' = 0
             PROVE  IsForest' /\ \A other \in Pending' : KeepsForest(request[other])'
  BY DEF GrowsAsForest
<1>2. IsForest /\ KeepsForest(write)
  BY <1>1 DEF GrowsAsForest
<1>3. IsForest' /\ KeepsForest(write)'
  BY <1>1, <1>2, CatalogUntouched
<1>4. ASSUME NEW other \in Pending' PROVE KeepsForest(request[other])'
  <2>1. request'[other] = write
    BY <1>1, <1>4 DEF Pending
  <2> QED BY <1>3, <2>1 DEF KeepsForest
<1> QED BY <1>3, <1>4

(* A select adds to the write only what it has read. *)
LEMMA SelectKeepsForest ==
  ASSUME IndInv, GrowsAsForest, NEW client \in Client, Select(client)
  PROVE  GrowsAsForest'
<1> DEFINE write == request[client]
           next == IF RowOf(write) = Nil THEN Nil ELSE [write EXCEPT !.read = RowOf(write)]
<1>1. /\ catalog' = catalog /\ races' = races
      /\ write.op = "update"
      /\ client \in Pending
      /\ \A other \in Client : request'[other] = IF other = client THEN next ELSE request[other]
  BY DEF Select, graph, IndInv, TypeOK, Pending
<1>2. /\ next # Nil => /\ next.table = write.table
                       /\ next.op = write.op
                       /\ next.code = write.code
                       /\ next.row = write.row
  <2>1. write \in Write /\ write.op = "update"
    BY <1>1 DEF IndInv, TypeOK, Pending
  <2>2. \E T, C, R, D : write \in [table : T, op : {"update"}, code : C, row : R, read : D]
    BY <2>1 DEF Write, RowWrite
  <2> QED BY <2>2
<1> SUFFICES ASSUME races = 0
             PROVE  IsForest' /\ \A other \in Pending' : KeepsForest(request[other])'
  BY <1>1 DEF GrowsAsForest
<1>3. IsForest'
  BY <1>1, CatalogUntouched DEF GrowsAsForest
<1>4. KeepsForest(write)
  BY <1>1 DEF GrowsAsForest
<1>5. ASSUME NEW other \in Pending' PROVE KeepsForest(request[other])'
  <2>1. CASE other # client
    <3>1. other \in Pending /\ request'[other] = request[other]
      BY <1>1, <1>5, <2>1 DEF Pending
    <3>2. KeepsForest(request[other])
      BY <3>1 DEF GrowsAsForest
    <3>3. PICK w : w = request[other]
      OBVIOUS
    <3>4. KeepsForest(w)'
      BY <1>1, <3>2, <3>3, CatalogUntouched
    <3> QED BY <3>1, <3>3, <3>4 DEF KeepsForest
  <2>2. CASE other = client
    <3>1. next # Nil /\ request'[other] = next
      BY <1>1, <1>5, <2>2 DEF Pending
    <3>2. PICK w : w = next
      OBVIOUS
    <3>3. KeepsForest(w)
      BY <1>1, <1>2, <1>4, <3>1, <3>2 DEF KeepsForest
    <3>4. KeepsForest(w)'
      BY <1>1, <3>3, CatalogUntouched
    <3> QED BY <3>1, <3>2, <3>4 DEF KeepsForest
  <2> QED BY <2>1, <2>2
<1> QED BY <1>3, <1>5

(* A commit leaves nothing pending, and a forest. *)
LEMMA CommitKeepsForest ==
  ASSUME IndInv, GrowsAsForest, NEW client \in Client, Commit(client)
  PROVE  GrowsAsForest'
<1>1. races' = races /\ (races = 0 => Pending' = {})
  BY CommitStart
<1> SUFFICES ASSUME races = 0 PROVE IsForest'
  BY <1>1 DEF GrowsAsForest
<1>2. CASE request[client].table = "catalog" /\ WriteCatalogNode(request[client])
  <2>1. client \in Pending
    BY DEF Commit, Pending
  <2> QED BY <1>2, <2>1, CatalogWriteKeepsForest DEF GrowsAsForest
<1>3. CASE catalog' = catalog
  BY <1>3, CatalogUntouched DEF GrowsAsForest
<1> QED BY <1>2, <1>3
    DEF Commit, WriteNode, WriteAttribute, WriteRelationship, WriteBinding

(* Whatever is created, moved and deleted one after the other, the pending   *)
(* write keeps the forest a forest.                                        *)
LEMMA NextKeepsForest ==
  ASSUME IndInv, GrowsAsForest, [Next]_vars
  PROVE  GrowsAsForest'
<1>1. ASSUME NEW client \in Client, NEW write, Begin(client, write), write.table # "catalog"
      PROVE  GrowsAsForest'
  BY <1>1, BeginKeepsForest DEF KeepsForest
<1>2. ASSUME NEW client \in Client,
             NodeRequests(client) \/ AttributeRequests(client)
               \/ RelationshipRequests(client) \/ BindingRequests(client)
      PROVE  GrowsAsForest'
  <2>1. \A write : Begin(client, write) /\ write.table # "catalog" => GrowsAsForest'
    BY <1>1
  <2>2. CASE NodeRequests(client)
    <3>1. \A op, n : Begin(client, [table |-> "nodes", op |-> op, node |-> n]) => GrowsAsForest'
      BY <2>1
    <3> QED BY <2>2, <3>1, Zenon DEF NodeRequests, CreateNode, DeleteNode
  <2>3. CASE AttributeRequests(client)
    <3>1. \A op, a : Begin(client, [table |-> "attributes", op |-> op, attribute |-> a])
                       => GrowsAsForest'
      BY <2>1
    <3> QED BY <2>3, <3>1, Zenon DEF AttributeRequests, CreateAttribute, DeleteAttribute
  <2>4. CASE RelationshipRequests(client)
    <3>1. /\ \A r, row : Begin(client, [table |-> "relationships", op |-> "add",
                                       code |-> r, row |-> row]) => GrowsAsForest'
          /\ \A r, row : Begin(client, [table |-> "relationships", op |-> "update",
                                       code |-> r, row |-> row, read |-> Nil]) => GrowsAsForest'
          /\ \A r : Begin(client, [table |-> "relationships", op |-> "delete", code |-> r])
                       => GrowsAsForest'
      BY <2>1
    <3> QED BY <2>4, <3>1, Zenon
        DEF RelationshipRequests, CreateRelationship, UpdateRelationship, DeleteRelationship
  <2>5. CASE BindingRequests(client)
    <3>1. /\ \A b, row : Begin(client, [table |-> "bindings", op |-> "add",
                                       code |-> b, row |-> row]) => GrowsAsForest'
          /\ \A b, row : Begin(client, [table |-> "bindings", op |-> "update",
                                       code |-> b, row |-> row, read |-> Nil]) => GrowsAsForest'
          /\ \A b : Begin(client, [table |-> "bindings", op |-> "delete", code |-> b])
                       => GrowsAsForest'
      BY <2>1
    <3> QED BY <2>5, <3>1, Zenon
        DEF BindingRequests, CreateBinding, UpdateBinding, DeleteBinding
  <2> QED BY <1>2, <2>2, <2>3, <2>4, <2>5
<1>3. ASSUME NEW client \in Client, CreateCatalogNode(client) PROVE GrowsAsForest'
  <2>1. PICK c \in CatalogNode \ Placed, parent \in Placed \cup {Root},
             target \in nodes \cup {Folder} :
               Begin(client, [ table |-> "catalog", op |-> "add", code |-> c,
                               row |-> [parent |-> parent, target |-> target] ])
    BY <1>3 DEF CreateCatalogNode
  <2>2. KeepsForest([ table |-> "catalog", op |-> "add", code |-> c,
                      row |-> [parent |-> parent, target |-> target] ])
    BY DEF KeepsForest
  <2> QED BY <2>1, <2>2, BeginKeepsForest
<1>4. ASSUME NEW client \in Client, UpdateCatalogNode(client) PROVE GrowsAsForest'
  <2>1. PICK c \in Placed, target \in nodes \cup {Folder} :
            Begin(client, [ table |-> "catalog", op |-> "update", code |-> c,
                            row |-> [catalog[c] EXCEPT !.target = target], read |-> Nil ])
    BY <1>4 DEF UpdateCatalogNode
  <2> DEFINE row == [catalog[c] EXCEPT !.target = target]
  <2>2. row.parent = catalog[c].parent
    BY DEF IndInv, TypeOK, Placed, Place
  <2> HIDE DEF row
  <2>3. KeepsForest([ table |-> "catalog", op |-> "update", code |-> c,
                      row |-> row, read |-> Nil ])
    BY <2>2 DEF KeepsForest
  <2> QED BY <2>1, <2>3, BeginKeepsForest DEF row
<1>5. ASSUME NEW client \in Client, MoveCatalogNode(client) PROVE GrowsAsForest'
  <2>1. PICK c \in Placed, parent \in CatalogNode \cup {Root} :
            /\ MayAdopt(parent, c)
            /\ Begin(client, [ table |-> "catalog", op |-> "update", code |-> c,
                               row |-> [catalog[c] EXCEPT !.parent = parent], read |-> Nil ])
    BY <1>5 DEF MoveCatalogNode
  <2> DEFINE row == [catalog[c] EXCEPT !.parent = parent]
  <2>2. row.parent = parent
    BY DEF IndInv, TypeOK, Placed, Place
  <2> HIDE DEF row
  <2>3. KeepsForest([ table |-> "catalog", op |-> "update", code |-> c,
                      row |-> row, read |-> Nil ])
    BY <2>1, <2>2 DEF KeepsForest
  <2> QED BY <2>1, <2>3, BeginKeepsForest DEF row
<1>6. ASSUME NEW client \in Client, DeleteCatalogNode(client) PROVE GrowsAsForest'
  <2>1. PICK c \in Placed :
            /\ Children({c}) = {}
            /\ Begin(client, [table |-> "catalog", op |-> "delete", code |-> c])
    BY <1>6 DEF DeleteCatalogNode
  <2>2. KeepsForest([table |-> "catalog", op |-> "delete", code |-> c])
    BY <2>1 DEF KeepsForest
  <2> QED BY <2>1, <2>2, BeginKeepsForest
<1>7. ASSUME UNCHANGED <<catalog, races>>, \A c \in Client : request'[c] \in {request[c], Nil}
      PROVE  GrowsAsForest'
  <2>1. \A c \in Client : KeepsForest(request[c])' <=> KeepsForest(request'[c])
    BY <1>7 DEF KeepsForest, MayAdopt, Descendants, Children, Placed
  <2>2. Pending' \subseteq Pending /\ \A c \in Pending' : request'[c] = request[c]
    BY <1>7 DEF Pending
  <2> QED BY <1>7, <2>1, <2>2, CatalogUntouched DEF GrowsAsForest, Pending
<1>8. ASSUME NEW client \in Client, Rollback(client) PROVE GrowsAsForest'
  BY <1>7, <1>8 DEF Rollback, IndInv, TypeOK, graph
<1>9. CASE UNCHANGED vars
  BY <1>7, <1>9 DEF vars, graph
<1> QED
  BY <1>2, <1>3, <1>4, <1>5, <1>6, <1>8, <1>9, SelectKeepsForest, CommitKeepsForest
  DEF Next, CatalogRequests

(* No sequence of creations, moves and deletions closes a circle in the      *)
(* catalog or orphans a node, for any number of nodes and clients: the cycle *)
(* check of a move, the check for children of a delete and the check for the *)
(* parent of a create are enough until requests overlap.                   *)
THEOREM CatalogStaysForest == Spec => []CatalogIsForest
<1>1. Init => GrowsAsForest
  BY DEF Init, GrowsAsForest, IsForest, Placed, Pending
<1>2. IndInv /\ GrowsAsForest /\ [Next]_vars => GrowsAsForest'
  BY NextKeepsForest
<1>3. GrowsAsForest => CatalogIsForest
  BY DEF GrowsAsForest, CatalogIsForest
<1> QED BY <1>1, <1>2, <1>3, Invariance, PTL DEF Spec
=============================================================================
