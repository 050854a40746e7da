------------------------------ MODULE Storage ------------------------------
(***************************************************************************)
(* Clients of one repository of the storage contract (rushwind-storage),   *)
(* bare or behind the soft-delete decorator, on any of the seven engines.  *)
(* Every client runs one operation, a call of its plan at a time; calls of *)
(* different clients interleave, and the answer of a call may be lost,     *)
(* whether the store applied the call or not.                              *)
(*                                                                         *)
(* First comes what one call of an engine's backend does to a table, and   *)
(* which calls each engine (rushwind-storage-...) makes, in which order,   *)
(* for an operation of the Repository contract; then the clients.          *)
(*                                                                         *)
(* A table gives every primary key the set of rows stored under it: at     *)
(* most one, except in clickhouse, which has no unique constraint.  A row  *)
(* keeps who wrote it last, its owner, whether the document holds its own  *)
(* primary key, and its tombstone; the other columns are left out.  A      *)
(* viewer is "all", "none", or the owner whose rows it may see.            *)
(*                                                                         *)
(* A call is a set of outcomes: the table after it, the caller's locals,   *)
(* and what the caller does next: go "on", or answer.                      *)
(***************************************************************************)
EXTENDS Naturals, Sequences, SequencesExt, FiniteSets, FiniteSetsExt, Functions

CONSTANTS
    Ids,         \* the primary keys, 1 to some number; bound: a key beyond is not given out
    Clients,     \* concurrent callers
    Engines,     \* the engines to check, of AllEngines
    Decorated,   \* whether soft delete wraps the repository: a set of BOOLEAN
    MaxFaults    \* bound: lost answers

AllEngines == {"memory", "seaorm", "mongodb", "cassandra", "elasticsearch",
               "influxdb", "clickhouse"}

ASSUME StorageAssumption ==
    /\ \E n \in Ids : n \in Nat /\ n >= 2 /\ Ids = 1..n
    /\ "seed" \notin Clients
    /\ Engines \subseteq AllEngines
    /\ Decorated \subseteq BOOLEAN

\* Viewer::scope: all rows, none, or those of one owner.
InScope(v, r) == v = "all" \/ r.owner = v

\* Which row of its key a point read of each engine returns.
MemoryGet(v, r)     == InScope(v, r)
SeaormGet(v, r)     == InScope(v, r)
MongoGet(v, r)      == r.keyed /\ InScope(v, r)
CassandraGet(v, r)  == InScope(v, r)
InfluxGet(v, r)     == InScope(v, r)
ClickhouseGet(v, r) == InScope(v, r)
ElasticRecheck(v, r) == v = "all" \/ (r.keyed /\ InScope(v, r))

Finds(e, v, r) ==
    CASE e = "memory"     -> MemoryGet(v, r)
      [] e = "seaorm"     -> SeaormGet(v, r)
      [] e = "mongodb"    -> MongoGet(v, r)
      [] e = "cassandra"  -> CassandraGet(v, r)
      [] e = "influxdb"   -> InfluxGet(v, r)
      [] e = "clickhouse" -> ClickhouseGet(v, r)
      [] OTHER            -> ElasticRecheck(v, r)

Found(e, t, o) == {r \in t[o.ids[1]] : Finds(e, o.viewer, r)}

(***************************************************************************)
(* Outcomes.                                                               *)
(***************************************************************************)
After(t, l, says) == {[table |-> t, local |-> l, says |-> says]}

Refuse(t, l, why)    == After(t, l, why)
Unless(bad, why, t, l) == After(t, l, IF bad THEN why ELSE "on")

\* The row an operation stores under a key, and a row with its patch applied.
NewRow(c, o, keyed) == [by |-> c, owner |-> o.owner, keyed |-> keyed, dead |-> FALSE]
Patched(c, o, r) ==
    [r EXCEPT !.by = c,
              !.owner = IF o.owner = "same" THEN @ ELSE o.owner,
              !.dead = CASE o.mark = "keep" -> @ [] o.mark = "dead" -> TRUE
                         [] OTHER -> FALSE]

\* memory and mongodb store a null primary key that a patch carries.
Unkeyed(o, r) == IF o.nullpk THEN [r EXCEPT !.keyed = FALSE] ELSE r

Stored(t, c, o, ids, keyed) ==
    [i \in DOMAIN t |-> IF i \in Range(ids) THEN {NewRow(c, o, keyed)} ELSE t[i]]

(***************************************************************************)
(* The ids of new rows: what the row carries, or generated.                *)
(***************************************************************************)
Numbered(ids, n) ==
    [k \in DOMAIN ids |-> IF ids[k] # 0 THEN ids[k]
                          ELSE n + Cardinality({j \in 1..(k - 1) : ids[j] = 0})]

\* max(pk) + 1 over the rows that hold their key, as far as Ids reaches.
NextIds(t, o, l) ==
    LET top == Max({0} \cup {i \in DOMAIN t : \E r \in t[i] : r.keyed})
        ids == Numbered(o.ids, top + 1)
    IN  IF Range(ids) \subseteq Ids THEN Unless(~IsInjective(ids), "conflict", t, [l EXCEPT !.ids = ids])
        ELSE {}

\* The store numbers the rows itself: ascending keys that it does not hold.
Claims(t, o) ==
    {ids \in [DOMAIN o.ids -> DOMAIN t] :
        \A k \in DOMAIN ids :
            IF o.ids[k] # 0 THEN ids[k] = o.ids[k]
            ELSE /\ t[ids[k]] = {}
                 /\ \A j \in 1..(k - 1) : ids[j] < ids[k]}

(***************************************************************************)
(* Backend calls that look.                                                *)
(***************************************************************************)
\* A scoped point read that must find the row.
Probe(e, t, o, l) ==
    LET rows == Found(e, t, o)
    IN  IF rows = {} THEN Refuse(t, l, "notfound")
        ELSE {[table |-> t, local |-> [l EXCEPT !.seen = {r}, !.cleared = TRUE], says |-> "on"] :
                r \in rows}

\* The same, for one that only wants to know.
Peek(e, t, o, l) == After(t, [l EXCEPT !.seen = Found(e, t, o)], "on")

\* elasticsearch reads the document by id, then searches for it in scope.
ReadDoc(t, o, l) ==
    Unless(t[o.ids[1]] = {}, "notfound", t, [l EXCEPT !.seen = t[o.ids[1]]])
Recheck(t, o, l) ==
    Unless(~\E r \in t[o.ids[1]] : ElasticRecheck(o.viewer, r), "notfound", t,
           [l EXCEPT !.cleared = TRUE])

\* The soft-delete decorator's own read: the row must be alive, or a tombstone.
AliveProbe(e, t, o, l, dead) ==
    Unless(~\E r \in Found(e, t, o) : r.dead = dead, "notfound", t, l)

\* seaorm reads what it wrote back, in nobody's scope.
FetchUnscoped(t, l) ==
    Unless(\E i \in Range(l.ids) : t[i] = {}, "notfound", t, l)

\* clickhouse counts the rows of one key; influxdb reads all keys.
EnsureIdFree(t, l) ==
    Unless(t[l.ids[l.item + 1]] # {}, "conflict", t,
           [l EXCEPT !.item = (@ + 1) % Len(l.ids)])
FetchAllIds(t, l) ==
    Unless(\E i \in Range(l.ids) : t[i] # {}, "conflict", t, l)

(***************************************************************************)
(* Backend calls that write.                                               *)
(***************************************************************************)
\* A unique insert of all rows or none.
InsertAll(t, c, o, l) ==
    IF ~IsInjective(l.ids) \/ \E i \in Range(l.ids) : t[i] # {}
    THEN Refuse(t, l, "conflict")
    ELSE After(Stored(t, c, o, l.ids, TRUE), l, "on")

\* The same where the store numbers the rows.
InsertClaimed(t, c, o, l) ==
    IF ~\E ids \in Claims(t, o) : IsInjective(ids) /\ \A i \in Range(ids) : t[i] = {}
    THEN Refuse(t, l, "conflict")
    ELSE UNION {InsertAll(t, c, o, [l EXCEPT !.ids = ids]) :
                  ids \in {m \in Claims(t, o) : IsInjective(m)}}

\* A put by key, over whatever is there; the document holds its key when the payload did.
Put(t, c, o, l) ==
    After([i \in DOMAIN t |->
                IF \E k \in DOMAIN l.ids : l.ids[k] = i
                THEN {NewRow(c, o, \E k \in DOMAIN l.ids : l.ids[k] = i /\ (o.ids[k] # 0 \/ l.fills))}
                ELSE t[i]], l, "on")

\* clickhouse adds a row per insert, next to any other of its key.
Append1(t, c, o, l) ==
    LET i == l.ids[l.item + 1]
    IN  After([t EXCEPT ![i] = @ \cup {NewRow(c, o, TRUE)}],
                [l EXCEPT !.item = (@ + 1) % Len(l.ids)], "on")

\* Mutant: a failed bulk forgets which rows landed.
BulkForgets(t, c, o, l) ==
    LET fresh == {k \in DOMAIN l.ids : t[l.ids[k]] = {}}
    IN  After([i \in DOMAIN t |-> IF \E k \in fresh : l.ids[k] = i
                                    THEN {NewRow(c, o, TRUE)} ELSE t[i]],
                [l EXCEPT !.failed = fresh # DOMAIN l.ids], "on")

\* elasticsearch's _bulk: each create for itself; then the rows that landed
\* are deleted, one call each.
Bulk(t, c, o, l) ==
    LET taken == {k \in DOMAIN l.ids : t[l.ids[k]] # {}}
        fresh == DOMAIN l.ids \ taken
    IN  After([i \in DOMAIN t |->
                    IF \E k \in fresh : l.ids[k] = i
                    THEN {NewRow(c, o, \E k \in fresh : l.ids[k] = i /\ o.ids[k] # 0)}
                    ELSE t[i]],
                [l EXCEPT !.landed = IF taken = {} THEN {} ELSE {l.ids[k] : k \in fresh},
                          !.failed = taken # {}], "on")
Undo(t, l) ==
    IF l.landed = {} THEN Unless(l.failed, "conflict", t, l)
    ELSE LET i == CHOOSE j \in l.landed : TRUE
         IN  After([t EXCEPT ![i] = {}], [l EXCEPT !.landed = @ \ {i}], "again")

\* One statement on the rows of a key that are in scope.
Matching(e, t, o) == IF e = "elasticsearch" THEN t[o.ids[1]] ELSE Found(e, t, o)

PatchWhere(e, t, c, o, l) ==
    LET i == o.ids[1]
        hit == Matching(e, t, o)
        patch(r) == IF e \in {"memory", "mongodb"} THEN Unkeyed(o, Patched(c, o, r))
                    ELSE Patched(c, o, r)
        to == [t EXCEPT ![i] = (@ \ hit) \cup {patch(r) : r \in hit}]
    IN  Unless(hit = {} /\ e # "clickhouse", "notfound", to, l)

RemoveWhere(e, t, o, l) ==
    LET hit == Matching(e, t, o)
    IN  Unless(hit = {} /\ e # "clickhouse", "notfound", [t EXCEPT ![o.ids[1]] = @ \ hit], l)

\* clickhouse's upsert clears the key when it saw a row there, whose ever it is.
RemoveSeen(t, o, l) ==
    After(IF l.seen = {} THEN t ELSE [t EXCEPT ![o.ids[1]] = {}], l, "on")

\* cassandra writes the patched cells under the key, row or no row.
WriteCells(t, c, o, l) ==
    LET i == o.ids[1]
        old == IF t[i] = {} THEN {[by |-> c, owner |-> "null", keyed |-> TRUE, dead |-> FALSE]}
               ELSE t[i]
    IN  After([t EXCEPT ![i] = {Patched(c, o, r) : r \in old}], l, "on")

\* influxdb writes the whole row it read, merged with the patch.
Rewrite(t, c, o, l) ==
    After([t EXCEPT ![o.ids[1]] = {Patched(c, o, r) : r \in l.seen}], l, "on")

\* A delete by key alone.
Erase(t, o, l) == After([t EXCEPT ![o.ids[1]] = {}], l, "on")

\* influxdb reads until the row is gone, or gives up.
PollGone(e, t, o, l) ==
    IF Found(e, t, o) = {} THEN After(t, l, "on") ELSE Refuse(t, l, "backend")

\* A page of a token walk, one row long: the next row in key order after the
\* cursor (0 before the first page).  A row without its key sorts first, or
\* last in elasticsearch, and never comes after a cursor.
Place(e, i, r) == IF r.keyed THEN i ELSE IF e = "elasticsearch" THEN Max(Ids) + 1 ELSE 0

Listed(t, o, l, soft) ==
    UNION {{i} \X {r \in t[i] : /\ InScope(o.viewer, r) /\ ~(soft /\ r.dead)
                                /\ l.paged => r.keyed /\ i > l.cursor} : i \in DOMAIN t}

\* Mutant: the cursor names the row after the page, and is exclusive.
NextPageSkips(e, t, o, l, soft) ==
    LET rows  == Listed(t, o, l, soft)
        first == {p \in rows : \A q \in rows : Place(e, p[1], p[2]) =< Place(e, q[1], q[2])}
    IN  IF Cardinality(rows) =< 1
        THEN After(t, [l EXCEPT !.got = @ \o SetToSeq({p[1] : p \in rows})], "on")
        ELSE UNION {After(t, [l EXCEPT !.got = Append(@, p[1]), !.paged = TRUE,
                                         !.cursor = p[1] + 1], "again") : p \in first}

NextPage(e, t, o, l, soft) ==
    LET rows  == Listed(t, o, l, soft)
        first == {p \in rows : \A q \in rows : Place(e, p[1], p[2]) =< Place(e, q[1], q[2])}
        turn(p) == [l EXCEPT !.got = Append(@, p[1]), !.paged = TRUE,
                             !.cursor = IF p[2].keyed \/ e = "elasticsearch" THEN p[1] ELSE 0]
    IN  IF Cardinality(rows) =< 1
        THEN After(t, [l EXCEPT !.got = @ \o SetToSeq({p[1] : p \in rows})], "on")
        ELSE UNION {IF e = "mongodb" /\ ~p[2].keyed THEN Refuse(t, l, "backend")
                    ELSE After(t, turn(p), "again") : p \in first}
MemoryPage(t, o, l, soft)     == NextPage("memory", t, o, l, soft)
SeaormPage(t, o, l, soft)     == NextPage("seaorm", t, o, l, soft)
MongoPage(t, o, l, soft)      == NextPage("mongodb", t, o, l, soft)
CassandraPage(t, o, l, soft)  == NextPage("cassandra", t, o, l, soft)
ElasticPage(t, o, l, soft)    == NextPage("elasticsearch", t, o, l, soft)
InfluxPage(t, o, l, soft)     == NextPage("influxdb", t, o, l, soft)
ClickhousePage(t, o, l, soft) == NextPage("clickhouse", t, o, l, soft)

Turn(e, t, o, l, soft) ==
    CASE e = "memory"     -> MemoryPage(t, o, l, soft)
      [] e = "seaorm"     -> SeaormPage(t, o, l, soft)
      [] e = "mongodb"    -> MongoPage(t, o, l, soft)
      [] e = "cassandra"  -> CassandraPage(t, o, l, soft)
      [] e = "influxdb"   -> InfluxPage(t, o, l, soft)
      [] e = "clickhouse" -> ClickhousePage(t, o, l, soft)
      [] OTHER            -> ElasticPage(t, o, l, soft)

(***************************************************************************)
(* The calls of each operation, in order.                                  *)
(***************************************************************************)
Generated(o) == \E k \in DOMAIN o.ids : o.ids[k] = 0
Times(o, call) == [k \in DOMAIN o.ids |-> call]

MemoryCreate(o) == <<"InsertClaimed">>
MemoryBatch(o)  == <<"InsertClaimed">>
MemoryUpdate(o) == <<"PatchWhere">>
MemoryUpsert(o) == <<"Put">>
MemoryDelete(o) == <<"RemoveWhere">>

SeaormCreate(o) == <<"InsertClaimed", "FetchUnscoped">>
SeaormBatch(o)  == <<"InsertClaimed", "FetchUnscoped">>
SeaormUpdate(o) == <<"PatchWhere", "Probe">>
SeaormUpsert(o) == <<"Put", "FetchUnscoped">>
SeaormDelete(o) == <<"RemoveWhere">>

MongoCreate(o) == IF Generated(o) THEN <<"NextIds", "InsertAll">> ELSE <<"InsertAll">>
MongoBatch(o)  == <<"NextIds", "InsertAll">>
MongoUpdate(o) == <<"PatchWhere", "Probe">>
MongoUpsert(o) == <<"Put">>
MongoDelete(o) == <<"RemoveWhere">>

\* Only an explicit key is inserted under IF NOT EXISTS.
CassandraCreate(o) == IF Generated(o) THEN <<"NextIds", "Put">> ELSE <<"InsertAll">>
\* Mutant: the row written back as it was read.
CassandraUpdateWhole(o)  == <<"Probe", "Rewrite">>
CassandraBatch(o)  == <<"NextIds", "InsertAll">>
CassandraUpdate(o) == <<"Probe", "WriteCells">>
CassandraUpsert(o) == <<"Put">>
CassandraDelete(o) == <<"Probe", "Erase">>

ElasticCreate(o) == IF Generated(o) THEN <<"NextIds", "Put">> ELSE <<"Put">>
ElasticBatch(o)  == <<"NextIds", "Bulk", "Undo">>
ElasticUpdate(o) == <<"ReadDoc", "Recheck", "PatchWhere", "ReadDoc", "Recheck">>
ElasticUpsert(o) == <<"Put">>
ElasticDelete(o) == <<"ReadDoc", "Recheck", "RemoveWhere">>

InfluxCreate(o) == IF Generated(o) THEN <<"NextIds", "Put">> ELSE <<"Put">>
InfluxBatch(o)  == <<"NextIds", "FetchAllIds", "Put">>
InfluxUpdate(o) == <<"Probe", "Rewrite">>
InfluxUpsert(o) == <<"Put">>
InfluxDelete(o) == <<"Probe", "Erase", "PollGone">>

ClickhouseCreate(o) ==
    IF Generated(o) THEN <<"NextIds", "Append1">> ELSE <<"EnsureIdFree", "Append1">>
ClickhouseBatch(o)  == <<"NextIds">> \o Times(o, "EnsureIdFree") \o Times(o, "Append1")
ClickhouseUpdate(o) == <<"Probe", "PatchWhere", "Probe">>
ClickhouseUpsert(o) == <<"Peek", "RemoveSeen", "Append1">>
ClickhouseDelete(o) == <<"Probe", "RemoveWhere">>

Creating(e, o) ==
    CASE e = "memory"     -> MemoryCreate(o)
      [] e = "seaorm"     -> SeaormCreate(o)
      [] e = "mongodb"    -> MongoCreate(o)
      [] e = "cassandra"  -> CassandraCreate(o)
      [] e = "influxdb"   -> InfluxCreate(o)
      [] e = "clickhouse" -> ClickhouseCreate(o)
      [] OTHER            -> ElasticCreate(o)
Batching(e, o) ==
    CASE e = "memory"     -> MemoryBatch(o)
      [] e = "seaorm"     -> SeaormBatch(o)
      [] e = "mongodb"    -> MongoBatch(o)
      [] e = "cassandra"  -> CassandraBatch(o)
      [] e = "influxdb"   -> InfluxBatch(o)
      [] e = "clickhouse" -> ClickhouseBatch(o)
      [] OTHER            -> ElasticBatch(o)
Updating(e, o) ==
    CASE e = "memory"     -> MemoryUpdate(o)
      [] e = "seaorm"     -> SeaormUpdate(o)
      [] e = "mongodb"    -> MongoUpdate(o)
      [] e = "cassandra"  -> CassandraUpdate(o)
      [] e = "influxdb"   -> InfluxUpdate(o)
      [] e = "clickhouse" -> ClickhouseUpdate(o)
      [] OTHER            -> ElasticUpdate(o)
Upserting(e, o) ==
    CASE e = "memory"     -> MemoryUpsert(o)
      [] e = "seaorm"     -> SeaormUpsert(o)
      [] e = "mongodb"    -> MongoUpsert(o)
      [] e = "cassandra"  -> CassandraUpsert(o)
      [] e = "influxdb"   -> InfluxUpsert(o)
      [] e = "clickhouse" -> ClickhouseUpsert(o)
      [] OTHER            -> ElasticUpsert(o)
Deleting(e, o) ==
    CASE e = "memory"     -> MemoryDelete(o)
      [] e = "seaorm"     -> SeaormDelete(o)
      [] e = "mongodb"    -> MongoDelete(o)
      [] e = "cassandra"  -> CassandraDelete(o)
      [] e = "influxdb"   -> InfluxDelete(o)
      [] e = "clickhouse" -> ClickhouseDelete(o)
      [] OTHER            -> ElasticDelete(o)

\* What the soft-delete decorator puts before and instead of them.
SoftUpdate(e, o)    == <<"NeedAlive">> \o Updating(e, o)
SoftTombstone(e, o) == <<"NeedAlive">> \o Updating(e, o)
SoftRestore(e, o)   == <<"NeedDead">> \o Updating(e, o)
SoftPurge(e, o)     == Deleting(e, o)

Plan(e, soft, o) ==
    CASE o.kind = "create" -> Creating(e, o)
      [] o.kind = "batch"  -> Batching(e, o)
      [] o.kind = "upsert" -> Upserting(e, o)
      [] o.kind = "update" -> IF soft THEN SoftUpdate(e, o) ELSE Updating(e, o)
      [] o.kind = "delete" -> Deleting(e, o)
      [] o.kind = "tombstone" -> SoftTombstone(e, o)
      [] o.kind = "restore"   -> SoftRestore(e, o)
      [] o.kind = "purge"     -> SoftPurge(e, o)
      [] OTHER -> <<"Turn">>

\* The outcomes of one call by client c.
Call(e, soft, call, t, c, o, l) ==
    CASE call = "InsertClaimed" -> InsertClaimed(t, c, o, l)
      [] call = "InsertAll"     -> InsertAll(t, c, o, l)
      [] call = "NextIds"       -> NextIds(t, o, l)
      [] call = "Put"           -> Put(t, c, o, l)
      [] call = "FetchUnscoped" -> FetchUnscoped(t, l)
      [] call = "FetchAllIds"   -> FetchAllIds(t, l)
      [] call = "EnsureIdFree"  -> EnsureIdFree(t, l)
      [] call = "Append1"       -> Append1(t, c, o, l)
      [] call = "Bulk"          -> Bulk(t, c, o, l)
      [] call = "Undo"          -> Undo(t, l)
      [] call = "PatchWhere"    -> PatchWhere(e, t, c, o, l)
      [] call = "RemoveWhere"   -> RemoveWhere(e, t, o, l)
      [] call = "RemoveSeen"    -> RemoveSeen(t, o, l)
      [] call = "WriteCells"    -> WriteCells(t, c, o, l)
      [] call = "Rewrite"       -> Rewrite(t, c, o, l)
      [] call = "Erase"         -> Erase(t, o, l)
      [] call = "PollGone"      -> PollGone(e, t, o, l)
      [] call = "Probe"         -> Probe(e, t, o, l)
      [] call = "Peek"          -> Peek(e, t, o, l)
      [] call = "ReadDoc"       -> ReadDoc(t, o, l)
      [] call = "Recheck"       -> Recheck(t, o, l)
      [] call = "NeedAlive"     -> AliveProbe(e, t, o, l, FALSE)
      [] call = "NeedDead"      -> AliveProbe(e, t, o, l, TRUE)
      [] call = "Turn"          -> Turn(e, t, o, l, soft)

-----------------------------------------------------------------------------
VARIABLES
    engine, soft,
    table,       \* key -> the rows stored under it
    op,          \* client -> its operation
    call,        \* client -> the call of the plan it is at; 0 before it starts
    local,       \* client -> what the operation holds between calls
    answer,      \* client -> "none" until it is answered
    touched,     \* client -> whether it has written the table
    prior,       \* client -> those that had been answered when it began
    steady,      \* client -> keys its walk could have listed ever since it began
    faults

tableVars == <<engine, soft, table, op, call, local, answer, touched, prior, steady, faults>>

Op(kind, ids, viewer, owner) ==
    [kind |-> kind, ids |-> ids, viewer |-> viewer, owner |-> owner,
     nullpk |-> FALSE, mark |-> CASE kind = "tombstone" -> "dead"
                                  [] kind = "restore"   -> "alive"
                                  [] OTHER              -> "keep"]
Idle == Op("none", <<1>>, "all", "a")

Creates == {Op("create", <<0>>, "all", "a"), Op("create", <<2>>, "all", "a")}
Batches == {Op("batch", ids, "all", "a") : ids \in {<<0, 0>>, <<2, 0>>, <<2, 1>>}}
Updates == {Op("update", <<1>>, "all", "b"), Op("update", <<1>>, "a", "same"),
            Op("update", <<1>>, "a", "b"),
            [Op("update", <<1>>, "all", "same") EXCEPT !.nullpk = TRUE]}
Upserts == {Op("upsert", <<1>>, v, "b") : v \in {"a", "all"}}
Deletes == {Op("delete", <<1>>, v, "same") : v \in {"a", "all"}}
Walks   == {Op("walk", <<1>>, v, "same") : v \in {"a", "all"}}
Tombstones == {Op("tombstone", <<1>>, v, "same") : v \in {"a", "all"}}
Restores   == {Op("restore", <<1>>, v, "same") : v \in {"a", "all"}}
Purges     == {Op("purge", <<1>>, v, "same") : v \in {"a", "all"}}

Operations ==
    Updates \cup Upserts \cup Walks \cup
    (IF soft THEN Tombstones \cup Restores \cup Purges
     ELSE Creates \cup Batches \cup Deletes)

Stored1(owner) == {[by |-> "seed", owner |-> owner, keyed |-> TRUE, dead |-> FALSE]}
Tables == {[i \in Ids |-> {}],
           [i \in Ids |-> IF i = 1 THEN Stored1("a") ELSE {}],
           [i \in Ids |-> IF i = 1 THEN Stored1("b") ELSE {}],
           [i \in Ids |-> IF i \in {1, 2} THEN Stored1("a") ELSE {}]}

Fresh(o) == [seen |-> {}, cleared |-> FALSE, ids |-> o.ids, item |-> 0, landed |-> {},
             failed |-> FALSE, fills |-> engine # "elasticsearch",
             paged |-> FALSE, cursor |-> 0, got |-> <<>>]

TableInit ==
    /\ engine \in Engines
    /\ soft \in Decorated
    /\ table \in Tables
    /\ op = [c \in Clients |-> Idle]
    /\ call = [c \in Clients |-> 0]
    /\ local = [c \in Clients |-> Fresh(Idle)]
    /\ answer = [c \in Clients |-> "none"]
    /\ touched = [c \in Clients |-> FALSE]
    /\ prior = [c \in Clients |-> {}]
    /\ steady = [c \in Clients |-> {}]
    /\ faults = 0

\* Keys whose row a walk must not miss.
Listable(c, o, t) ==
    {i \in Ids : t[i] # {} /\ \A r \in t[i] : r.keyed /\ InScope(o.viewer, r) /\ ~(soft /\ r.dead)}

Begin(c) ==
    /\ op[c] = Idle
    /\ \E o \in Operations :
         /\ op' = [op EXCEPT ![c] = o]
         /\ local' = [local EXCEPT ![c] = Fresh(o)]
         /\ steady' = [steady EXCEPT ![c] = IF o.kind = "walk" THEN Listable(c, o, table) ELSE {}]
    /\ call' = [call EXCEPT ![c] = 1]
    /\ prior' = [prior EXCEPT ![c] = {d \in Clients : answer[d] # "none"}]
    /\ UNCHANGED <<engine, soft, table, answer, touched, faults>>

Running(c) == call[c] > 0 /\ answer[c] = "none"
PlanOf(c)  == Plan(engine, soft, op[c])
Outcomes(c) == Call(engine, soft, PlanOf(c)[call[c]], table, c, op[c], local[c])

Applied(c, x) ==
    /\ table' = x.table
    /\ touched' = [touched EXCEPT ![c] = @ \/ x.table # table]
    /\ steady' = [d \in Clients |-> steady[d] \cap Listable(d, op[d], x.table)]

\* The next call of the plan, and what the engine makes of its outcome.
Step(c) ==
    /\ Running(c)
    /\ \E x \in Outcomes(c) :
         /\ Applied(c, x)
         /\ local' = [local EXCEPT ![c] = x.local]
         /\ \/ /\ x.says = "again"
               /\ UNCHANGED <<call, answer>>
            \/ /\ x.says = "on"
               /\ call' = [call EXCEPT ![c] = @ + 1]
               /\ answer' = [answer EXCEPT ![c] = IF call[c] = Len(PlanOf(c)) THEN "ok" ELSE @]
            \/ /\ x.says \notin {"on", "again"}
               /\ answer' = [answer EXCEPT ![c] = x.says]
               /\ UNCHANGED call
    /\ UNCHANGED <<engine, soft, op, prior, faults>>

\* The connection breaks under a call; the undo of a failed batch carries on.
LoseAnswer(c) ==
    /\ Running(c)
    /\ engine # "memory"
    /\ faults < MaxFaults
    /\ faults' = faults + 1
    /\ \E x \in Outcomes(c) \cup After(table, local[c], "lost") :
         /\ Applied(c, x)
         /\ IF PlanOf(c)[call[c]] = "Undo" /\ local[c].landed # {}
            THEN /\ local' = [local EXCEPT ![c].landed = @ \ {CHOOSE i \in @ : TRUE}]
                 /\ UNCHANGED answer
            ELSE /\ answer' = [answer EXCEPT ![c] = "backend"]
                 /\ UNCHANGED local
    /\ UNCHANGED <<engine, soft, op, call, prior>>

TableNext == \E c \in Clients : Begin(c) \/ Step(c) \/ LoseAnswer(c)

TableSpec == TableInit /\ [][TableNext]_tableVars

(***************************************************************************)
(* Properties.                                                             *)
(***************************************************************************)
Rows == [by : Clients \cup {"seed"}, owner : {"a", "b", "null"}, keyed : BOOLEAN, dead : BOOLEAN]

\* Tables hold rows, a unique one per key wherever the store enforces it, and
\* every operation stays inside its plan.
TableTypeOK ==
    /\ \A i \in Ids : table[i] \subseteq Rows
    /\ engine # "clickhouse" => \A i \in Ids : Cardinality(table[i]) =< 1
    /\ \A c \in Clients :
          /\ call[c] =< Len(PlanOf(c)) + 1
          /\ answer[c] \in {"none", "ok", "notfound", "conflict", "backend"}
          /\ local[c].landed \subseteq Ids

\* The operations that may rightly take a created row away or write over it.
Overwrites(o, i) ==
    o.kind \in {"update", "upsert", "delete", "tombstone", "restore", "purge"} /\ o.ids[1] = i
Created(c) == op[c].kind \in {"create", "batch"} /\ answer[c] = "ok"
Raced(c, d) == c \notin prior[d] /\ d \notin prior[c]

\* A row whose creation was answered ok is there, as it was written, unless an
\* operation on that key has begun since.  Where the store does not arbitrate
\* keys a create that raced with it may have taken it; influxdb also lets an
\* explicit key write over it, and elasticsearch promises nothing.
AnsweredCreatesStay ==
    engine # "elasticsearch" =>
    \A c \in Clients : Created(c) =>
        \A i \in Range(local[c].ids) :
           \/ \E r \in table[i] : r.by = c
           \/ \E d \in Clients \ {c} :
                \/ Overwrites(op[d], i)
                \/ engine = "cassandra" /\ op[d] = Op("create", <<0>>, "all", "a") /\ Raced(c, d)
                \/ engine = "influxdb"  /\ op[d].kind \in {"create", "batch"} /\ Raced(c, d)
                \/ engine = "influxdb"  /\ op[d].kind = "create" /\ op[d].ids[1] = i

\* The operations on a row that is there, in the viewer's scope.  An upsert is
\* none: no engine asks in whose scope the row is that it writes over, although
\* repository.rs:135 speaks of a row "visible in scope".
InPlace == {"update", "delete", "tombstone", "restore", "purge"}

\* An update or a delete, bare or by the soft-delete decorator, changes or removes
\* only rows in its viewer's scope, unless a probe of the same operation found a
\* row of the key there before; and it adds none under a key that holds none,
\* except in cassandra and influxdb, which write by key alone.
ScopeHolds ==
    [][\A c \in Clients, i \in Ids :
          (/\ op[c].kind \in InPlace /\ call[c] > 0
           /\ table' # table /\ (local'[c] # local[c] \/ call'[c] # call[c] \/ answer'[c] # answer[c]))
          => /\ local[c].cleared \/ \A r \in table[i] \ table'[i] : InScope(op[c].viewer, r)
             /\ engine \notin {"cassandra", "influxdb"} /\ table[i] = {} => table'[i] = {}]_tableVars

\* A batch refused for a conflict has left none of its rows behind, unless an
\* undo call was lost.  (clickhouse inserts one by one.)
FailedBatchLeavesNothing ==
    \A c \in Clients :
        (/\ op[c].kind = "batch" /\ answer[c] = "conflict"
         /\ engine # "clickhouse" /\ faults = 0)
        => \A i \in Ids : \A r \in table[i] : r.by # c

\* A write that was audited did write, and one that was refused did not: the
\* engines that probe first audit deletes that found nothing left to remove, and
\* those that read back may refuse an update or a create they have applied.
Rereads  == {"seaorm", "mongodb", "elasticsearch", "clickhouse"}
Probing  == {"cassandra", "influxdb", "clickhouse"}
AuditMatchesEffect ==
    \A c \in Clients :
        /\ (answer[c] = "ok" /\ op[c].kind # "walk") =>
              \/ touched[c]
                \/ /\ engine \in Probing
                   /\ op[c].kind \notin {"create", "batch", "upsert"}
        /\ (answer[c] \in {"notfound", "conflict"} /\ touched[c]) =>
              \/ engine \in Rereads  /\ op[c].kind \in {"update", "tombstone", "restore"}
              \/ engine = "seaorm" /\ op[c].kind \in {"create", "batch", "upsert"}
              \/ engine \in {"elasticsearch", "clickhouse"} /\ op[c].kind = "batch"

\* Following the page tokens lists every row that could be listed all through
\* the walk, and lists it once, whatever is written between the pages.
WalkIsComplete ==
    \A c \in Clients :
        (op[c].kind = "walk" /\ answer[c] = "ok")
        => /\ steady[c] \subseteq Range(local[c].got)
           /\ \A i \in steady[c] : Cardinality({k \in DOMAIN local[c].got : local[c].got[k] = i}) = 1

\* Behind soft delete, an update that raced with the tombstone does not bring
\* the row back.  (influxdb rewrites the row as it was read.)
TombstoneHolds ==
    [][\A c \in Clients, i \in Ids :
          (/\ engine # "influxdb" /\ op[c].kind = "update"
           /\ touched'[c] /\ ~touched[c]
           /\ table[i] # {} /\ \A r \in table[i] : r.dead)
          => \A r \in table'[i] : r.dead]_tableVars

-----------------------------------------------------------------------------
\* What was answered is what was done: creates stay, a refused batch leaves
\* nothing behind, and the audit tells what was written.
AnswersMatchTheTable ==
    TableTypeOK /\ AnsweredCreatesStay /\ FailedBatchLeavesNothing /\ AuditMatchesEffect

\* Updates and deletes (not upserts) keep to the rows in their viewer's scope, and
\* an update that races with a tombstone does not undo it.
ScopesAndTombstonesHold == ScopeHolds /\ TombstoneHolds
============================================================================
