----------------------------- MODULE BatchWrites -----------------------------
(* While the readings of a file are stored, Connection.batch defers the inserts:
   they wait in a list of their own for each statement, in the order in which
   the statements came first, and go to the database in chunks when the file is
   done.  What should come out is what inserting each row at once would give;
   that is kept beside in direct, which is no part of the program.

   A row is known by its table and key; it refers to the rows of other tables
   that the schema's foreign keys name.  The files of a transaction are stored
   one after another. *)
EXTENDS Naturals, Sequences, FiniteSets, SequencesExt, FiniteSetsExt

CONSTANTS None, Harnesses, \* of {"codex", "cli", "pi"}
          Roots,           \* sessions of files, and threads that own responses
          Agents, Cwds, Observations,
          Chunk,           \* 16384 in the code
          MaxSources, MaxRecords \* bounds

BatchWritesConstants == /\ Chunk \in Nat \ {0} /\ MaxSources \in Nat /\ MaxRecords \in Nat
                        /\ Harnesses \subseteq {"codex", "cli", "pi"} /\ None \notin Cwds

VARIABLES committed, \* the rows of the database
          ledger,    \* as the transaction sees them
          direct,    \* the ledger if every row were inserted at once
          pending,   \* None, or the deferred rows as a list of [sql, rows]
          flushing,  \* likewise, while they are inserted
          source,    \* the file that is stored, or None
          sources,   \* files stored or tried
          failed     \* the transaction has to be rolled back
vars == <<committed, ledger, direct, pending, flushing, source, sources, failed>>

Row(table, key, refs, value) == [table |-> table, key |-> key, refs |-> refs, value |-> value]
Id(row) == <<row.table, row.key>>
Put(db, row) == [id \in DOMAIN db \cup {Id(row)} |-> IF id = Id(row) THEN row ELSE db[id]]
(* INSERT OR IGNORE: the first of a key stays. *)
Insert(db, row) == IF Id(row) \in DOMAIN db THEN db ELSE Put(db, row)
Has(db, table, key) == <<table, key>> \in DOMAIN db
Stored(db, table, key) == IF Has(db, table, key) THEN db[<<table, key>>].value ELSE None

(* _insert_observation and what surrounds it, for the record at a line. *)
Measured(owner, record) ==
  LET obs == <<"observation", record.oid>>
      generation == <<"generation", source.number>>
  IN  <<Row("observation", record.oid, {<<"session", owner>>}, record.line),
        Row("appearance", <<source.number, record.line>>, {generation, obs}, None),
        Row("token", record.oid, {obs}, None), Row("estimate", record.oid, {obs}, None)>>
      \o (IF record.quantity THEN <<Row("quantity", record.oid, {obs}, None),
                                    Row("quantity_decision", record.oid, {obs, <<"session", owner>>}, None)>> ELSE <<>>)
      \o (IF source.harness # "pi" THEN <<Row("evidence", <<source.number, record.line>>, {generation, obs}, None)>> ELSE <<>>)
SessionRows(key, value) == <<Row("session", key, {}, value), Row("attribution", key, {<<"session", key>>}, None)>>
(* A response of another thread belongs to that thread's session. *)
Writes(record) ==
  IF source.harness = "codex" THEN SessionRows(record.owner, None) \o Measured(record.owner, record)
  ELSE Measured(source.root, record)
ChildRows(agents) == FlattenSeq([n \in DOMAIN agents |-> SessionRows(<<source.root, agents[n]>>, source.cwd)])
Opening == <<Row("edge", source.number, {<<"generation", source.number>>}, None)>>
           \o (IF source.harness = "codex" THEN <<Row("codex_source", source.number, {<<"generation", source.number>>}, None)>> ELSE <<>>)

(* execute inside a batch.  Slip: a statement seen for the first time goes first. *)
GroupFirst(groups, row) ==
  LET at == {n \in DOMAIN groups : groups[n].sql = row.table}
  IN  IF at = {} THEN <<[sql |-> row.table, rows |-> <<row>>]>> \o groups
      ELSE [n \in DOMAIN groups |-> IF n \in at THEN [groups[n] EXCEPT !.rows = Append(@, row)] ELSE groups[n]]
Group(groups, row) ==
  LET at == {n \in DOMAIN groups : groups[n].sql = row.table}
  IN  IF at = {} THEN Append(groups, [sql |-> row.table, rows |-> <<row>>])
      ELSE [n \in DOMAIN groups |-> IF n \in at THEN [groups[n] EXCEPT !.rows = Append(@, row)] ELSE groups[n]]

-----------------------------------------------------------------------------
Busy == source # None /\ ~failed
Batching == Busy /\ pending # None
Defer(rows) ==
  /\ pending' = FoldLeft(Group, pending, rows) /\ direct' = FoldLeft(Insert, direct, rows)
  /\ UNCHANGED <<committed, ledger, flushing, sources, failed>>

(* _import_source before the readings.  A file of the command line may show that
   its session moved, or contradict the directory the session has. *)
Contradicts(root, cwd, moved) ==
  \/ moved
  \/ Has(ledger, "diagnostic", root)
  \/ cwd # None /\ Stored(ledger, "session", root) \notin {None, cwd}
Before(root, harness, cwd, moved) ==
  LET known == FoldLeft(Insert, ledger, SessionRows(root, cwd))
      prior == Stored(ledger, "session", root)
      merged == IF harness # "cli" THEN known
                ELSE IF Contradicts(root, cwd, moved)
                     THEN FoldLeft(Put, known, <<Row("session", root, {}, None), Row("diagnostic", root, {}, TRUE)>>)
                     ELSE Put(known, Row("session", root, {}, IF prior # None THEN prior ELSE cwd))
  IN  Put(merged, Row("generation", sources + 1, {<<"session", root>>}, None))
StartSource(root, harness, cwd, moved) ==
  /\ source = None /\ ~failed /\ sources < MaxSources
  /\ moved => harness = "cli"
  /\ sources' = sources + 1
  /\ source' = [number |-> sources + 1, root |-> root, harness |-> harness, cwd |-> cwd,
                agents |-> <<>>, records |-> 0, open |-> FALSE, closed |-> FALSE]
  /\ ledger' = Before(root, harness, cwd, moved) /\ direct' = ledger'
  /\ UNCHANGED <<committed, pending, flushing, failed>>
StartBatch ==
  /\ Busy /\ pending = None /\ flushing = None /\ ~source.open
  /\ source' = [source EXCEPT !.open = TRUE]
  /\ pending' = FoldLeft(Group, <<>>, Opening) /\ direct' = FoldLeft(Insert, direct, Opening)
  /\ UNCHANGED <<committed, ledger, flushing, sources, failed>>
StoreRecord(oid, owner, quantity) ==
  /\ Batching /\ source.agents = <<>> /\ source.records < MaxRecords
  /\ source.harness = "codex" \/ owner = source.root
  /\ source' = [source EXCEPT !.records = @ + 1]
  /\ Defer(Writes([oid |-> oid, owner |-> owner, quantity |-> quantity, line |-> source.records + 1]))
StoreAgents(agents) ==
  /\ Batching /\ source.harness = "cli" /\ source.agents = <<>> /\ agents # <<>>
  /\ source' = [source EXCEPT !.agents = agents]
  /\ Defer(ChildRows(agents))

(* batch: what is pending is taken away before it is inserted. *)
EndBatch ==
  /\ Batching
  /\ flushing' = pending /\ pending' = None
  /\ UNCHANGED <<committed, ledger, direct, source, sources, failed>>
(* Slip: one row more than was inserted is taken off. *)
OneTooMany(rows) == SubSeq(rows, Chunk + 2, Len(rows))
Rest(rows) == SubSeq(rows, Chunk + 1, Len(rows))
FlushChunk ==
  /\ Busy /\ flushing # None /\ flushing # <<>>
  /\ LET rows == Head(flushing).rows IN
     /\ ledger' = FoldLeft(Insert, ledger, SubSeq(rows, 1, Min({Chunk, Len(rows)})))
     /\ flushing' = IF Len(rows) <= Chunk THEN Tail(flushing)
                    ELSE [flushing EXCEPT ![1] = [@ EXCEPT !.rows = Rest(rows)]]
  /\ UNCHANGED <<committed, direct, pending, source, sources, failed>>

(* The family of a session that moved has no directory.  Slip: the family is
   looked up among the sessions there were before the file. *)
Family(db, root) == {id \in DOMAIN db : id[1] = "session" /\ (id[2] = root \/ (id[2] \notin Roots /\ id[2][1] = root))}
Earlier(db, root) == Family(committed, root) \cup {<<"session", root>>}
Kin(db, root) == Family(db, root)
Unplace(db, root) ==
  LET family == Kin(db, root)
  IN  [id \in DOMAIN db |-> IF id \in family THEN Row("session", id[2], {}, None) ELSE db[id]]
Unplaced(db) == IF source.harness = "cli" /\ Has(db, "diagnostic", source.root) THEN Unplace(db, source.root) ELSE db
EndSource ==
  /\ Busy /\ flushing = <<>>
  /\ ledger' = Unplaced(ledger) /\ direct' = Unplaced(direct)
  /\ flushing' = None /\ source' = None
  /\ UNCHANGED <<committed, pending, sources, failed>>

(* A row is refused, or a reader's evidence does not fit its record: batch drops
   what is pending, and the error ends the transaction.  Slip: batch does not. *)
Keep(groups) == groups
Dropped(groups) == None
Fail ==
  /\ Busy /\ (pending # None \/ flushing # None)
  /\ pending' = Dropped(pending) /\ flushing' = None /\ failed' = TRUE
  /\ UNCHANGED <<committed, ledger, direct, source, sources>>
(* Slip: what was inserted before the failure stays. *)
Inserted == ledger
Undone == committed
Rollback ==
  /\ failed
  /\ ledger' = Undone /\ direct' = Undone /\ source' = None /\ failed' = FALSE
  /\ UNCHANGED <<committed, pending, flushing, sources>>
Commit ==
  /\ source = None /\ ~failed /\ committed # ledger
  /\ committed' = ledger /\ UNCHANGED <<ledger, direct, pending, flushing, source, sources, failed>>

Init == /\ committed = <<>> /\ ledger = <<>> /\ direct = <<>>
        /\ pending = None /\ flushing = None /\ source = None /\ sources = 0 /\ failed = FALSE
Next ==
  \/ \E root \in Roots, harness \in Harnesses, cwd \in Cwds \cup {None}, moved \in BOOLEAN : StartSource(root, harness, cwd, moved)
  \/ StartBatch \/ EndBatch \/ FlushChunk \/ EndSource \/ Fail \/ Rollback \/ Commit
  \/ \E oid \in Observations, owner \in Roots, quantity \in BOOLEAN : StoreRecord(oid, owner, quantity)
  \/ \E agents \in BoundedSeq(Agents, Cardinality(Agents)) : StoreAgents(agents)
Spec == Init /\ [][Next]_vars

-----------------------------------------------------------------------------
TypeOK ==
  /\ sources \in 0 .. MaxSources /\ failed \in BOOLEAN
  /\ pending = None \/ flushing = None
  /\ source = None => pending = None /\ flushing = None

(* Between two files the tables hold what inserting every row at once would have
   put there: nothing was left in the list, and of two rows of a key the same
   one stayed. *)
SameAsDirect == source = None => ledger = direct

(* Whatever was inserted so far refers to rows that are there: the groups, each
   inserted as a whole, never put a row before the one it belongs to. *)
ParentsFirst == \A id \in DOMAIN ledger : ledger[id].refs \subseteq DOMAIN ledger

(* Nothing of a file that failed is in the database, and a file that is in it is
   there as a whole. *)
WholeFiles ==
  /\ \A id \in DOMAIN committed : committed[id].refs \subseteq DOMAIN committed
  /\ \A n \in 1 .. sources : Has(committed, "generation", n) <=> Has(committed, "edge", n)

(* A session that is known to have moved has no directory, nor has any of its
   agents', the ones the last file brought included. *)
FamilyUnplaced ==
  source = None => \A root \in Roots :
    Has(ledger, "diagnostic", root) => \A id \in Family(ledger, root) : ledger[id].value = None
=============================================================================
