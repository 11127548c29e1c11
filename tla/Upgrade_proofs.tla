--------------------------- MODULE Upgrade_proofs ---------------------------
(***************************************************************************)
(* What opening the metadata store preserves, for every file, every number *)
(* of entries and every number of crashes.                                 *)
(***************************************************************************)
EXTENDS Upgrade, SequenceTheorems, TLAPS

AllTables == {"users", "connections", "permissions", "audit_log"}

Rebuilt(d) == Dropped(Copied(Created(Renamed(d))))

ResolvedLog(log, rows) == [i \in DOMAIN log |-> Resolved(log[i], rows)]

ForgettingLog(log, p, id) == [i \in DOMAIN log |-> Forgetting(log[i], p, id)]

\* The inductive invariant: what each step of Open may rely on.  Within the
\* transaction, db is known from disk alone.
Progress ==
  /\ disk.onDelete = "SET NULL" => Dangling(disk) \subseteq lost
  /\ "audit_log" \notin disk.tables => disk.log = << >>
  /\ at \in {"closed", "tables", "column", "inspect", "rename", "open"}
       => db = disk
  /\ at \notin {"closed", "tables"} => AllTables \subseteq disk.tables
  /\ at \notin {"closed", "tables", "column"} => disk.serviceName
  /\ at = "create" => db = Renamed(disk)
  /\ at = "copy" => db = Created(Renamed(disk))
  /\ at = "drop" => db = Copied(Created(Renamed(disk)))
  /\ at = "commit" => db = Rebuilt(disk)
  /\ at = "open" => disk.onDelete = "SET NULL"

IInv == TypeOK /\ HistoryKept /\ Progress

----------------------------------------------------------------------------
(* Entries and files *)

\* An entry that forgets what is gone is an entry of the same statement.
LEMMA ResolvedEntry ==
  ASSUME NEW e \in Entry, NEW rows \in [Parents -> SUBSET Ids]
  PROVE  /\ Resolved(e, rows) \in Entry
         /\ Resolved(e, rows).statement = e.statement
         /\ \A p \in Parents : ~Dangles(Resolved(e, rows), p, rows)
         /\ \A p \in Parents :
              Resolved(e, rows).ref[p] # e.ref[p] =>
                /\ Resolved(e, rows).ref[p] = Null
                /\ e.ref[p] \notin rows[p]
<1> DEFINE ref == [p \in Parents |-> IF e.ref[p] \in rows[p] THEN e.ref[p]
                                     ELSE Null]
<1>1. ref \in [Parents -> Ids \cup {Null}]
  BY DEF Entry
<1>2. Resolved(e, rows) = [ref |-> ref, statement |-> e.statement]
  BY DEF Resolved, Entry
<1>3. \A p \in Parents : ref[p] \in rows[p] \cup {Null}
  OBVIOUS
<1> HIDE DEF ref
<1>4. Resolved(e, rows).ref = ref
  BY <1>2
<1> QED
  BY <1>1, <1>2, <1>3, <1>4 DEF Entry, Dangles, ref

\* A log whose entries forget what is gone is the same log otherwise.
LEMMA ResolvedLogSound ==
  ASSUME NEW log \in Seq(Entry), NEW rows \in [Parents -> SUBSET Ids]
  PROVE  /\ ResolvedLog(log, rows) \in Seq(Entry)
         /\ DOMAIN ResolvedLog(log, rows) = DOMAIN log
         /\ Statements(ResolvedLog(log, rows)) = Statements(log)
         /\ \A i \in DOMAIN log, p \in Parents :
              ~Dangles(ResolvedLog(log, rows)[i], p, rows)
<1>1. Len(log) \in Nat /\ DOMAIN log = 1..Len(log)
  BY LenProperties
<1>2. \A i \in DOMAIN log : log[i] \in Entry
  BY ElementOfSeq, <1>1
<1>3. ResolvedLog(log, rows) \in [1..Len(log) -> Entry]
  BY <1>1, <1>2, ResolvedEntry DEF ResolvedLog
<1>4. \A i \in DOMAIN log :
        ResolvedLog(log, rows)[i].statement = log[i].statement
  BY <1>2, ResolvedEntry DEF ResolvedLog
<1>5. DOMAIN ResolvedLog(log, rows) = DOMAIN log
  BY DEF ResolvedLog
<1>6. ResolvedLog(log, rows) \in Seq(Entry)
  BY <1>1, <1>3, SeqDef
<1>7. Statements(ResolvedLog(log, rows)) = Statements(log)
  BY <1>4, <1>5 DEF Statements
<1>8. \A i \in DOMAIN log, p \in Parents :
        ~Dangles(ResolvedLog(log, rows)[i], p, rows)
  BY <1>2, ResolvedEntry DEF ResolvedLog
<1> QED
  BY <1>5, <1>6, <1>7, <1>8

\* An entry that forgets one reference is otherwise the same.
LEMMA ForgettingEntry ==
  ASSUME NEW e \in Entry, NEW p \in Parents, NEW id \in Ids
  PROVE  /\ Forgetting(e, p, id) \in Entry
         /\ Forgetting(e, p, id).statement = e.statement
         /\ \A q \in Parents :
              Forgetting(e, p, id).ref[q] # e.ref[q] =>
                /\ Forgetting(e, p, id).ref[q] = Null
                /\ q = p /\ e.ref[q] = id
<1>1. CASE e.ref[p] # id
  BY <1>1 DEF Forgetting
<1>2. CASE e.ref[p] = id
  <2> DEFINE ref == [e.ref EXCEPT ![p] = Null]
  <2>1. ref \in [Parents -> Ids \cup {Null}]
    BY DEF Entry
  <2>2. Forgetting(e, p, id) = [ref |-> ref, statement |-> e.statement]
    BY <1>2 DEF Forgetting, Entry
  <2>3. ref[p] = Null /\ \A q \in Parents : q # p => ref[q] = e.ref[q]
    BY DEF Entry
  <2> HIDE DEF ref
  <2>4. Forgetting(e, p, id).ref = ref
    BY <2>2
  <2> QED
    BY <1>2, <2>1, <2>2, <2>3, <2>4 DEF Entry
<1> QED
  BY <1>1, <1>2

\* It leads to no row only where it did not before, once that one has gone.
LEMMA ForgettingDangles ==
  ASSUME NEW e \in Entry, NEW p \in Parents, NEW id \in Ids,
         NEW q \in Parents, NEW rows \in [Parents -> SUBSET Ids],
         Dangles(Forgetting(e, p, id), q, [rows EXCEPT ![p] = @ \ {id}])
  PROVE  Dangles(e, q, rows)
<1> DEFINE left == [rows EXCEPT ![p] = @ \ {id}]
<1>1. left[q] = IF q = p THEN rows[q] \ {id} ELSE rows[q]
  OBVIOUS
<1>2. Dangles(Forgetting(e, p, id), q, left)
  OBVIOUS
<1> HIDE DEF left
<1>3. Forgetting(e, p, id).ref[q] \notin left[q] \cup {Null}
  BY <1>2 DEF Dangles
<1>4. Forgetting(e, p, id).ref[q] = e.ref[q]
  BY <1>3, ForgettingEntry
<1>5. q = p => e.ref[q] # id
  <2> SUFFICES ASSUME q = p, e.ref[q] = id PROVE FALSE
    OBVIOUS
  <2>1. Forgetting(e, p, id) = [e EXCEPT !.ref[p] = Null]
    BY DEF Forgetting
  <2>2. Forgetting(e, p, id).ref[q] = Null
    BY <2>1 DEF Entry
  <2> QED
    BY <1>3, <2>2
<1> QED
  BY <1>1, <1>3, <1>4, <1>5 DEF Dangles

LEMMA ForgettingLogSound ==
  ASSUME NEW log \in Seq(Entry), NEW p \in Parents, NEW id \in Ids,
         NEW rows \in [Parents -> SUBSET Ids]
  PROVE  /\ ForgettingLog(log, p, id) \in Seq(Entry)
         /\ DOMAIN ForgettingLog(log, p, id) = DOMAIN log
         /\ Statements(ForgettingLog(log, p, id)) = Statements(log)
         /\ \A i \in DOMAIN log, q \in Parents :
              Dangles(ForgettingLog(log, p, id)[i], q,
                      [rows EXCEPT ![p] = @ \ {id}])
                => Dangles(log[i], q, rows)
<1>1. Len(log) \in Nat /\ DOMAIN log = 1..Len(log)
  BY LenProperties
<1>2. \A i \in DOMAIN log : log[i] \in Entry
  BY ElementOfSeq, <1>1
<1>3. ForgettingLog(log, p, id) \in [1..Len(log) -> Entry]
  BY <1>1, <1>2, ForgettingEntry DEF ForgettingLog
<1>4. \A i \in DOMAIN log :
        ForgettingLog(log, p, id)[i].statement = log[i].statement
  <2> SUFFICES ASSUME NEW i \in DOMAIN log
               PROVE  ForgettingLog(log, p, id)[i].statement = log[i].statement
    OBVIOUS
  <2>1. ForgettingLog(log, p, id)[i] = Forgetting(log[i], p, id)
    BY DEF ForgettingLog
  <2>2. Forgetting(log[i], p, id).statement = log[i].statement
    BY <1>2, ForgettingEntry
  <2> QED
    BY <2>1, <2>2
<1>5. DOMAIN ForgettingLog(log, p, id) = DOMAIN log
  BY DEF ForgettingLog
<1>6. ForgettingLog(log, p, id) \in Seq(Entry)
  BY <1>1, <1>3, SeqDef
<1>7. Statements(ForgettingLog(log, p, id)) = Statements(log)
  BY <1>4, <1>5 DEF Statements
<1>8. \A i \in DOMAIN log, q \in Parents :
        Dangles(ForgettingLog(log, p, id)[i], q, [rows EXCEPT ![p] = @ \ {id}])
          => Dangles(log[i], q, rows)
  <2> SUFFICES ASSUME NEW i \in DOMAIN log, NEW q \in Parents
               PROVE  Dangles(ForgettingLog(log, p, id)[i], q,
                              [rows EXCEPT ![p] = @ \ {id}])
                        => Dangles(log[i], q, rows)
    OBVIOUS
  <2>1. ForgettingLog(log, p, id)[i] = Forgetting(log[i], p, id)
    BY DEF ForgettingLog
  <2>2. Dangles(Forgetting(log[i], p, id), q, [rows EXCEPT ![p] = @ \ {id}])
          => Dangles(log[i], q, rows)
    BY <1>2, ForgettingDangles
  <2> QED
    BY <2>1, <2>2
<1> QED
  BY <1>5, <1>6, <1>7, <1>8

\* The transaction replaces the log by one without dangling references, and
\* the clause of its references, and nothing else.
LEMMA RebuiltSound ==
  ASSUME NEW d \in Database, "audit_log_old" \notin d.tables, d.old = << >>,
         AllTables \subseteq d.tables
  PROVE  /\ Renamed(d) \in Database
         /\ Created(Renamed(d)) \in Database
         /\ Copied(Created(Renamed(d))) \in Database
         /\ Rebuilt(d) \in Database
         /\ Rebuilt(d).tables = d.tables
         /\ Rebuilt(d).serviceName = d.serviceName
         /\ Rebuilt(d).onDelete = "SET NULL"
         /\ Rebuilt(d).rows = d.rows
         /\ Rebuilt(d).log = ResolvedLog(d.log, d.rows)
         /\ Rebuilt(d).old = << >>
<1> DEFINE r == Renamed(d)
           c == Created(r)
           k == Copied(c)
<1>1. d.log \in Seq(Entry) /\ d.rows \in [Parents -> SUBSET Ids]
  BY DEF Database
<1>2. << >> \in Seq(Entry)
  BY EmptySeq
<1>3. ResolvedLog(d.log, d.rows) \in Seq(Entry)
  BY <1>1, ResolvedLogSound
<1>4. /\ r \in Database
      /\ r.tables = (d.tables \ {"audit_log"}) \cup {"audit_log_old"}
      /\ r.serviceName = d.serviceName /\ r.rows = d.rows /\ r.old = d.log
  BY <1>1, <1>2 DEF Renamed, Database
<1> HIDE DEF r
<1>5. /\ c \in Database
      /\ c.tables = r.tables \cup {"audit_log"}
      /\ c.serviceName = d.serviceName /\ c.rows = d.rows /\ c.old = d.log
      /\ c.onDelete = "SET NULL"
  BY <1>4 DEF Created, Database
<1> HIDE DEF c
<1>6. k = [c EXCEPT !.log = ResolvedLog(d.log, d.rows)]
  BY <1>5 DEF Copied, ResolvedLog
<1> HIDE DEF k
<1>7. /\ k \in Database /\ k.tables = c.tables
      /\ k.serviceName = d.serviceName /\ k.rows = d.rows
      /\ k.onDelete = "SET NULL" /\ k.log = ResolvedLog(d.log, d.rows)
  BY <1>3, <1>5, <1>6 DEF Database
<1>8. k.tables \ {"audit_log_old"} = d.tables
  BY <1>4, <1>5, <1>7 DEF AllTables
<1>9. Dropped(k) = [k EXCEPT !.tables = d.tables, !.old = << >>]
  BY <1>8 DEF Dropped
<1>10. /\ Dropped(k) \in Database /\ Dropped(k).tables = d.tables
       /\ Dropped(k).serviceName = d.serviceName /\ Dropped(k).rows = d.rows
       /\ Dropped(k).onDelete = "SET NULL" /\ Dropped(k).old = << >>
       /\ Dropped(k).log = ResolvedLog(d.log, d.rows)
  BY <1>2, <1>7, <1>9 DEF Database
<1> QED
  BY <1>4, <1>5, <1>7, <1>10 DEF r, c, k, Rebuilt

----------------------------------------------------------------------------
(* The files there are in the beginning *)

LEMMA InitEstablishes == Init => IInv
<1> SUFFICES ASSUME Init PROVE IInv
  OBVIOUS
<1>1. 0 \in 0..MaxCrashes
  BY UpgradeAssumption
<1>2. CASE disk = NewFile
  <2>1. disk \in Database
    BY <1>2, EmptySeq DEF NewFile, Database
  <2>2. Statements(disk.log) = << >>
    BY <1>2 DEF NewFile, Statements
  <2>3. history \in Seq(1..MaxEntries)
    BY <2>2, EmptySeq DEF Init
  <2>4. lost = {}
    BY <1>2 DEF Init, NewFile
  <2> QED
    BY <1>1, <1>2, <2>1, <2>2, <2>3, <2>4
    DEF Init, IInv, TypeOK, HistoryKept, Progress, NewFile
<1>3. CASE disk \in OldFiles(Logs)
  <2>1. disk.log \in Logs /\ disk.tables = AllTables /\ disk.old = << >>
    BY <1>3 DEF OldFiles, AllTables
  <2>2. PICK n \in 0..MaxEntries : disk.log \in [1..n -> Entry]
    BY <2>1 DEF Logs
  <2>3. disk.log \in Seq(Entry)
    BY <2>2, SeqDef, UpgradeAssumption
  <2>4. disk \in Database
    BY <1>3, <2>3, EmptySeq DEF OldFiles, Database
  <2>5. Statements(disk.log) \in [1..n -> 1..MaxEntries]
    BY <2>2 DEF Statements, Entry
  <2>6. Statements(disk.log) \in Seq(1..MaxEntries)
    BY <2>5, SeqDef, UpgradeAssumption
  <2>7. disk.onDelete = "SET NULL" => Dangling(disk) \subseteq lost
    BY DEF Init
  <2>8. lost \subseteq (1..MaxEntries) \X Parents
    <3>1. DOMAIN disk.log \subseteq 1..MaxEntries
      BY <2>2, UpgradeAssumption
    <3>2. Dangling(disk) \subseteq (DOMAIN disk.log) \X Parents
      BY DEF Dangling
    <3> QED
      BY <3>1, <3>2 DEF Init
  <2> QED
    BY <1>1, <2>1, <2>4, <2>6, <2>7, <2>8
    DEF Init, IInv, TypeOK, HistoryKept, Progress, AllTables
<1> QED
  BY <1>2, <1>3 DEF Init

----------------------------------------------------------------------------
(* The steps of Open *)

\* A step that commits one database in the place of another with the same
\* entries.
LEMMA StartStep ==
  ASSUME IInv, Start
  PROVE  IInv'
BY DEF IInv, TypeOK, HistoryKept, Progress, Start, Commits, Then

LEMMA CreateTableStep ==
  ASSUME IInv, CreateTable
  PROVE  IInv'
<1> DEFINE first == CHOOSE i \in Missing : \A j \in Missing : i <= j
           table == Schema[first]
           next == [db EXCEPT
                      !.tables = @ \cup {table},
                      !.serviceName =
                        IF table = "connections" THEN TRUE ELSE @,
                      !.onDelete = IF table = "audit_log" THEN "SET NULL"
                                   ELSE @]
<1>1. db = disk /\ disk \in Database
  BY DEF IInv, Progress, TypeOK, CreateTable
<1>2. disk' = next /\ db' = next /\ at' = "tables" /\ at = "tables"
      /\ UNCHANGED <<history, crashes, lost>>
  BY DEF CreateTable, Commits, Then
<1>3. Missing \subseteq {1, 2, 3, 4} /\ Missing # {}
  BY DEF Missing, Schema, CreateTable
<1>4. first \in Missing
  <2>1. \E i \in Missing : \A j \in Missing : i <= j
    <3>1. CASE 1 \in Missing
      BY <1>3, <3>1
    <3>2. CASE 1 \notin Missing /\ 2 \in Missing
      BY <1>3, <3>2
    <3>3. CASE 1 \notin Missing /\ 2 \notin Missing /\ 3 \in Missing
      BY <1>3, <3>3
    <3>4. CASE Missing = {4}
      BY <3>4
    <3> QED
      BY <1>3, <3>1, <3>2, <3>3, <3>4
  <2> QED
    BY <2>1
<1> HIDE DEF first
<1>5. table \in AllTables /\ table \notin disk.tables
  <2>1. first \in {1, 2, 3, 4} /\ Schema[first] \notin db.tables
    BY <1>3, <1>4 DEF Missing
  <2> QED
    BY <1>1, <2>1 DEF Schema, AllTables
<1> HIDE DEF table
<1>6. /\ next.log = disk.log /\ next.rows = disk.rows /\ next.old = disk.old
      /\ next.tables = disk.tables \cup {table}
      /\ next.onDelete = IF table = "audit_log" THEN "SET NULL"
                         ELSE disk.onDelete
      /\ next \in Database
  BY <1>1, <1>5 DEF Database, AllTables
<1> HIDE DEF next
<1>7. table = "audit_log" => Dangling(next) = {}
  <2>1. table = "audit_log" => next.log = << >>
    BY <1>5, <1>6 DEF IInv, Progress
  <2>2. DOMAIN << >> = {}
    OBVIOUS
  <2> QED
    BY <2>1, <2>2 DEF Dangling
<1>8. TypeOK' /\ HistoryKept'
  BY <1>2, <1>5, <1>6 DEF IInv, TypeOK, HistoryKept, AllTables
<1>9. next.onDelete = "SET NULL" => Dangling(next) \subseteq lost
  BY <1>6, <1>7 DEF IInv, Progress, Dangling
<1>10. "audit_log" \notin next.tables => next.log = << >>
  BY <1>6 DEF IInv, Progress
<1>11. Progress'
  BY <1>2, <1>9, <1>10 DEF Progress
<1> QED
  BY <1>8, <1>11 DEF IInv

LEMMA TablesExistStep ==
  ASSUME IInv, TablesExist
  PROVE  IInv'
<1>1. AllTables \subseteq db.tables
  BY DEF TablesExist, Missing, Schema, AllTables
<1> QED
  BY <1>1 DEF IInv, TypeOK, HistoryKept, Progress, TablesExist, Then

LEMMA AddServiceNameColumnStep ==
  ASSUME IInv, AddServiceNameColumn
  PROVE  IInv'
<1> DEFINE next == [db EXCEPT !.serviceName = TRUE]
<1>1. disk' = next /\ db' = next /\ at' = "inspect" /\ at = "column"
      /\ UNCHANGED <<history, crashes, lost>>
      /\ db = disk /\ disk \in Database
  BY DEF AddServiceNameColumn, Commits, Then, IInv, Progress, TypeOK
<1>2. /\ next.log = disk.log /\ next.rows = disk.rows /\ next.old = disk.old
      /\ next.tables = disk.tables /\ next.onDelete = disk.onDelete
      /\ next.serviceName /\ next \in Database
  BY <1>1 DEF Database
<1> HIDE DEF next
<1> QED
  BY <1>1, <1>2 DEF IInv, TypeOK, HistoryKept, Progress, Dangling

LEMMA NeedsMigrationStep ==
  ASSUME IInv, NeedsMigration
  PROVE  IInv'
BY DEF IInv, TypeOK, HistoryKept, Progress, NeedsMigration, Then

LEMMA RebuildStep ==
  ASSUME IInv,
         RenameAuditLog \/ CreateAuditLog \/ CopyEntries \/ DropOldAuditLog
  PROVE  IInv'
<1>1. /\ disk \in Database /\ "audit_log_old" \notin disk.tables
      /\ disk.old = << >> /\ AllTables \subseteq disk.tables
      /\ UNCHANGED <<disk, history, crashes, lost>>
  BY DEF IInv, TypeOK, Progress, RenameAuditLog, CreateAuditLog, CopyEntries,
         DropOldAuditLog, InTransaction, Then
<1>2. CASE RenameAuditLog
  <2>1. db' = Renamed(disk) /\ at = "rename" /\ at' = "create"
    BY <1>2 DEF IInv, Progress, RenameAuditLog, InTransaction, Then
  <2> QED
    BY <1>1, <2>1, RebuiltSound
    DEF IInv, TypeOK, HistoryKept, Progress
<1>3. CASE CreateAuditLog
  <2>1. db' = Created(Renamed(disk)) /\ at = "create" /\ at' = "copy"
    BY <1>3 DEF IInv, Progress, CreateAuditLog, InTransaction, Then
  <2> QED
    BY <1>1, <2>1, RebuiltSound
    DEF IInv, TypeOK, HistoryKept, Progress
<1>4. CASE CopyEntries
  <2>1. db' = Copied(Created(Renamed(disk))) /\ at = "copy" /\ at' = "drop"
    BY <1>4 DEF IInv, Progress, CopyEntries, InTransaction, Then
  <2> QED
    BY <1>1, <2>1, RebuiltSound
    DEF IInv, TypeOK, HistoryKept, Progress
<1>5. CASE DropOldAuditLog
  <2>1. db' = Rebuilt(disk) /\ at = "drop" /\ at' = "commit"
    BY <1>5 DEF IInv, Progress, DropOldAuditLog, InTransaction, Then, Rebuilt
  <2> QED
    BY <1>1, <2>1, RebuiltSound
    DEF IInv, TypeOK, HistoryKept, Progress
<1> QED
  BY <1>2, <1>3, <1>4, <1>5

LEMMA CommitStep ==
  ASSUME IInv, Commit
  PROVE  IInv'
<1>1. /\ disk \in Database /\ "audit_log_old" \notin disk.tables
      /\ disk.old = << >> /\ AllTables \subseteq disk.tables
      /\ disk' = Rebuilt(disk) /\ db' = disk' /\ at = "commit" /\ at' = "open"
      /\ UNCHANGED <<history, crashes, lost>>
  BY DEF IInv, TypeOK, Progress, Commit, Commits, Then
<1>2. /\ disk' \in Database
      /\ disk'.log = ResolvedLog(disk.log, disk.rows)
      /\ disk'.rows = disk.rows /\ disk'.tables = disk.tables
      /\ disk'.serviceName = disk.serviceName /\ disk'.old = << >>
      /\ disk'.onDelete = "SET NULL"
  BY <1>1, RebuiltSound DEF Database
<1>3. disk.log \in Seq(Entry) /\ disk.rows \in [Parents -> SUBSET Ids]
  BY <1>1 DEF Database
<1>4. Dangling(disk') = {}
  BY <1>2, <1>3, ResolvedLogSound DEF Dangling
<1>5. Statements(disk'.log) = Statements(disk.log)
  BY <1>2, <1>3, ResolvedLogSound
<1>6. TypeOK' /\ HistoryKept'
  BY <1>1, <1>2, <1>5 DEF IInv, TypeOK, HistoryKept
<1>7. Progress'
  BY <1>1, <1>2, <1>4 DEF IInv, Progress, AllTables
<1> QED
  BY <1>6, <1>7 DEF IInv

----------------------------------------------------------------------------
(* The steps of the open store, and the crash *)

\* While the store is open nothing is pending.
LEMMA OpenFacts ==
  ASSUME IInv, at = "open"
  PROVE  /\ db = disk /\ disk \in Database
         /\ "audit_log_old" \notin disk.tables /\ disk.old = << >>
         /\ AllTables \subseteq disk.tables /\ disk.serviceName
         /\ disk.onDelete = "SET NULL" /\ Dangling(disk) \subseteq lost
         /\ Statements(disk.log) = history
         /\ disk.log \in Seq(Entry) /\ disk.rows \in [Parents -> SUBSET Ids]
         /\ history \in Seq(1..MaxEntries) /\ crashes \in 0..MaxCrashes
         /\ lost \subseteq (1..MaxEntries) \X Parents
BY DEF IInv, TypeOK, HistoryKept, Progress, Database

\* A step of the open store that changes rows and the log alone.
LEMMA OpenStep ==
  ASSUME IInv, at = "open", UNCHANGED <<at, crashes, lost>>,
         NEW rows \in [Parents -> SUBSET Ids], NEW log \in Seq(Entry),
         disk' = [disk EXCEPT !.rows = rows, !.log = log], db' = disk',
         \A i \in DOMAIN log, p \in Parents :
           Dangles(log[i], p, rows) => <<i, p>> \in lost,
         history' \in Seq(1..MaxEntries), Statements(log) = history'
  PROVE  IInv'
<1>1. /\ disk' \in Database /\ disk'.rows = rows /\ disk'.log = log
      /\ disk'.tables = disk.tables /\ disk'.old = disk.old
      /\ disk'.serviceName = disk.serviceName
      /\ disk'.onDelete = disk.onDelete
  BY OpenFacts DEF Database
<1>2. Dangling(disk') \subseteq lost
  <2> SUFFICES ASSUME NEW r \in Dangling(disk') PROVE r \in lost
    OBVIOUS
  <2>1. PICK i \in DOMAIN log : \E p \in Parents : r = <<i, p>>
    BY <1>1 DEF Dangling
  <2>2. PICK p \in Parents : r = <<i, p>>
    BY <2>1
  <2> QED
    BY <1>1, <2>1, <2>2 DEF Dangling
<1>3. TypeOK' /\ HistoryKept'
  BY <1>1, OpenFacts DEF TypeOK, HistoryKept, AllTables
<1>4. Progress'
  BY <1>1, <1>2, OpenFacts DEF Progress, AllTables
<1> QED
  BY <1>3, <1>4 DEF IInv

\* What leads to no row while the store is open is known to.
LEMMA Known ==
  ASSUME IInv, at = "open"
  PROVE  \A i \in DOMAIN disk.log, p \in Parents :
           Dangles(disk.log[i], p, disk.rows) => <<i, p>> \in lost
BY OpenFacts DEF Dangling

LEMMA InsertRowStep ==
  ASSUME IInv, InsertRow
  PROVE  IInv'
<1>1. at = "open" /\ UNCHANGED <<at, history, crashes, lost>>
  BY DEF InsertRow
<1>2. PICK p \in Parents, id \in Ids :
        disk' = [db EXCEPT !.rows[p] = @ \cup {id}] /\ db' = disk'
  BY DEF InsertRow, Commits
<1> DEFINE rows == [disk.rows EXCEPT ![p] = @ \cup {id}]
<1>3. rows \in [Parents -> SUBSET Ids] /\ \A q \in Parents : disk.rows[q] \subseteq rows[q]
  BY <1>1, OpenFacts
<1>4. disk' = [disk EXCEPT !.rows = rows, !.log = disk.log]
  BY <1>1, <1>2, OpenFacts DEF Database
<1> HIDE DEF rows
<1>5. \A i \in DOMAIN disk.log, q \in Parents :
        Dangles(disk.log[i], q, rows) => <<i, q>> \in lost
  BY <1>1, <1>3, Known DEF Dangles
<1> QED
  BY <1>1, <1>2, <1>3, <1>4, <1>5, OpenFacts, OpenStep

LEMMA InsertEntryStep ==
  ASSUME IInv, InsertEntry
  PROVE  IInv'
<1>1. at = "open" /\ UNCHANGED <<at, crashes, lost>>
  BY DEF InsertEntry
<1>2. PICK ref \in [Parents -> Ids] :
        /\ \A p \in Parents : ref[p] \in db.rows[p]
        /\ disk' = [db EXCEPT !.log =
             Append(@, [ref |-> ref, statement |-> Len(history) + 1])]
        /\ db' = disk'
  BY DEF InsertEntry, Commits
<1> DEFINE n == Len(history) + 1
           entry == [ref |-> ref, statement |-> n]
           log == Append(disk.log, entry)
<1>3. n \in 1..MaxEntries
  <2>1. Len(history) \in Nat /\ Len(history) < MaxEntries
    BY <1>1, OpenFacts, LenProperties DEF InsertEntry
  <2> QED
    BY <2>1, UpgradeAssumption
<1>4. entry \in Entry
  BY <1>3 DEF Entry
<1>5. disk' = [disk EXCEPT !.rows = disk.rows, !.log = log]
  BY <1>1, <1>2, OpenFacts DEF Database
<1>6. entry.ref = ref /\ entry.statement = n
  OBVIOUS
<1>7. \A p \in Parents : ~Dangles(entry, p, disk.rows)
  BY <1>1, <1>2, <1>6, OpenFacts DEF Dangles
<1> HIDE DEF entry
<1>8. /\ log \in Seq(Entry) /\ Len(disk.log) \in Nat
      /\ DOMAIN disk.log = 1..Len(disk.log)
      /\ DOMAIN log = 1..Len(disk.log) + 1
      /\ \A i \in 1..Len(disk.log) : log[i] = disk.log[i]
      /\ log[Len(disk.log) + 1] = entry
  <2>1. disk.log \in Seq(Entry)
    BY <1>1, OpenFacts
  <2>2. Len(disk.log) \in Nat /\ DOMAIN disk.log = 1..Len(disk.log)
    BY <2>1, LenProperties
  <2>3. /\ log \in Seq(Entry) /\ Len(log) = Len(disk.log) + 1
        /\ \A i \in 1..Len(disk.log) : log[i] = disk.log[i]
        /\ log[Len(disk.log) + 1] = entry
    BY <1>4, <2>1, AppendProperties
  <2> HIDE DEF log
  <2>4. DOMAIN log = 1..Len(log)
    BY <2>3, LenProperties
  <2> QED
    BY <2>2, <2>3, <2>4
<1>9. history' = Append(history, n) /\ history' \in Seq(1..MaxEntries)
  BY <1>1, <1>3, OpenFacts, AppendProperties DEF InsertEntry
<1>10. Len(history) = Len(disk.log)
  <2>1. DOMAIN history = 1..Len(history) /\ Len(history) \in Nat
    BY <1>1, OpenFacts, LenProperties
  <2>2. DOMAIN history = 1..Len(disk.log)
    BY <1>1, <1>8, OpenFacts DEF Statements
  <2> QED
    BY <1>8, <2>1, <2>2
<1>11. /\ DOMAIN history' = 1..Len(disk.log) + 1
       /\ \A i \in 1..Len(disk.log) : history'[i] = history[i]
       /\ history'[Len(disk.log) + 1] = n
  <2>1. history \in Seq(1..MaxEntries)
    BY <1>1, OpenFacts
  <2>2. /\ Len(history') = Len(history) + 1
        /\ \A i \in 1..Len(history) : history'[i] = history[i]
        /\ history'[Len(history) + 1] = n
    BY <1>3, <1>9, <2>1, AppendProperties
  <2>3. DOMAIN history' = 1..Len(history')
    BY <1>9, LenProperties
  <2> QED
    BY <1>10, <2>2, <2>3
<1> HIDE DEF log, n
<1>12. Statements(log) = history'
  <2>1. \A i \in 1..Len(disk.log) : history[i] = disk.log[i].statement
    BY <1>1, <1>8, OpenFacts DEF Statements
  <2>2. \A i \in 1..Len(disk.log) + 1 : log[i].statement = history'[i]
    <3>1. \A i \in 1..Len(disk.log) + 1 :
            i \in 1..Len(disk.log) \/ i = Len(disk.log) + 1
      BY <1>8
    <3> QED
      BY <1>6, <1>8, <1>11, <2>1, <3>1
  <2>3. history' = [i \in 1..Len(disk.log) + 1 |-> history'[i]]
    BY <1>9, <1>11, LenProperties
  <2> QED
    BY <1>8, <2>2, <2>3 DEF Statements
<1>13. \A i \in DOMAIN log, p \in Parents :
         Dangles(log[i], p, disk.rows) => <<i, p>> \in lost
  <2>1. \A i \in DOMAIN log : i \in DOMAIN disk.log \/ i = Len(disk.log) + 1
    BY <1>8
  <2> QED
    BY <1>1, <1>7, <1>8, <2>1, Known
<1> QED
  BY <1>1, <1>2, <1>5, <1>8, <1>9, <1>12, <1>13, OpenFacts, OpenStep

LEMMA DeleteRowStep ==
  ASSUME IInv, DeleteRow
  PROVE  IInv'
<1>1. at = "open" /\ UNCHANGED <<at, history, crashes, lost>>
  BY DEF DeleteRow
<1>2. PICK p \in Parents, id \in Ids :
        Commits([db EXCEPT
                   !.rows[p] = @ \ {id},
                   !.log = [i \in DOMAIN @ |-> Forgetting(@[i], p, id)]])
  BY <1>1, OpenFacts DEF DeleteRow
<1> DEFINE rows == [disk.rows EXCEPT ![p] = @ \ {id}]
<1>3. rows \in [Parents -> SUBSET Ids]
  BY <1>1, OpenFacts
<1>4. /\ disk' = [disk EXCEPT !.rows = rows,
                              !.log = ForgettingLog(disk.log, p, id)]
      /\ db' = disk'
  BY <1>1, <1>2, OpenFacts DEF Database, ForgettingLog, Commits
<1>5. /\ ForgettingLog(disk.log, p, id) \in Seq(Entry)
      /\ DOMAIN ForgettingLog(disk.log, p, id) = DOMAIN disk.log
      /\ Statements(ForgettingLog(disk.log, p, id)) = Statements(disk.log)
      /\ \A i \in DOMAIN disk.log, q \in Parents :
           Dangles(ForgettingLog(disk.log, p, id)[i], q, rows)
             => Dangles(disk.log[i], q, disk.rows)
  BY <1>1, OpenFacts, ForgettingLogSound
<1> HIDE DEF rows
<1>6. \A i \in DOMAIN ForgettingLog(disk.log, p, id), q \in Parents :
        Dangles(ForgettingLog(disk.log, p, id)[i], q, rows)
          => <<i, q>> \in lost
  BY <1>1, <1>5, Known
<1> QED
  BY <1>1, <1>3, <1>4, <1>5, <1>6, OpenFacts, OpenStep

LEMMA CrashStep ==
  ASSUME IInv, Crash
  PROVE  IInv'
<1>1. crashes' \in 0..MaxCrashes
  BY UpgradeAssumption DEF IInv, TypeOK, Crash
<1> QED
  BY <1>1 DEF IInv, TypeOK, HistoryKept, Progress, Crash

LEMMA NextPreserves == IInv /\ [Next]_vars => IInv'
<1> SUFFICES ASSUME IInv, [Next]_vars PROVE IInv'
  OBVIOUS
<1>1. CASE UNCHANGED vars
  BY <1>1 DEF vars, IInv, TypeOK, HistoryKept, Progress
<1>2. CASE OpenStore
  BY <1>2, StartStep, CreateTableStep, TablesExistStep,
     AddServiceNameColumnStep, NeedsMigrationStep, RebuildStep, CommitStep
  DEF OpenStore
<1>3. CASE UseStore
  BY <1>3, InsertRowStep, InsertEntryStep, DeleteRowStep DEF UseStore
<1> QED
  BY <1>1, <1>2, <1>3, CrashStep DEF Next

----------------------------------------------------------------------------
(* Theorems *)

\* The variables keep their shape, and a rebuild that is not finished is never
\* on disk, whatever file is opened and wherever the process dies.
THEOREM UpgradeTypeCorrect == Spec => []TypeOK
<1>1. IInv => TypeOK
  BY DEF IInv
<1> QED
  BY <1>1, InitEstablishes, NextPreserves, PTL DEF Spec

\* No entry of the audit log is lost, added or moved by opening a file of
\* whatever age, over any number of crashes (relaxAuditLogForeignKeysIfNeeded).
THEOREM UpgradeKeepsHistory == Spec => []HistoryKept
<1>1. IInv => HistoryKept
  BY DEF IInv
<1> QED
  BY <1>1, InitEstablishes, NextPreserves, PTL DEF Spec

\* What Open returns is a store of the current version (migrate).
THEOREM OpenStoreIsCurrent == Spec => []OpenIsCurrent
<1>1. IInv => OpenIsCurrent
  <2> SUFFICES ASSUME IInv, at = "open" PROVE OpenIsCurrent
    BY DEF OpenIsCurrent
  <2>1. db.tables = AllTables
    BY OpenFacts DEF Database, AllTables
  <2> QED
    BY <2>1, OpenFacts DEF OpenIsCurrent, AllTables
<1> QED
  BY <1>1, InitEstablishes, NextPreserves, PTL DEF Spec

----------------------------------------------------------------------------
(* What a step may do to the entries that are on disk *)

\* They stay, and perhaps one more comes after them; or all of them forget
\* what is gone, or the one row that goes.
LEMMA LogSteps ==
  ASSUME IInv, [Next]_vars
  PROVE  \/ disk'.log = disk.log
         \/ \E entry \in Entry : disk'.log = Append(disk.log, entry)
         \/ disk'.log = ResolvedLog(disk.log, disk'.rows)
         \/ \E p \in Parents, id \in Ids :
              /\ disk'.log = ForgettingLog(disk.log, p, id)
              /\ id \notin disk'.rows[p]
<1>1. CASE UNCHANGED disk
  BY <1>1
<1>2. CASE Start
  BY <1>2 DEF IInv, Progress, Start, Commits
<1>3. CASE CreateTable \/ AddServiceNameColumn
  <2>1. db = disk /\ disk \in Database
    BY <1>3 DEF IInv, Progress, TypeOK, CreateTable, AddServiceNameColumn
  <2>2. disk'.log = db.log
    BY <1>3, <2>1 DEF CreateTable, AddServiceNameColumn, Commits, Database
  <2> QED
    BY <2>1, <2>2
<1>4. CASE Commit
  <2>1. /\ disk \in Database /\ "audit_log_old" \notin disk.tables
        /\ disk.old = << >> /\ AllTables \subseteq disk.tables
        /\ disk' = Rebuilt(disk)
    BY <1>4 DEF IInv, TypeOK, Progress, Commit, Commits
  <2> QED
    BY <2>1, RebuiltSound
<1>5. CASE InsertRow
  <2>1. db = disk /\ disk \in Database
    BY <1>5, OpenFacts DEF InsertRow
  <2>2. disk'.log = db.log
    BY <1>5, <2>1 DEF InsertRow, Commits, Database
  <2> QED
    BY <2>1, <2>2
<1>6. CASE InsertEntry
  <2>1. db = disk /\ disk \in Database /\ history \in Seq(1..MaxEntries)
    BY <1>6, OpenFacts DEF InsertEntry
  <2>2. Len(history) \in Nat
    BY <2>1, LenProperties
  <2>3. Len(history) + 1 \in 1..MaxEntries
    BY <1>6, <2>2, UpgradeAssumption DEF InsertEntry
  <2>4. PICK ref \in [Parents -> Ids] :
          disk' = [db EXCEPT !.log =
            Append(@, [ref |-> ref, statement |-> Len(history) + 1])]
    BY <1>6 DEF InsertEntry, Commits
  <2> DEFINE entry == [ref |-> ref, statement |-> Len(history) + 1]
  <2>5. entry \in Entry
    BY <2>3 DEF Entry
  <2>6. disk'.log = Append(disk.log, entry)
    BY <2>1, <2>4 DEF Database
  <2> QED
    BY <2>5, <2>6
<1>7. CASE DeleteRow
  <2>1. db = disk /\ disk \in Database
    BY <1>7, OpenFacts DEF DeleteRow
  <2> db.rows \in [Parents -> SUBSET Ids]
    BY <2>1 DEF Database
  <2>2. PICK p \in Parents, id \in Ids :
          disk' = [db EXCEPT
                     !.rows[p] = @ \ {id},
                     !.log = [i \in DOMAIN @ |-> Forgetting(@[i], p, id)]]
    BY <1>7 DEF DeleteRow, Commits
  <2>3. /\ disk'.rows = [disk.rows EXCEPT ![p] = @ \ {id}]
        /\ disk'.log = ForgettingLog(disk.log, p, id)
    BY <2>1, <2>2 DEF Database, ForgettingLog
  <2>4. id \notin disk'.rows[p]
    BY <2>1, <2>3 DEF Database
  <2> QED
    BY <2>3, <2>4
<1>8. CASE \/ TablesExist \/ NeedsMigration \/ Crash
           \/ RenameAuditLog \/ CreateAuditLog \/ CopyEntries
           \/ DropOldAuditLog
  BY <1>8 DEF TablesExist, NeedsMigration, Crash, RenameAuditLog,
     CreateAuditLog, CopyEntries, DropOldAuditLog, InTransaction
<1> QED
  BY <1>1, <1>2, <1>3, <1>4, <1>5, <1>6, <1>7, <1>8
  DEF Next, OpenStore, UseStore, vars

\* An entry loses a reference only when the row it led to is gone, over
\* upgrades and crashes too (ON DELETE SET NULL, and migrate's LEFT JOIN).
THEOREM UpgradeForgetsOnlyTheGone == Spec => ForgetsOnlyTheGone
<1> DEFINE Forgets ==
      \A i \in DOMAIN disk.log, p \in Parents :
        disk.log[i].ref[p] # disk'.log[i].ref[p] =>
          /\ disk'.log[i].ref[p] = Null
          /\ disk.log[i].ref[p] \notin disk'.rows[p]
<1>1. IInv /\ IInv' /\ [Next]_vars => [Forgets]_vars
  <2> SUFFICES ASSUME IInv, IInv', [Next]_vars,
                      NEW i \in DOMAIN disk.log, NEW p \in Parents,
                      disk.log[i].ref[p] # disk'.log[i].ref[p]
               PROVE  /\ disk'.log[i].ref[p] = Null
                      /\ disk.log[i].ref[p] \notin disk'.rows[p]
    OBVIOUS
  <2>1. disk.log \in Seq(Entry) /\ disk'.rows \in [Parents -> SUBSET Ids]
    BY DEF IInv, TypeOK, Database
  <2>2. Len(disk.log) \in Nat /\ DOMAIN disk.log = 1..Len(disk.log)
    BY <2>1, LenProperties
  <2>3. disk.log[i] \in Entry
    BY <2>1, <2>2, ElementOfSeq
  <2>4. CASE \E entry \in Entry : disk'.log = Append(disk.log, entry)
    <3>1. disk'.log[i] = disk.log[i]
      BY <2>1, <2>2, <2>4, AppendProperties
    <3> QED
      BY <3>1
  <2>5. CASE disk'.log = ResolvedLog(disk.log, disk'.rows)
    <3>1. disk'.log[i] = Resolved(disk.log[i], disk'.rows)
      BY <2>5 DEF ResolvedLog
    <3> QED
      BY <2>1, <2>3, <3>1, ResolvedEntry
  <2>6. CASE \E q \in Parents, id \in Ids :
               /\ disk'.log = ForgettingLog(disk.log, q, id)
               /\ id \notin disk'.rows[q]
    <3>1. PICK q \in Parents : \E id \in Ids :
                 /\ disk'.log = ForgettingLog(disk.log, q, id)
                 /\ id \notin disk'.rows[q]
      BY <2>6
    <3>2. PICK id \in Ids : /\ disk'.log = ForgettingLog(disk.log, q, id)
                            /\ id \notin disk'.rows[q]
      BY <3>1
    <3>3. disk'.log[i] = Forgetting(disk.log[i], q, id)
      BY <3>2 DEF ForgettingLog
    <3> QED
      BY <2>1, <2>3, <3>2, <3>3, ForgettingEntry
  <2> QED
    BY <2>4, <2>5, <2>6, LogSteps
<1>2. Spec => [][Forgets]_vars
  BY <1>1, InitEstablishes, NextPreserves, PTL DEF Spec
<1> QED
  BY <1>2 DEF ForgetsOnlyTheGone

=============================================================================
