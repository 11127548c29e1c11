------------------------------ MODULE Upgrade ------------------------------
(***************************************************************************)
(* Opening the metadata store over a database file that is new, or that an *)
(* older version of the server has left (store.Open, migrate): tables are  *)
(* created, connections gets a column, and an audit_log whose references   *)
(* would block deletions is rebuilt.  The process may die between any two  *)
(* SQL statements, also after it opened, and is started again.             *)
(*                                                                         *)
(* disk is what a restart finds, db what the one connection sees: within a *)
(* transaction they differ.  A statement that fails makes Open fail and    *)
(* main exit, which for the file is no different from a crash.             *)
(***************************************************************************)
EXTENDS Naturals, Sequences

CONSTANTS
  Ids,         \* ids of users and of connections
  MaxEntries,  \* bound: rows ever inserted in audit_log
  MaxCrashes   \* bound: deaths of the process

ASSUME UpgradeAssumption ==
  /\ 0 \notin Ids
  /\ MaxEntries \in Nat
  /\ MaxCrashes \in Nat

VARIABLES
  disk,     \* the database as committed
  db,       \* the database as the connection sees it
  at,       \* the statement Open issues next
  history,  \* the statements of all rows ever inserted in audit_log
  crashes,  \* deaths so far
  lost      \* the references in the file as found that Open does not look at
            \* and that lead to no row: entry and table

vars == <<disk, db, at, history, crashes, lost>>

----------------------------------------------------------------------------
(* Database files *)

Null == 0    \* no row has it

\* The tables an audit_log row refers to.
Parents == {"users", "connections"}

Schema == <<"users", "connections", "permissions", "audit_log">>

Entry == [ref : [Parents -> Ids \cup {Null}], statement : 1..MaxEntries]

\* onDelete is the clause of audit_log's references, log its rows; old the
\* rows of audit_log_old.
Database == [tables : SUBSET {"users", "connections", "permissions",
                              "audit_log", "audit_log_old"},
             serviceName : BOOLEAN,
             onDelete : {"none", "NO ACTION", "SET NULL"},
             rows : [Parents -> SUBSET Ids],
             log : Seq(Entry),
             old : Seq(Entry)]

NewFile == [tables |-> {}, serviceName |-> FALSE, onDelete |-> "none",
            rows |-> [p \in Parents |-> {}], log |-> << >>, old |-> << >>]

\* What an entry's reference is once rows that are gone are forgotten.
Resolved(entry, rows) ==
  [entry EXCEPT !.ref =
     [p \in Parents |-> IF entry.ref[p] \in rows[p] THEN entry.ref[p]
                         ELSE Null]]

Dangles(entry, p, rows) == entry.ref[p] \notin rows[p] \cup {Null}

\* The references in d's log that lead to no row.
Dangling(d) ==
  {r \in (DOMAIN d.log) \X Parents : Dangles(d.log[r[1]], r[2], d.rows)}

\* Files of older versions.  Before the pool was pinned to one connection,
\* foreign keys were not enforced on every connection of it, and entries may
\* name rows that are gone, whatever the clause of their references.
OldFiles(logs) ==
  [tables : {{"users", "connections", "permissions", "audit_log"}},
   serviceName : BOOLEAN,
   onDelete : {"NO ACTION", "SET NULL"},
   rows : [Parents -> SUBSET Ids],
   log : logs,
   old : {<< >>}]

Statements(log) == [i \in DOMAIN log |-> log[i].statement]

\* Rows are numbered in the order of their insertion.
Logs ==
  UNION {{log \in [1..n -> Entry] : \A i \in 1..n : log[i].statement = i} :
           n \in 0..MaxEntries}

Init ==
  /\ disk \in {NewFile} \cup OldFiles(Logs)
  /\ db = disk
  /\ at = "closed"
  /\ history = Statements(disk.log)
  /\ crashes = 0
  /\ lost = IF disk.onDelete = "SET NULL" THEN Dangling(disk) ELSE {}

----------------------------------------------------------------------------
(* Statements.  Outside a transaction each commits. *)

Commits(database) == db' = database /\ disk' = database

InTransaction(database) == db' = database /\ UNCHANGED disk

Then(next) == at' = next /\ UNCHANGED <<history, crashes, lost>>

Start == at = "closed" /\ Commits(disk) /\ Then("tables")

Missing == {i \in DOMAIN Schema : Schema[i] \notin db.tables}

\* The four CREATE TABLE IF NOT EXISTS, one after the other.
CreateTable ==
  /\ at = "tables" /\ Missing # {}
  /\ LET table == Schema[CHOOSE i \in Missing : \A j \in Missing : i <= j]
     IN  Commits([db EXCEPT
                    !.tables = @ \cup {table},
                    !.serviceName = IF table = "connections" THEN TRUE ELSE @,
                    !.onDelete = IF table = "audit_log" THEN "SET NULL"
                                 ELSE @])
  /\ Then("tables")

TablesExist ==
  /\ at = "tables" /\ Missing = {}
  /\ UNCHANGED <<disk, db>>
  /\ Then("column")

\* Mutant: that the column is there already counts as an error.
AddServiceNameColumnOnce ==
  /\ at = "column"
  /\ Commits([db EXCEPT !.serviceName = TRUE])
  /\ Then(IF db.serviceName THEN "closed" ELSE "inspect")

\* ALTER TABLE fails on a column that exists, and this error is passed over.
AddServiceNameColumn ==
  /\ at = "column"
  /\ Commits([db EXCEPT !.serviceName = TRUE])
  /\ Then("inspect")

\* Mutant: audit_log is never looked at.
NeedsNoMigration ==
  /\ at = "inspect"
  /\ UNCHANGED <<disk, db>>
  /\ Then("open")

\* PRAGMA foreign_key_list(audit_log)
NeedsMigration ==
  /\ at = "inspect"
  /\ UNCHANGED <<disk, db>>
  /\ Then(IF db.onDelete # "SET NULL" THEN "rename" ELSE "open")

\* The rebuilding, one operator for each of its statements.  The rows copied
\* are those of the LEFT JOIN: all, without what their references have lost.
Renamed(d) ==
  [d EXCEPT !.tables = (@ \ {"audit_log"}) \cup {"audit_log_old"},
            !.old = d.log, !.log = << >>, !.onDelete = "none"]

Created(d) ==
  [d EXCEPT !.tables = @ \cup {"audit_log"}, !.onDelete = "SET NULL"]

\* Mutants: an inner join loses the entries whose rows are gone; the copy
\* leaves the references out.
CopiedJoined(d) ==
  [d EXCEPT !.log = SelectSeq(d.old, LAMBDA e :
                                \A p \in Parents : ~Dangles(e, p, d.rows))]

CopiedForgetful(d) ==
  [d EXCEPT !.log =
     [i \in DOMAIN d.old |-> Resolved(d.old[i], [p \in Parents |-> {}])]]

Copied(d) ==
  [d EXCEPT !.log = [i \in DOMAIN d.old |-> Resolved(d.old[i], d.rows)]]

Dropped(d) ==
  [d EXCEPT !.tables = @ \ {"audit_log_old"}, !.old = << >>]

\* Mutant: without BEGIN and COMMIT every statement commits.
RenameAuditLogAtOnce ==
  at = "rename" /\ Commits(Renamed(db)) /\ Then("create")

\* BEGIN TRANSACTION comes with the first of them.
RenameAuditLog ==
  at = "rename" /\ InTransaction(Renamed(db)) /\ Then("create")

CreateAuditLog == at = "create" /\ InTransaction(Created(db)) /\ Then("copy")

CopyEntries == at = "copy" /\ InTransaction(Copied(db)) /\ Then("drop")

DropOldAuditLog == at = "drop" /\ InTransaction(Dropped(db)) /\ Then("commit")

Commit == at = "commit" /\ Commits(db) /\ Then("open")

----------------------------------------------------------------------------
(* The open store: what Store models, as far as audit_log is concerned. *)

Named(p, id) == \E i \in DOMAIN db.log : db.log[i].ref[p] = id

\* An id that no row and no entry has stands for one never assigned before.
InsertRow ==
  /\ at = "open"
  /\ \E p \in Parents : \E id \in Ids \ db.rows[p] :
       /\ ~Named(p, id)
       /\ Commits([db EXCEPT !.rows[p] = @ \cup {id}])
  /\ UNCHANGED <<at, history, crashes, lost>>

InsertEntry ==
  /\ at = "open" /\ Len(history) < MaxEntries
  /\ \E ref \in [Parents -> Ids] :
       /\ \A p \in Parents : ref[p] \in db.rows[p]
       /\ Commits([db EXCEPT !.log =
            Append(@, [ref |-> ref, statement |-> Len(history) + 1])])
  /\ history' = Append(history, Len(history) + 1)
  /\ UNCHANGED <<at, crashes, lost>>

\* ON DELETE SET NULL.
Forgetting(entry, p, id) ==
  IF entry.ref[p] = id THEN [entry EXCEPT !.ref[p] = Null] ELSE entry

\* Under NO ACTION the foreign key refuses to delete a row some entry names.
DeleteRow ==
  /\ at = "open"
  /\ \E p \in Parents : \E id \in db.rows[p] :
       /\ db.onDelete = "SET NULL" \/ ~Named(p, id)
       /\ Commits([db EXCEPT
                     !.rows[p] = @ \ {id},
                     !.log = [i \in DOMAIN @ |-> Forgetting(@[i], p, id)]])
  /\ UNCHANGED <<at, history, crashes, lost>>

\* What was not committed is gone.
Crash ==
  /\ at # "closed" /\ crashes < MaxCrashes
  /\ crashes' = crashes + 1
  /\ at' = "closed"
  /\ db' = disk
  /\ UNCHANGED <<disk, history, lost>>

----------------------------------------------------------------------------

OpenStore ==
  \/ Start
  \/ CreateTable \/ TablesExist
  \/ AddServiceNameColumn
  \/ NeedsMigration
  \/ RenameAuditLog \/ CreateAuditLog \/ CopyEntries \/ DropOldAuditLog
  \/ Commit

UseStore == InsertRow \/ InsertEntry \/ DeleteRow

Next == OpenStore \/ UseStore \/ Crash

Spec == Init /\ [][Next]_vars

\* Open runs to its end unless the process dies, and the server is started
\* again when it has died.
FairSpec == Spec /\ WF_vars(OpenStore)

----------------------------------------------------------------------------
(* Properties *)

\* The shape of the variables; on disk there is never a half-done rebuild.
TypeOK ==
  /\ disk \in Database /\ db \in Database
  /\ "audit_log_old" \notin disk.tables /\ disk.old = << >>
  /\ at \in {"closed", "tables", "column", "inspect", "rename", "create",
             "copy", "drop", "commit", "open"}
  /\ history \in Seq(1..MaxEntries)
  /\ crashes \in 0..MaxCrashes
  /\ lost \subseteq (1..MaxEntries) \X Parents

\* relaxAuditLogForeignKeysIfNeeded rebuilds the record of what was done: in
\* whatever statement the process dies, a restart finds every entry that was
\* ever made, once, in its place, and with its statement.
HistoryKept ==
  /\ Statements(disk.log) = history
  /\ history # << >> => "audit_log" \in disk.tables

\* A store that migrate has returned is the one the rest of the package is
\* written for: it has every table and column, nothing is left of the old
\* audit_log, deleting a row that is named in the log is not refused, and every
\* reference in the log leads to a row or is NULL, but for those that led to no
\* row in a file whose audit_log had its clause already.
OpenIsCurrent ==
  at = "open" =>
    /\ db = disk
    /\ db.tables = {"users", "connections", "permissions", "audit_log"}
    /\ db.serviceName
    /\ db.onDelete = "SET NULL"
    /\ Dangling(db) \subseteq lost

\* An entry keeps its user and its connection, over upgrades and crashes too,
\* until the row they denote is gone, and then it forgets that one alone.
ForgetsOnlyTheGone ==
  [][\A i \in DOMAIN disk.log, p \in Parents :
       disk.log[i].ref[p] # disk'.log[i].ref[p] =>
         /\ disk'.log[i].ref[p] = Null
         /\ disk.log[i].ref[p] \notin disk'.rows[p]]_vars

\* Whatever version and whatever crash left the file, a start that is not cut
\* short opens it: migrate can be run again over anything it leaves behind.
EventuallyOpen == <>[](at = "open")

=============================================================================
