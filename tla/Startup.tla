------------------------------- MODULE Startup -------------------------------
(***************************************************************************)
(* An app instance coming up: importing app.store runs new_seeded_store,    *)
(* which brings the schema to head (schema.upgrade_database, one            *)
(* transaction under a Postgres advisory lock) and then, if demo data is    *)
(* enabled and no contact is stored, seeds it, one transaction per entry.   *)
(* Several instances share the database, and any of them may die and be     *)
(* started again at any point.                                              *)
(*                                                                          *)
(* A create is one atomic step here (CrmStore shows it is one).  Contact    *)
(* ids are numbers; ids such as "x9" that 0002 skips are left out.          *)
(***************************************************************************)
EXTENDS Naturals, FiniteSets

CONSTANTS
  Instances,
  SeedDemoData,    \* SDIP_SEED_DEMO_DATA
  DemoSize,        \* entries seed() inserts
  DemoContacts,    \* the first of them, which are contacts
  OldDatabases,    \* databases as they may be before the first instance starts:
                   \* [tables, revision, ids], the alembic_version row found
                   \* ("none" without one) and the contact ids stored
  MaxContacts,     \* bound: users create no contact beyond this many
  Nobody

Revisions == {"none", "0001", "0002"}
Head      == "0002"

IsHighest(n, S) == n \in S /\ \A m \in S : m <= n
Highest(S)      == IF S = {} THEN 0 ELSE CHOOSE n \in S : IsHighest(n, S)

(* Every finite set of ids has a highest one.                               *)
HasHighest(S) == S = {} \/ \E n \in S : IsHighest(n, S)

ASSUME StartupAssumption ==
  /\ DemoSize \in Nat /\ DemoContacts \in 1..DemoSize
  /\ SeedDemoData \in BOOLEAN
  /\ OldDatabases \subseteq [tables : BOOLEAN, revision : {"none", "0001"},
                             ids : SUBSET (Nat \ {0})]
  /\ \A d \in OldDatabases : /\ HasHighest(d.ids)
                             /\ d.revision = "0001" => d.tables
                             /\ ~ d.tables => d.ids = {}
  /\ MaxContacts \in Nat
  /\ Nobody \notin Instances

VARIABLES
  tables,     \* do contacts, deals and activities exist
  revision,   \* the alembic_version row
  counter,    \* id_counters["c"]
  ids,        \* the contact ids stored
  demo,       \* demo[n]: copies of the n-th demo entry stored
  lock,       \* the instance holding the advisory lock
  pc,         \* pc[i]: what instance i does next
  saw,        \* saw[i]: the revision instance i upgrades from
  entry       \* entry[i]: the demo entry instance i inserts next

vars == <<tables, revision, counter, ids, demo, lock, pc, saw, entry>>

Phases == {"down", "lock", "inspect", "upgrade", "check", "seed", "up"}

Init ==
  /\ \E d \in OldDatabases :
       tables = d.tables /\ revision = d.revision /\ ids = d.ids
  /\ counter = 0
  /\ demo = [n \in 1..DemoSize |-> 0]
  /\ lock = Nobody
  /\ pc = [i \in Instances |-> "down"]
  /\ saw = [i \in Instances |-> "none"]
  /\ entry = [i \in Instances |-> 1]

Goto(i, phase) == pc' = [pc EXCEPT ![i] = phase]

-----------------------------------------------------------------------------
(* The process starts and imports app.store.                                *)
Boot(i) ==
  /\ pc[i] = "down"
  /\ Goto(i, "lock")
  /\ UNCHANGED <<tables, revision, counter, ids, demo, lock, saw, entry>>

(* Mutant of AcquireLock: no pg_advisory_xact_lock.                         *)
AcquireLock_Unlocked(i) ==
  /\ pc[i] = "lock"
  /\ lock' = i
  /\ Goto(i, "inspect")
  /\ UNCHANGED <<tables, revision, counter, ids, demo, saw, entry>>

(* SELECT pg_advisory_xact_lock: held until the transaction ends.           *)
AcquireLock(i) ==
  /\ pc[i] = "lock" /\ lock = Nobody
  /\ lock' = i
  /\ Goto(i, "inspect")
  /\ UNCHANGED <<tables, revision, counter, ids, demo, saw, entry>>

(* Mutant of Inspect: a database made by create_all() is not stamped.       *)
Inspect_NoStamp(i) ==
  /\ pc[i] = "inspect"
  /\ saw' = [saw EXCEPT ![i] = revision]
  /\ Goto(i, "upgrade")
  /\ UNCHANGED <<tables, revision, counter, ids, demo, lock, entry>>

(* Which revision the database is at; one with tables and no                *)
(* alembic_version was made by create_all() and is stamped 0001.            *)
Inspect(i) ==
  /\ pc[i] = "inspect"
  /\ saw' = [saw EXCEPT ![i] = IF revision = "none" /\ tables THEN "0001" ELSE revision]
  /\ Goto(i, "upgrade")
  /\ UNCHANGED <<tables, revision, counter, ids, demo, lock, entry>>

(* Mutant of FirstCounter: the number of rows, not the highest id.          *)
FirstCounter_Rows == Cardinality(ids)

(* 0002: the counter starts at the highest number in use.                   *)
FirstCounter == Highest(ids)

(* A CREATE TABLE of the pending revisions meets a table that is there.     *)
Clash(i) ==
  \/ saw[i] = "none" /\ tables
  \/ saw[i] \in {"none", "0001"} /\ revision = Head

(* Mutant of Upgrade: pg_advisory_lock on a pooled connection, which the    *)
(* end of the transaction does not release.                                 *)
Upgrade_KeepsLock(i) ==
  /\ pc[i] = "upgrade"
  /\ IF Clash(i)
       THEN Goto(i, "down") /\ UNCHANGED <<tables, revision, counter>>
       ELSE /\ tables' = TRUE /\ revision' = Head
            /\ counter' = IF saw[i] = Head THEN counter ELSE FirstCounter
            /\ Goto(i, IF SeedDemoData THEN "check" ELSE "up")
  /\ UNCHANGED <<ids, demo, lock, saw, entry>>

(* command.upgrade(head), COMMIT, and the lock is gone.  A clash rolls      *)
(* everything back and the instance does not start.                         *)
Upgrade(i) ==
  /\ pc[i] = "upgrade"
  /\ IF Clash(i)
       THEN Goto(i, "down") /\ UNCHANGED <<tables, revision, counter>>
       ELSE /\ tables' = TRUE /\ revision' = Head
            /\ counter' = IF saw[i] = Head THEN counter ELSE FirstCounter
            /\ Goto(i, IF SeedDemoData THEN "check" ELSE "up")
  /\ lock' = Nobody
  /\ UNCHANGED <<ids, demo, saw, entry>>

-----------------------------------------------------------------------------
(* Mutant of CheckEmpty: seeds whenever demo data is enabled.               *)
CheckEmpty_Always(i) ==
  /\ pc[i] = "check"
  /\ Goto(i, "seed") /\ entry' = [entry EXCEPT ![i] = 1]
  /\ UNCHANGED <<tables, revision, counter, ids, demo, lock, saw>>

(* _is_empty, in a session of its own that is closed before seed() starts.  *)
CheckEmpty(i) ==
  /\ pc[i] = "check"
  /\ IF ids = {} THEN Goto(i, "seed") /\ entry' = [entry EXCEPT ![i] = 1]
                 ELSE Goto(i, "up")   /\ UNCHANGED entry
  /\ UNCHANGED <<tables, revision, counter, ids, demo, lock, saw>>

AddContact == counter' = counter + 1 /\ ids' = ids \cup {counter + 1}

(* Mutant of SeedEntry: the contacts come last.                             *)
SeedEntry_ContactsLast(i) ==
  /\ pc[i] = "seed"
  /\ demo' = [demo EXCEPT ![entry[i]] = @ + 1]
  /\ IF entry[i] > DemoSize - DemoContacts THEN AddContact ELSE UNCHANGED <<counter, ids>>
  /\ IF entry[i] < DemoSize
       THEN entry' = [entry EXCEPT ![i] = @ + 1] /\ UNCHANGED pc
       ELSE Goto(i, "up") /\ UNCHANGED entry
  /\ UNCHANGED <<tables, revision, lock, saw>>

(* One create of seed(); contacts come first.                               *)
SeedEntry(i) ==
  /\ pc[i] = "seed"
  /\ demo' = [demo EXCEPT ![entry[i]] = @ + 1]
  /\ IF entry[i] <= DemoContacts THEN AddContact ELSE UNCHANGED <<counter, ids>>
  /\ IF entry[i] < DemoSize
       THEN entry' = [entry EXCEPT ![i] = @ + 1] /\ UNCHANGED pc
       ELSE Goto(i, "up") /\ UNCHANGED entry
  /\ UNCHANGED <<tables, revision, lock, saw>>

(* A user of a serving instance adds a contact.                             *)
UserCreate(i) ==
  /\ pc[i] = "up"
  /\ Cardinality(ids) < MaxContacts
  /\ AddContact
  /\ UNCHANGED <<tables, revision, demo, lock, pc, saw, entry>>

(* The process dies; its transaction and its lock go with it.               *)
Crash(i) ==
  /\ pc[i] # "down"
  /\ Goto(i, "down")
  /\ lock' = IF lock = i THEN Nobody ELSE lock
  /\ UNCHANGED <<tables, revision, counter, ids, demo, saw, entry>>

-----------------------------------------------------------------------------
Advance(i) ==
  \/ AcquireLock(i) \/ Inspect(i) \/ Upgrade(i) \/ CheckEmpty(i) \/ SeedEntry(i)

Next == \E i \in Instances :
          Boot(i) \/ Advance(i) \/ UserCreate(i) \/ Crash(i)

Spec == Init /\ [][Next]_vars

(* A started process keeps going; Postgres grants the advisory lock to each *)
(* waiter in turn, hence SF.                                                *)
Fairness == \A i \in Instances : WF_vars(Advance(i)) /\ SF_vars(AcquireLock(i))

LiveSpec == Spec /\ Fairness

-----------------------------------------------------------------------------
(* Columns and phases have their types (schema.py, store.py).               *)
TypeOK ==
  /\ tables \in BOOLEAN /\ revision \in Revisions
  /\ counter \in Nat /\ ids \subseteq Nat
  /\ demo \in [1..DemoSize -> Nat]
  /\ lock \in Instances \cup {Nobody}
  /\ pc \in [Instances -> Phases]
  /\ saw \in [Instances -> Revisions]
  /\ entry \in [Instances -> 1..DemoSize]

(* No instance runs a migration on a database that another one has migrated *)
(* since it looked, or whose tables exist already: no boot fails on a       *)
(* CREATE TABLE (the advisory lock and the stamp of upgrade_database).      *)
NoMigrationClash == \A i \in Instances : pc[i] = "upgrade" => ~ Clash(i)

(* Once the counters exist they are at or past every id in use, those of a  *)
(* database older than the counters included, so no create meets a taken    *)
(* id (migration 0002).                                                     *)
CountersAhead == revision = Head => \A n \in ids : n <= counter

(* A start decides to seed only if nothing at all is stored: no old data,   *)
(* nothing users added, and not one entry of an earlier start, finished,    *)
(* crashed half way or still seeding (contacts come first in seed()).  So   *)
(* no sequence of crashes and restarts seeds an entry twice; two starts     *)
(* that decide at the same time do (SeedsOnlyEmpty).                        *)
SeedsFromScratch ==
  [][\A i \in Instances :
       pc[i] # "seed" /\ pc'[i] = "seed"
         => ids = {} /\ \A n \in 1..DemoSize : demo[n] = 0]_vars

(* A process that started ends up serving, unless it dies.                  *)
EveryBootServes == \A i \in Instances : pc[i] = "lock" ~> pc[i] \in {"up", "down"}

(* new_seeded_store: "Demo data is seeded only if enabled and the database  *)
(* is currently empty".  With two instances starting at once the second     *)
(* begins to seed a database that is not: expected to FAIL.                 *)
SeedsOnlyEmpty ==
  [][\A i \in Instances :
       pc[i] = "seed" /\ entry[i] = 1 /\ demo'[1] # demo[1] => ids = {}]_vars
=============================================================================
