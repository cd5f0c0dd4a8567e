---------------------------- MODULE StartupProofs ----------------------------
(***************************************************************************)
(* What the start-up of any number of instances keeps, whatever crashes:    *)
(* Startup's safety properties, for every value of the constants.           *)
(***************************************************************************)
EXTENDS Startup, TLAPS

-----------------------------------------------------------------------------
(* The inductive invariant, one conjunct per reason.                        *)

(* The lock is held exactly while a migration transaction is open.          *)
LockHeld == \A i \in Instances : lock = i <=> pc[i] \in {"inspect", "upgrade"}

(* The revision the holder of the lock upgrades from is the database's.     *)
SawCurrent ==
  \A i \in Instances :
    pc[i] = "upgrade"
      => saw[i] = IF revision = "none" /\ tables THEN "0001" ELSE revision

(* A stamped database has tables; whoever is past its migration found it at *)
(* head.                                                                    *)
Migrated ==
  /\ revision # "none" => tables
  /\ \A i \in Instances : pc[i] \in {"check", "seed", "up"} => revision = Head

(* Before head the ids are those of the old database.                       *)
OldIdsHighest == revision # Head => HasHighest(ids)

(* A demo entry is stored only after a contact.                             *)
ContactsFirst ==
  /\ ids = {} => \A n \in 1..DemoSize : demo[n] = 0
  /\ \A i \in Instances : pc[i] = "seed" /\ entry[i] > 1 => ids # {}

IndInv ==
  /\ TypeOK /\ LockHeld /\ SawCurrent /\ Migrated /\ OldIdsHighest
  /\ CountersAhead /\ ContactsFirst

-----------------------------------------------------------------------------
(* The highest of a set of ids is a number and at or past each of them.     *)
LEMMA HighestBounds ==
  ASSUME NEW S \in SUBSET Nat, HasHighest(S)
  PROVE  Highest(S) \in Nat /\ \A n \in S : n <= Highest(S)
<1>1. CASE S = {}
  BY <1>1 DEF Highest
<1>2. CASE S # {}
  <2>1. \E n \in S : IsHighest(n, S)
    BY <1>2 DEF HasHighest
  <2>2. PICK n \in S : n = Highest(S) /\ IsHighest(n, S)
    BY <1>2, <2>1 DEF Highest
  <2> QED BY <2>2 DEF IsHighest
<1> QED BY <1>1, <1>2

(* Initially no instance runs and an old database is as it was left.        *)
LEMMA InitIndInv == Init => IndInv
<1> SUFFICES ASSUME Init PROVE IndInv
  OBVIOUS
<1>1. PICK d \in OldDatabases : tables = d.tables /\ revision = d.revision /\ ids = d.ids
  BY DEF Init
<1>2. /\ d.tables \in BOOLEAN /\ d.revision \in {"none", "0001"}
      /\ d.ids \subseteq Nat /\ HasHighest(d.ids) /\ (d.revision = "0001" => d.tables)
  BY StartupAssumption
<1>3. TypeOK
  BY <1>1, <1>2, StartupAssumption DEF Init, TypeOK, Revisions, Phases
<1>4. LockHeld /\ SawCurrent
  BY StartupAssumption DEF Init, LockHeld, SawCurrent
<1>5. Migrated /\ OldIdsHighest /\ CountersAhead
  BY <1>1, <1>2 DEF Init, Migrated, OldIdsHighest, CountersAhead, Head
<1>6. ContactsFirst
  BY DEF Init, ContactsFirst
<1> QED BY <1>3, <1>4, <1>5, <1>6 DEF IndInv

(* Nobody can clash: the holder of the lock saw the database as it is.      *)
LEMMA NoClash ==
  ASSUME IndInv, NEW i \in Instances, pc[i] = "upgrade"
  PROVE  ~ Clash(i)
BY DEF IndInv, SawCurrent, Migrated, TypeOK, Clash, Revisions, Head

-----------------------------------------------------------------------------
(* Each action keeps the invariant.                                         *)

LEMMA BootKeeps ==
  ASSUME IndInv, NEW i \in Instances, Boot(i)
  PROVE  IndInv'
<1>1. TypeOK'
  BY DEF IndInv, TypeOK, Boot, Goto, Phases
<1>2. (LockHeld /\ SawCurrent /\ Migrated /\ OldIdsHighest /\ CountersAhead)'
  BY DEF IndInv, TypeOK, Boot, Goto, LockHeld, SawCurrent, Migrated,
         OldIdsHighest, CountersAhead
<1>3. ContactsFirst'
  BY DEF IndInv, TypeOK, Boot, Goto, ContactsFirst
<1> QED BY <1>1, <1>2, <1>3 DEF IndInv

LEMMA AcquireLockKeeps ==
  ASSUME IndInv, NEW i \in Instances, AcquireLock(i)
  PROVE  IndInv'
<1>1. TypeOK'
  BY DEF IndInv, TypeOK, AcquireLock, Goto, Phases
<1>2. LockHeld'
  BY StartupAssumption DEF IndInv, TypeOK, AcquireLock, Goto, LockHeld
<1>3. (SawCurrent /\ Migrated /\ OldIdsHighest /\ CountersAhead)'
  BY DEF IndInv, TypeOK, AcquireLock, Goto, SawCurrent, Migrated,
         OldIdsHighest, CountersAhead
<1>4. ContactsFirst'
  BY DEF IndInv, TypeOK, AcquireLock, Goto, ContactsFirst
<1> QED BY <1>1, <1>2, <1>3, <1>4 DEF IndInv

LEMMA InspectKeeps ==
  ASSUME IndInv, NEW i \in Instances, Inspect(i)
  PROVE  IndInv'
<1>1. TypeOK'
  BY DEF IndInv, TypeOK, Inspect, Goto, Phases, Revisions
<1>2. LockHeld'
  BY DEF IndInv, TypeOK, Inspect, Goto, LockHeld
<1>3. SawCurrent'
  BY DEF IndInv, TypeOK, Inspect, Goto, SawCurrent
<1>4. (Migrated /\ OldIdsHighest /\ CountersAhead)'
  BY DEF IndInv, TypeOK, Inspect, Goto, Migrated, OldIdsHighest, CountersAhead
<1>5. ContactsFirst'
  BY DEF IndInv, TypeOK, Inspect, Goto, ContactsFirst
<1> QED BY <1>1, <1>2, <1>3, <1>4, <1>5 DEF IndInv

LEMMA UpgradeKeeps ==
  ASSUME IndInv, NEW i \in Instances, Upgrade(i)
  PROVE  IndInv'
<1>1. ~ Clash(i) /\ pc[i] = "upgrade" /\ saw[i] \in Revisions
  BY NoClash DEF Upgrade, IndInv, TypeOK
<1>2. /\ tables' = TRUE /\ revision' = Head /\ lock' = Nobody
      /\ counter' = IF saw[i] = Head THEN counter ELSE FirstCounter
      /\ pc' = [pc EXCEPT ![i] = IF SeedDemoData THEN "check" ELSE "up"]
      /\ UNCHANGED <<ids, demo, saw, entry>>
  BY <1>1 DEF Upgrade, Goto
<1>3. saw[i] # Head => revision # Head
  BY <1>1 DEF Clash, IndInv, SawCurrent, Head
<1>4. saw[i] = Head => revision = Head
  BY <1>1 DEF IndInv, SawCurrent, Head
<1>5. ids \in SUBSET Nat
  BY DEF IndInv, TypeOK
<1>6. counter' \in Nat /\ \A n \in ids : n <= counter'
  <2>1. CASE saw[i] = Head
    BY <1>2, <1>4, <2>1 DEF IndInv, TypeOK, CountersAhead
  <2>2. CASE saw[i] # Head
    BY <1>2, <1>3, <1>5, <2>2, HighestBounds DEF IndInv, OldIdsHighest, FirstCounter
  <2> QED BY <2>1, <2>2
<1>7. TypeOK'
  BY <1>2, <1>6, StartupAssumption DEF IndInv, TypeOK, Revisions, Phases, Head
<1>8. LockHeld'
  BY <1>1, <1>2, StartupAssumption DEF IndInv, TypeOK, LockHeld
<1>9. SawCurrent'
  BY <1>1, <1>2 DEF IndInv, TypeOK, LockHeld, SawCurrent
<1>10. (Migrated /\ OldIdsHighest)'
  BY <1>2 DEF Migrated, OldIdsHighest
<1>11. CountersAhead'
  BY <1>2, <1>6 DEF CountersAhead
<1>12. ContactsFirst'
  BY <1>2 DEF IndInv, TypeOK, ContactsFirst
<1> QED BY <1>7, <1>8, <1>9, <1>10, <1>11, <1>12 DEF IndInv

LEMMA CheckEmptyKeeps ==
  ASSUME IndInv, NEW i \in Instances, CheckEmpty(i)
  PROVE  IndInv'
<1>1. /\ pc[i] = "check"
      /\ \E phase \in {"seed", "up"} : pc' = [pc EXCEPT ![i] = phase]
      /\ entry' \in [Instances -> 1..DemoSize]
      /\ UNCHANGED <<tables, revision, counter, ids, demo, lock, saw>>
  <2>1. CASE ids = {}
    <3>1. pc' = [pc EXCEPT ![i] = "seed"] /\ entry' = [entry EXCEPT ![i] = 1]
      BY <2>1 DEF CheckEmpty, Goto
    <3>2. 1 \in 1..DemoSize
      BY StartupAssumption
    <3> QED BY <3>1, <3>2 DEF CheckEmpty, IndInv, TypeOK
  <2>2. CASE ids # {}
    <3>1. pc' = [pc EXCEPT ![i] = "up"] /\ entry' = entry
      BY <2>2 DEF CheckEmpty, Goto
    <3> QED BY <3>1 DEF CheckEmpty, IndInv, TypeOK
  <2> QED BY <2>1, <2>2
<1>2. TypeOK'
  BY <1>1 DEF IndInv, TypeOK, Phases
<1>3. (LockHeld /\ SawCurrent /\ Migrated /\ OldIdsHighest /\ CountersAhead)'
  BY <1>1 DEF IndInv, TypeOK, LockHeld, SawCurrent, Migrated, OldIdsHighest,
              CountersAhead
<1>4. ContactsFirst'
  <2>1. ids' = {} => \A n \in 1..DemoSize : demo'[n] = 0
    BY <1>1 DEF IndInv, ContactsFirst
  <2>2. ASSUME NEW j \in Instances, pc'[j] = "seed", entry'[j] > 1
        PROVE  ids' # {}
    <3>1. CASE j = i
      BY <2>2, <3>1 DEF CheckEmpty, Goto, IndInv, TypeOK
    <3>2. CASE j # i
      BY <2>2, <3>2 DEF CheckEmpty, Goto, IndInv, TypeOK, ContactsFirst
    <3> QED BY <3>1, <3>2
  <2> QED BY <2>1, <2>2 DEF ContactsFirst
<1> QED BY <1>2, <1>3, <1>4 DEF IndInv

(* A contact gets the next number, so the counter stays ahead.              *)
LEMMA AddContactKeeps ==
  ASSUME IndInv, AddContact, revision = Head
  PROVE  /\ counter' \in Nat /\ ids' \subseteq Nat /\ ids' # {}
         /\ \A n \in ids' : n <= counter'
BY DEF IndInv, TypeOK, AddContact, CountersAhead

LEMMA SeedEntryKeeps ==
  ASSUME IndInv, NEW i \in Instances, SeedEntry(i)
  PROVE  IndInv'
<1>1. pc[i] = "seed" /\ revision = Head /\ entry[i] \in 1..DemoSize
  BY DEF SeedEntry, IndInv, TypeOK, Migrated
<1>2. /\ demo' = [demo EXCEPT ![entry[i]] = @ + 1]
      /\ \E phase \in {"seed", "up"} : pc' = [pc EXCEPT ![i] = phase]
      /\ entry' \in [Instances -> 1..DemoSize]
      /\ \A j \in Instances \ {i} : pc'[j] = pc[j] /\ entry'[j] = entry[j]
      /\ UNCHANGED <<tables, revision, lock, saw>>
  <2>1. CASE entry[i] < DemoSize
    <3>1. pc' = pc /\ entry' = [entry EXCEPT ![i] = @ + 1]
      BY <2>1 DEF SeedEntry
    <3>2. pc' = [pc EXCEPT ![i] = "seed"]
      BY <1>1, <3>1 DEF IndInv, TypeOK
    <3>3. entry[i] + 1 \in 1..DemoSize
      BY <1>1, <2>1, StartupAssumption
    <3> QED BY <3>1, <3>2, <3>3 DEF SeedEntry, IndInv, TypeOK
  <2>2. CASE ~ (entry[i] < DemoSize)
    <3>1. pc' = [pc EXCEPT ![i] = "up"] /\ entry' = entry
      BY <2>2 DEF SeedEntry, Goto
    <3> QED BY <3>1 DEF SeedEntry, IndInv, TypeOK
  <2> QED BY <2>1, <2>2
<1>3. /\ counter' \in Nat /\ ids' \subseteq Nat /\ ids' # {}
      /\ \A n \in ids' : n <= counter'
  <2>1. CASE entry[i] <= DemoContacts
    BY <1>1, <2>1, AddContactKeeps DEF SeedEntry
  <2>2. CASE ~ (entry[i] <= DemoContacts)
    <3>1. counter' = counter /\ ids' = ids
      BY <2>2 DEF SeedEntry
    <3>2. entry[i] > 1
      BY <1>1, <2>2, StartupAssumption
    <3> QED BY <1>1, <3>1, <3>2 DEF IndInv, TypeOK, CountersAhead, ContactsFirst
  <2> QED BY <2>1, <2>2
<1>4. TypeOK'
  <2>1. demo' \in [1..DemoSize -> Nat]
    <3>1. demo[entry[i]] + 1 \in Nat
      BY <1>1 DEF IndInv, TypeOK
    <3> QED BY <1>1, <1>2, <3>1 DEF IndInv, TypeOK
  <2>2. pc' \in [Instances -> Phases]
    BY <1>2 DEF IndInv, TypeOK, Phases
  <2> QED BY <1>2, <1>3, <2>1, <2>2 DEF IndInv, TypeOK
<1>5. (LockHeld /\ SawCurrent /\ Migrated /\ OldIdsHighest)'
  BY <1>1, <1>2 DEF IndInv, TypeOK, LockHeld, SawCurrent, Migrated, OldIdsHighest
<1>6. (CountersAhead /\ ContactsFirst)'
  BY <1>3 DEF CountersAhead, ContactsFirst
<1> QED BY <1>4, <1>5, <1>6 DEF IndInv

LEMMA UserCreateKeeps ==
  ASSUME IndInv, NEW i \in Instances, UserCreate(i)
  PROVE  IndInv'
<1>1. revision = Head /\ AddContact
  BY DEF UserCreate, IndInv, Migrated
<1>2. /\ counter' \in Nat /\ ids' \subseteq Nat /\ ids' # {}
      /\ \A n \in ids' : n <= counter'
  BY <1>1, AddContactKeeps
<1>3. TypeOK'
  BY <1>2 DEF UserCreate, IndInv, TypeOK
<1>4. (LockHeld /\ SawCurrent /\ Migrated /\ OldIdsHighest)'
  BY <1>1 DEF UserCreate, IndInv, LockHeld, SawCurrent, Migrated, OldIdsHighest
<1>5. (CountersAhead /\ ContactsFirst)'
  BY <1>2 DEF CountersAhead, ContactsFirst
<1> QED BY <1>3, <1>4, <1>5 DEF IndInv

LEMMA CrashKeeps ==
  ASSUME IndInv, NEW i \in Instances, Crash(i)
  PROVE  IndInv'
<1>1. TypeOK'
  BY DEF IndInv, TypeOK, Crash, Goto, Phases
<1>2. LockHeld'
  BY StartupAssumption DEF IndInv, TypeOK, Crash, Goto, LockHeld
<1>3. (SawCurrent /\ Migrated /\ OldIdsHighest /\ CountersAhead)'
  BY DEF IndInv, TypeOK, Crash, Goto, SawCurrent, Migrated, OldIdsHighest,
         CountersAhead
<1>4. ContactsFirst'
  BY DEF IndInv, TypeOK, Crash, Goto, ContactsFirst
<1> QED BY <1>1, <1>2, <1>3, <1>4 DEF IndInv

LEMMA NextIndInv == IndInv /\ [Next]_vars => IndInv'
<1> SUFFICES ASSUME IndInv, [Next]_vars PROVE IndInv'
  OBVIOUS
<1>1. CASE UNCHANGED vars
  BY <1>1 DEF vars, IndInv, TypeOK, LockHeld, SawCurrent, Migrated, OldIdsHighest,
              CountersAhead, ContactsFirst
<1>2. ASSUME NEW i \in Instances, Boot(i) \/ Advance(i) \/ UserCreate(i) \/ Crash(i)
      PROVE  IndInv'
  BY <1>2, BootKeeps, AcquireLockKeeps, InspectKeeps, UpgradeKeeps, CheckEmptyKeeps,
     SeedEntryKeeps, UserCreateKeeps, CrashKeeps DEF Advance
<1> QED BY <1>1, <1>2 DEF Next

(* The invariant holds in every state that can be reached.                  *)
LEMMA Inductive == Spec => []IndInv
BY InitIndInv, NextIndInv, PTL DEF Spec

-----------------------------------------------------------------------------
(* Tables, ids, locks and phases keep their types (Startup.TypeOK).         *)
THEOREM StartupTypeOK == Spec => []TypeOK
<1>1. IndInv => TypeOK
  BY DEF IndInv
<1> QED BY <1>1, Inductive, PTL

(* With the advisory lock, however many instances start, die and start      *)
(* again, none runs a migration another one has run (upgrade_database).     *)
THEOREM MigrationsNeverClash == Spec => []NoMigrationClash
<1>1. IndInv => NoMigrationClash
  BY NoClash DEF NoMigrationClash
<1> QED BY <1>1, Inductive, PTL

(* Once id_counters exists it is at or past every contact id in use, those  *)
(* an older app left included (migration 0002, create_contact).             *)
THEOREM CountersStayAhead == Spec => []CountersAhead
<1>1. IndInv => CountersAhead
  BY DEF IndInv
<1> QED BY <1>1, Inductive, PTL

(* A start decides to seed only a database that holds nothing, no entry of  *)
(* an earlier seeding included (new_seeded_store, seed).                    *)
THEOREM SeedingStartsFromScratch == Spec => SeedsFromScratch
<1> DEFINE FromScratch ==
      \A i \in Instances :
        pc[i] # "seed" /\ pc'[i] = "seed"
          => ids = {} /\ \A n \in 1..DemoSize : demo[n] = 0
<1>1. IndInv /\ [Next]_vars => [FromScratch]_vars
  <2> SUFFICES ASSUME IndInv, Next, NEW j \in Instances, pc[j] # "seed", pc'[j] = "seed"
               PROVE  ids = {} /\ \A n \in 1..DemoSize : demo[n] = 0
    BY DEF vars
  <2>1. PICK i \in Instances : Boot(i) \/ Advance(i) \/ UserCreate(i) \/ Crash(i)
    BY DEF Next
  <2>2. CheckEmpty(i) /\ i = j
    BY <2>1 DEF Advance, Boot, AcquireLock, Inspect, Upgrade, CheckEmpty, SeedEntry,
                UserCreate, Crash, Goto, IndInv, TypeOK
  <2>3. ids = {}
    BY <2>2 DEF CheckEmpty, Goto, IndInv, TypeOK
  <2> QED BY <2>3 DEF IndInv, ContactsFirst
<1> QED BY <1>1, Inductive, PTL DEF Spec, SeedsFromScratch
=============================================================================
