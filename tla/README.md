# Simple CRM: specifications and proofs

TLA+ models of the Simple CRM (a FastAPI backend on PostgreSQL, a single-page
front end with its component runtime, several Cloud Run instances), the TLC runs
that check them on small instances, and TLAPS proofs, for all instances, of every
safety property that holds: of the store, start-up, the client's sessions, the
mock service, the runtime, its external modules and the page.
Paths below are relative to `src/`.

## The system

| Component | State it keeps | Operations | Interacts with |
|---|---|---|---|
| Store, `backend/app/store.py`, `db_models.py`, `database.py` | tables `contacts`, `deals`, `activities`, `id_counters` | create and update of each kind, get, list | one short session per method, on a database shared by all threads and instances |
| Schemas, `backend/app/models.py` | none | parse inputs, partial inputs (`exclude_unset`) | routers, store |
| Routers, `backend/app/main.py`, `routers/` | none | map HTTP to store methods, errors to 400/404 | store, auth |
| Auth, `backend/app/auth.py` | table `auth_tokens`; the admin user in memory | login, validate a bearer token | every write |
| Start-up, `schema.py`, `migrations/`, end of `store.py` | `alembic_version`, advisory lock | migrate, stamp, seed | all instances share the database |
| Browser client, `_frontend/crm-service.js` | `tokenPromise` of the page | `request`, `getToken`, one function per endpoint | auth, routers |
| Mock service, same file | in-memory arrays, one counter | the same functions, after a latency | UI tests |
| UI, `_frontend/Simple CRM.dc.html` | selection, forms, lists | select, search, submit, drag | browser client |
| Roll-out, `deploy/gcp.sh`, `.github/workflows`, `routers/health.py` | revisions, traffic | push, release, probe, verify | database limit of 25 connections |
| Component runtime, `_frontend/support.js` | registry of design components (DCs), mounted instances, external modules, head of the document | boot, stream in, fetch, render, hot-swap, import, poll | React, the host that streams templates, the browser |
| Styles, build script | - | static | - |

What is hard here is concurrency on the shared database. Request threads of
several instances interleave between any two SQL statements, at READ COMMITTED,
with only the row locks that an UPDATE takes; they may die between any two
statements. Instances start at once on an empty or an old database. Tokens
expire while calls that share them are under way. The UI overwrites its state
with whatever answer comes last. The runtime takes templates and classes from
three sources at once (the page, files, the host) while React renders, and
modules in whatever order they load. `PROJECT.json` lists each such hazard at its
line and the properties aimed at it.

What makes each part correct:

* **Store**: ids never collide and never skip; an answered create is stored;
  deals and activities always belong to a stored contact; mandatory texts are
  never blank; an edit changes what it was given and nothing else.
* **Start-up**: no boot fails on a half-migrated or already migrated schema;
  counters start past every id in use; a start seeds only what is empty;
  every boot ends.
* **Client and tokens**: a retry never repeats work; a token is refused only
  when it has expired; every call ends.
* **Mock service**: what a test may rely on holds against the backend: for callers
  that send what both can read, the same calls are refused, and the same is
  stored up to white space and null.
* **Runtime**: no update is lost, whatever it overtakes; the lifecycles of a logic
  pair up and its state survives its class; what is streamed wins over a late
  file; modules are evaluated once, in order, and settle; no script runs cut off.
* **UI**: what is shown belongs together and agrees with what was saved; a save
  carries what its own row held, and takes back no other; a dialog closes only
  when its save was carried out, and says so when not.

## Modules

| Module | Models | How it corresponds to the code |
|---|---|---|
| `CrmData` | rows and input rules of `store.py` | pure operators: which inputs are refused, the row a create makes, the columns a patch changes |
| `CrmStore` | the store under concurrency | `tx[w]` is the session of request thread `w`; one action per SQL statement, with the Python up to the next one; `table` and `counter` are what is committed |
| `CrmCatalog` | what the API promises | one atomic step per accepted request |
| `Startup` | `new_seeded_store`, `upgrade_database`, migrations 0001 and 0002, `seed` | one action per transaction or lock step of an instance; `pc` is where it is in the import of `app.store` |
| `Session` | `getToken` and `request` of the client; `issue_token`, `require_auth` | one action per turn of the page's event loop or transaction of the server; `promise` is `tokenPromise`, `wire` the request on the server |
| `CrmUi` | the methods and handlers of `Component` in `Simple CRM.dc.html` | `ui` is `this.state`; `tasks[t]` is an async method under way: the step it awaits, the answers it has, the steps after it |
| `CrmUiSaves` | `CrmUi`, with a history of all that was stored | `had` holds every row the server has had; nothing of it is read by the page |
| `CrmMock` | `createMockService` | `rows` and `counter` are its arrays and counter; `queue` the calls that wait for the latency; one action per call's turn |
| `DcRuntime` | the registry and the instances of `support.js` | `reg[n]` is a registry entry, `inst[p]` a `StreamableComponent`; one action per arrival, host call, commit of React or effect |
| `DcExternals` | `createExternalModules`, `walkXImport`, `createHelmetManager` | `mods` is `pending` and `cache`, `polls` is `polling`, `mounted` and `live` those of the helmet; one action per chunk, answer, timer or render |
| `CrmDataProofs`, `CrmStoreProofs`, `StartupProofs`, `SessionProofs`, `CrmUiProofs`, `CrmMockProofs`, `DcRuntimeProofs`, `DcExternalsProofs` | - | theorems and proofs |
| `MCCrmStore`, `MCStartup`, `MCSession`, `MCCrmUi`, `MCCrmUiSaves`, `MCCrmMock`, `MCDcRuntime`, `MCDcExternals` | - | values of the constants for TLC |

`CrmStore` and `CrmMock` EXTEND `CrmData`, and each instantiates `CrmCatalog`
with a refinement mapping. The store maps `table` to itself: sessions and
counters are hidden. The mock maps its rows (`table <- Mapped`): ids such as 1001
become positions, texts are trimmed, which the mock leaves to its readers, and
null and `""` become the one value the store keeps for them. In both,
`ImplementsCatalog` is the claim that every step is a step of the catalogue or a
stutter. That says what accepted calls do. Which calls are accepted is a claim of
its own, `SameVerdicts`: the mock's checks (`Allowed`) against those of the API
(`ApiAllows`, from the catalogue's `Accepts`), on whatever rows it holds by then.
Both hold for `PlainCallers` only. `Startup` takes a create as
one step, and `CrmUi` every request of the server, which the store's refinement
justifies. `DcExternals` renders the page whenever it is due; that no update of
the registry is missed is what `ShowsCurrent` of `DcRuntime` says.

### CrmStore in detail

A method runs as a chain of `pc` values:

```
create contact            number -> flush -> commit -> reply
create deal, activity     find -> number -> flush -> commit -> reply
update contact            load -> flush -> commit -> reply
update deal               load -> [find ->] flush -> enrich -> commit -> reply
get, list                 load -> [enrich ->] reply      (activities: find -> reply)
```

`Refuse` (an exception, ROLLBACK) leads to `reply` from any check, `Abort` (any
statement may raise: a 500) from anywhere, and `Crash` to `idle` from anywhere.
A transaction's writes stay in `tx[w]` until `Commit`: the number drawn by
`_next_id`, the inserted row, or the row copy with the set of `dirty` columns.
SQLAlchemy writes only the columns whose value changed since the load, so
`Committed` takes those from the session and the others from what is stored at
that moment. `tx[w].locks` holds the row the UPDATE locked.

Abstractions: an id `"c7"` is the number 7 in the table of its kind; null and
`""` are one value, since every method treats them alike; `Strip` is a constant
with the facts about `str.strip` that matter. Tags and an activity's timestamp
have no column. `expire_on_commit=False` is why the reply is the session's copy.
`update_deal` with a new contact answers `_enrich_deal` from the session's
identity map; the model's `enrich` step reads the same row. `list_contacts` and
`list_tags` are one SELECT each and change nothing. The primary and foreign keys
of the schema are left out on purpose: the properties show the code never meets
them, and SQLite does not enforce the foreign keys. The filters of `list_deals`
let any subset of the deals through, whose contacts are then read one statement
after the other.

### Startup in detail

`saw` is the revision Alembic starts from, after the stamp; `Clash` says that a
`CREATE TABLE` of a pending revision meets an existing table. The whole upgrade
commits or rolls back at once (PostgreSQL has transactional DDL). The emptiness
check is a transaction of its own and the seed is one transaction per entry.
Contact ids are numbers; ids such as `"x9"`, which 0002 skips, are left out.
The database before the first start is any of `OldDatabases`: none, one made by
`create_all()`, or one at revision 0001, each with any ids.
Deals and activities of the seed are entries with no id of their own.

### Session in detail

`login[p][n]` is the n-th login of page `p`; a call holds the number it awaits
or uses. The first 401 clears `promise` and starts a new login in the same turn,
because `request` calls itself and reaches `getToken` before it first awaits.
`Reject` is any other error of the server (400, 404, 500): the page takes it as it
is. `Lost` is a rejected `fetch`: the server may still carry the request out. A
login that the server serves after its connection broke is not followed up: it
only adds a token nobody holds. `sends` and `applied` are history variables. One
clock stands for those of all instances.

### CrmMock in detail

Every method begins with `await wait()`, whose latency is the same for all; calls
therefore go on in the order in which they were made, each in one turn. Ids of
all kinds come from one counter that starts at 1000 (`FirstId`), so that seeded
and created rows never meet. The rows it starts with keep their tags as they are;
tags given later, a list or a text with commas, are the set of their parts,
normalised where the code does. The mock stores what it is given: null stays null
(an update even takes it for a name, as `String(null)` is not empty), texts keep
their white space, `""` is a date, and `NumberOf` is its `Number(v) || 0`. A
number and a text that spells it are one value, and `trim` and `strip` remove the
same.

To compare it with the API, a row is read as the API would store it (`Plain`,
`Mapped`), and a call as a request about the positions of the ids it names
(`Asked`). `PlainCallers` send amounts and dates that the API can parse, no null
for a name, company or title in an update, and ask for the activities of contacts
that exist. Without that the two
differ (see findings). Not compared: what
lists answer (a null name stored by an update would make the sort of
`listContacts` throw), the order of rows, and search.

### DcRuntime in detail

An instance is named by its path of DC names from the root. A template is an
identity, the DCs it imports and the way it goes wrong (does not compile, throws
when rendered, has a child that throws), a class an identity and its fault (does
not evaluate, constructor throws): what is inside is not told apart. React is
external: updates are batched (`createRoot`), one `Commit` renders what is `due`
with everything below it. What a render gives the instances below may be new
props: the constructor of one that failed is then tried again (`fresh`; which
props differ is left open). Under a template that has replaced another, a child
may have a new position or key, and is mounted anew with a logic of its own
(`moved`, any of those below). An error goes to the nearest instance above (for
the root there is none, and the page is unmounted), then lifecycles are called.
A `setState` may come late, from a logic that has been replaced; it goes through
`__host` and writes the state of its successor (`ran`: the instance once had a
logic that could call it). `StandaloneRoot` subscribes only in an effect after
the first commit. An entry's `ver` is compared only with the one a failed
constructor remembers, so a bump clears that memo. An import inside `sc-if` or
`sc-for`, which comes and goes with the values of its template, is not modelled:
imports change with templates. `pushed`, `gone`, `past` and `tries` are history.

### DcExternals in detail

The host streams growing prefixes of the page's template; each chunk is compiled
(which starts the modules its x-imports name) and rendered. `mods[u].after` is
the predecessor that the list which first named `u` gives it; the code ignores
the predecessor that a later list would give. Babel comes or fails once. A name
that has timed out stays in `polls` with no ticks left. Elements of the helmet
are mounted by key and only if they may not be cut off.

### CrmUi in detail

An async method is the list of steps it awaits:

```
componentDidMount   import, import, refreshContacts(true), refreshDeals
submitForm contact  write, refreshContacts, select(saved), refreshDeals
submitForm deal     write, refreshDeals, [reloadSelected]
logActivity         write, reloadSelected
drop                write, refreshDeals, reloadSelected
select, search      select / refreshContacts
```

`Serve` carries out one request on the server; `Resume` is the turn in which all
answers a step awaits (`Promise.all`) are there: `setState`, then the next step
up to its first await. Answers of different methods so overtake each other, and
the answers inside one step may be of different moments. `Refused` and `Lose`
are the exceptions; `Caught` says which methods catch them. The dialog's
backdrop covers the page, so that with a dialog open only its own controls act.
Until the first import has ended there is no `this.api`, and what the user
starts throws (`Calls`). `touched` of a dialog is history: the fields the user
set. A dialog holds only what it copied from the page; whose values these are is
asked of `had` in `CrmUiSaves`, not of the page. The server refuses a blank text
(400) and a new deal's empty close date (422: `expectedClose: ""` is no date);
the amount, which is refused in the same way while empty, is left out. The
server is atomic per request and no one else uses it; what concurrent users do
to each other is in `CrmStore`. A request lost before it is carried out never
is.

## Runs

| Run | Question | Result |
|---|---|---|
| `store` | do creates, overlapping partial edits and reads of two threads keep ids, answers, references and data sound, and refine the catalogue? | holds, 670 000 states |
| `progress` | does everybody who waits for a row get it? | holds, 3 workers |
| `patchreply` | is a PATCH answered with the stored row? | **violated**, see findings |
| `startup` | three instances that crash and restart on an empty or old database: migrations, counters, seeding, and does every boot end? | holds, 80 000 states |
| `startup_race` | is only an empty database seeded? | **violated**, see findings |
| `session` | retries, expiry and shared logins; does every call end? | holds, 25 000 states |
| `ui_patient` | a user who waits for the page, refused saves, lost requests: is what is shown current, does a save carry only what its own row held and its user set, and does a dialog close when and only when it may? | holds, 461 000 states |
| `ui_hasty` | a user who clicks while the page loads | holds, 2 577 000 states |
| `ui_newdeal` | does a new deal go to the contact its dialog names? | **violated**, see findings |
| `runtime` | a page and a component it imports under late files, streamed templates and classes, crashes, new props, remounts and hot swaps | holds, 127 000 states |
| `externals` | modules in crossing lists, a polled global, a helmet that streams in | holds, 3 000 states |
| `mock` | does the mock stay consistent, refuse what the API refuses, and store what the catalogue says? | holds, 26 000 states |

Every property of a passing run has at least one mutant of the code (operators
named `Definition_WhatIsWrong` next to the definition they change) that makes
TLC find it violated under the run's own bounds.

Bounds. `MaxId` stops creates, so that the counters stay finite; 2 leaves room
for a create of a kind on top of a seeded row and for one that must wait. Two
workers suffice where the question is about pairs: a lost update, a stale answer
or a number drawn twice needs one transaction inside another; `progress` has
three, so that one holds a lock while two wait. The request sets contain an
accepted and a refused request of each kind that matters, white space to strip,
and a contact that only exists once another request has created it. `Startup`
has three instances (one holds the lock, one waits, one crashes), a database
made by `create_all()` whose ids {1, 3} have a gap, and two at revision 0001,
one without rows. `MaxContacts` bounds what users add. `Session` has two calls
that share a promise; with TTL 1 and three ticks every token can expire twice,
which is what a retry can meet. Calls of other pages meet them only in the table
of tokens, as two logins of one page do; the proofs cover any number. `CrmUi`
has two contacts, one deal, and two (`ui_hasty`: one) methods that the user
starts on top of the two of the mount: a save and what follows it, then another
that starts from what is shown; `ui_hasty` lets up to three methods overlap, two
selections among them.
`NoCrossedSave` is checked with the patient user: with two methods of a hasty one
the memory `had` makes too many states, and `SavesStayOnTheirRow` is proved for
every user. `DcRuntime` has two DCs and two host calls (`MaxPushes`)
out of fourteen, which is what an update inside another needs; `MaxDepth` is one
more than the depth at which a circle of two DCs ends, so that a longer one
would be seen. `DcExternals` has three modules (one that another needs, one of
Babel's), a global that a script of the helmet defines, and streams with a
helmet that is cut off, a chunk that does not compile and lists in opposite
orders; `PollLimit` 3 stands for the 600 ticks. `CrmMock` queues up to two calls
(`MaxQueue`), two creates in all (`MaxCreates`). `CHECK_DEADLOCK FALSE` stands
only where a system may come to rest: each call of `Session` is made once, the
host of `DcRuntime` and `DcExternals` may stop streaming, and the calls of the
mock end at its bounds. The request sets are not symmetric and no symmetry
reduction is used.

Fairness. A request thread keeps executing its method (WF of `Statement`).
PostgreSQL queues transactions that wait for a row lock and wakes them in turn,
so the two steps that wait, `NextId` and `FlushUpdate`, are strongly fair; so is
`AcquireLock` in `Startup`. Nothing forces a client to send, an instance to
boot, a connection to break or time to pass. In `Session` the event loop runs
every ready continuation, the server every request it has, and a login request
is answered unless it fails. In `DcExternals` fetches end (well or not), timers
fire and React renders what is due; the host need not stream on, and a script of
the head need not run. In `CrmUi` requests are carried out and answers
processed unless lost; the user need not do anything.

## Findings

* `patchreply`: `store.py:168-169` answers a PATCH from the session's copy. Two
  PATCHes of different fields of one contact both load the row; the second
  commits after the first and is answered with the first field's old value,
  although the database is right. `openapi.yaml:170` calls the answer "The
  updated contact".
* `startup_race`: `store.py:437-441` checks for contacts and seeds in separate
  transactions after the migration lock is gone; two instances that start at
  once both seed. The docstring at `store.py:431` says demo data is seeded only
  if the database is currently empty. (`deploy/gcp.sh` switches seeding off.)
* `ui_newdeal`: `Simple CRM.dc.html:387` creates a deal for `selectedId`, which
  a click on a contact sets at once; the details and the dialog's title follow
  `contact`, which is set when the answers arrive. Between the two, or for good
  if an answer is lost or overtaken, *New deal* creates a deal for a contact
  other than the one shown. `_docs/tasks.md:74` asks for a way to create a deal
  "from this contact". (Logging an activity, line 400, has the same gap; and a
  list of contacts keeps the answer that comes last, not the one asked last.)

* Not a run, but in the model (`Commit` of `DcRuntime`): `support.js:925-927`
  says that a crash in a component's "own template" lands in its own error
  boundary. React calls that of the component above; for the page's root there is
  none, and the page goes blank. A parent that shows such an error keeps it when
  the child's template is repaired, until the parent itself is updated.
* Not a run, but why `PlainCallers` is needed: `createDeal` of the mock
  (`crm-service.js:147-162`) takes an amount that is no number, as 0, and any text
  as the close date. The page's own form for a new deal sends `""` for both while
  they are empty (`Simple CRM.dc.html:348,383`); a test sees it accepted, the API
  answers 422 (`models.py:80,83`). Likewise an update with a null name passes the
  mock (`crm-service.js:115`) and not the store. `openapi.yaml:6-8` says that the
  API mirrors the mock "one-for-one", with the same "validation errors".

A further point, kept in the model rather than reported: a PATCH whose value
equals the one it loaded writes nothing for that column, so a concurrent edit of
the same column wins even if it committed first. `CrmCatalog`'s `Edit` therefore
promises that *some* of the supplied fields take their values.

## Proofs

`CrmStoreProofs` proves, for any workers, requests, texts, stages, fields, seed
rows and `MaxId` that satisfy the named assumptions (`TextAssumption`,
`FieldAssumption`, `RequestAssumption`, `SeedAssumption`, `BoundAssumption`; TLC
evaluates them in every `CrmStore` run):

* `InvariantHolds`: `IndInv` is an invariant. The safety properties are not
  inductive by themselves: that ids stay contiguous at a COMMIT needs the id in
  the session to be the counter plus one; that needs the session to hold the
  counter's row lock, and locks to be exclusive; that references hold needs the
  looked-up contact to be stored still, which needs tables never to shrink.
  `SessionOK` states, per `pc`, what a session may rely on; `LocksExclusive`
  states the rest.
* `TypeCorrect`, `IdsAreContiguous`, `NoIdCollision`, `ReferencesHold`,
  `MandatoryHolds`, `EnrichmentTotal` follow from it.
* `AckedCreatesAreStored`: inductive relative to `IndInv`; a COMMIT adds an
  answer under a number no stored row has, hence no earlier answer.
* `PatchesAreMinimal`: the action property; only COMMIT writes, and an UPDATE
  names only dirty columns, which the input supplied.
* `StoreImplementsCatalog`: the refinement; COMMIT is `Add` or `Edit`, every
  other step leaves `table` alone.

The argument has two parts: every action but COMMIT changes one session only
(`LocalStep`, `QuietStep`), and COMMIT is treated by itself (`CommitInv`) from
what `CommitCreateRow`, `CommitUpdateRow` and `CommitTables` say about it.
`CrmDataProofs` holds the lemmas about the pure operators (a new row and a
patched row are well formed).

`StartupProofs`, for any instances, old databases and demo data that satisfy
`StartupAssumption` (a set of old ids has a highest one, tables exist at revision
0001, contacts come first in `seed`): `StartupTypeOK`, `MigrationsNeverClash`,
`CountersStayAhead` and `SeedingStartsFromScratch`. None is inductive alone. That
no migration clashes needs: whoever is between the lock and the COMMIT holds the
lock (`LockHeld`), and what it saw is still so (`SawCurrent`), because only the
holder changes the schema. That the counter is ahead needs the ids of a database
not yet migrated to have a highest one. That a start seeds from scratch needs
`ContactsFirst`: no demo entry is stored without a contact.

`SessionProofs`, for any pages, calls, TTL and clock: `SessionTypeOK`,
`CallsAppliedOnce` and `TokensLastTheirTime`. The invariant `CallInv` ties
`sends`, `retried`, `wire` and `applied` of a call together, step by step; a
`401` with a valid token is excluded by `SentWithToken` (a request is sent only
with a login that was served) and `TokensKept` (a served login that has not
expired is stored), which the purge of `issue_token` preserves.

`CrmMockProofs`, for any seed rows, requests and bounds under `MockAssumption`
and `CallAssumption`: `MockInvariant`, `MockIsConsistent`, `TagsAreFindable`,
`MockAnswersAlike` and `MockImplementsCatalog`. One counter serves all kinds, so
`MockInv` counts: ids do not exceed the counter, and a table has no more rows
beyond its seed than the counter has steps. This is what makes a new id new;
with it, rows keep their ids and positions, and a position is what the catalogue
calls an id. The last two assume `PlainCallers`: `SameVerdicts` does not hold
without it, and then the two services part on purpose (null for a mandatory
text) or by what JSON can say (an amount that is no number). What the mock
stores is compared after `Plain` has removed white space and null, which is what
its readers do.

`DcRuntimeProofs`, for any DCs, files, templates and classes under
`RuntimeAssumption`: `StreamsAreKept`, `ShownIsCurrent`, `LifecyclesArePaired`,
`FailuresNotRetried`, `NestingIsBounded` and `StatesAreKept`. `StreamInv` says
that an entry which was given a template (or a class) by the host has one; a late
file looks exactly at that. `InstInv` says of each instance, by its path: its
hooks are paired and its failed class was tried at most once (`Healthy`), and it
is due, or below one that is due, or shows what its entry holds (`Calm`). The
tree that a commit renders is the set `Paths`, declared by what makes a path of
names belong to it, not by recursion, and so within the prover's reach.
`RuntimeInvariant` is the conjunction.

`DcExternalsProofs`, for any modules, scripts, globals and streams:
`ModulesRunOnce`, `ListsKeepOrder`, `ImportsAreCurrent`, `HelmetsAreApplied`.
`ModInv` adds to the property that modules run once that a module not yet settled
has not run (`FreshNotRun`) and that one loads only after its predecessor has
settled (`InTurn`). `PageInv` says that what has a view is known, only whole
elements are mounted (`MountedWhole`), and the head and the mode are those of
the last chunk. `CutAssumption` says of the streams what the parser makes of a
prefix: what is cut off is the last child of an open helmet. Lists may cross, so
which modules come before one is the least set that holds its predecessor and
is closed under predecessors (`Before`); `InTurn` makes the settled modules such a
set.

`CrmUiProofs`, for any rows, texts and bounds under `UiAssumption`. For any
user: `UiInvariant`, `UiTypes`, `OneContactShown`, `SavesStayOnTheirRow` and
`FirstListYields`. `UiInv` says that every id in the page, the dialog, the
methods and their answers is that of a stored row, and that the three parts of
the details are of one contact. For `SavesStayOnTheirRow`, `SavesInv` adds, of
every copy of a row on its way (an answer, a part of the page, a dialog, a
write), that the row with that id once held it (`AllTold`): the copies are
followed from the server to the page, into the dialog and back. Under `Patient`:
`OwnWritesShown`, `UntouchedFieldsKept` and `DialogsCloseWhenSaved`. For the
last, `AloneInv` says that while a dialog is being submitted it is open and no
other method runs (`SubmitsAlone`), also when requests are lost. The first two
do not hold without `Patient`: a hasty user may get the answer of an older
search last, or edit values that a save under way is about to replace (see
findings and hazards); and both are stated up to the first lost request
(`~lost`). Their invariant `StepInv` adds that `this.api` is there once the
first import has ended (`ApiOK`), and `InStep`:

* every part of the page is what the server would answer (`Fresh`) or will be
  fetched by a step of a running method (`Coming`);
* a write is followed by steps that fetch all it may change (`PlanOK`);
* methods run alone (`AloneOK`), but for the mount's reading of the board, which
  may overlap the first selection: they fill different parts (`Apart`);
* an answer that waits for its turn is still what the server would answer
  (`TaskNow`);
* an open dialog, and the write it turns into, holds what is stored wherever
  the user has not typed (`FormNow`, `Copied`).

TLC checked each of these on all states of `ui_patient` before it was proved.

Only model-checked: liveness (`EveryRequestEnds`, `EveryBootServes`,
`EveryCallEnds`, `SubmitIsAnswered`, `EveryImportSettles`, `GlobalShown`), which
is beyond the prover. The three violated properties are runs only.

## Not modelled

* `list_contacts`, `list_tags`, tags and their normalisation in the backend:
  one SELECT each and pure text; pydantic's 422 errors, password hashing, CORS
  and static files.
* The SQLite backend (one writer at a time) and `reset()`, which only tests call.
* Of `support.js`: parsing and compiling of templates (expressions, `sc-for`,
  `sc-if`, pseudo-class styles, case encoding), the stream tracker and the editor
  bridge, `window.__resources` of a bundled page, keyed slides of a deck, the
  canvas background. They are data to what the models tell apart.
* Roll-out and health probe: straight lines of `gcloud` calls; what can go wrong
  there (connections of two revisions, traffic) happens in services whose
  behaviour is not in this repository.
* Style sheets, build script and test suites hold no logic of the system.

## Plan

1. Tags of the backend: `normalize_tags`, `_join_tags`, `_split_tags`, the tag
   filter and `list_tags` on sequences, against a set-based reference, and the
   mock's against both.
2. `Startup` composed with `CrmStore`'s creates instead of one-step creates,
   with the refinement proved as that of `CrmStore` is.
3. The page and the store in one: that the requests of `CrmUi`'s server are
   accepted requests of `CrmCatalog`.
