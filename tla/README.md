# A verification project for springCloud-game

TLA+ models, TLC runs and TLAPS proofs kept beside the repository. The
repository is a collection of some twenty Spring projects; most of them show
the use of a framework in a class or two. One of them, `springboot-workflow`, is
a real system: an approval service over the tables of a process engine
(Activiti 6), with commands of its own that edit those tables by hand, and the
web client it ships, which is jQuery 1.9.1 with three plugins' worth of page
scripts. That is where state, concurrency and ordering meet, and what this
project models.

Paths below are relative to
`src/springboot-workflow/src/main/java/com/springboot/workflow/` unless they
start with `src/`.

## 1. Inventory

### 1.1 The approval service (`springboot-workflow`)

| Part | State | Operations | Talks to |
|---|---|---|---|
| Engine tables, and the commands on them (Activiti 6; `command/CommonJumpTaskCmd`, `command/CommonTransferTaskCmd`, `command/AbstractCmd`; process `processes/expenseAccount.bpmn20.xml`) | process instance, business key, variables, execution with its multi-instance counters, `ACT_RU_TASK`, `ACT_HI_TASKINST`, task-local variables | start, complete, claim, unclaim, set local variable, suspend, delete (engine); jump, transfer record (repository) | the database; one transaction per command |
| Service handlers (`server/impl/WorkflowExecuteServiceImpl`, `server/AbstractProcessCommonService`, `web/controller/WorkflowController`) | none of their own between requests; what a thread has read and not yet acted upon | start, submit, rollback, withdraw, runTo, transfer, stop | engine commands and queries, several per request and no transaction around them |
| Task id generators (`util/guid/*`, `config/WorkflowIdGenerator`) | clock last seen, sequence in the millisecond, random bits, the lazily built generator | nextId; change of the random bits by a background thread | called inside every engine command that inserts rows |
| Definition caches (`server/impl/ActivitiHelper`, the node maps of `AbstractProcessCommonService`, `WorkflowManagementServiceImpl`, `AutoDeploymentServer`) | code/version to definition id; definition id to nodes | lookup and fill; deploy, delete, removal of a cache key | engine's repository service |
| Next-step prediction (`util/ProcessUtils`) | none | getNextNode over a process graph | no caller on the approval path |
| Queries (`WorkflowQueryServiceImpl`) | none | todo, history | engine tables |
| `WorkflowCoreService`, `RollbackFirstTaskCmd` | | commented out in full; never called | |

What makes it correct: an approval moves past an activity exactly when the
activity's signature rule is met (one draft owner; *every* business reviewer;
*one* financial reviewer), or by an explicit jump; no signature is lost, counted
twice or counted in another round; the runtime and the history tables agree;
what is finished is never rewritten; a running approval can always be acted
upon; and what a user is answered is true of the tables.

What is hard: every handler reads, decides and then writes in one or more later
transactions, so requests of several users interleave inside each other; a
submit may be repeated; a thread may die between two commands of one operation
(claim = unclaim + claim, stop = suspend + delete, submit = comment + complete);
the jump command does by hand, on two tables and the execution tree, what the
engine otherwise does for itself; rollback is authorised by a history that also
holds rows which jumps and transfers have invented.

### 1.2 The web client (`src/springboot-workflow/src/main/resources/static/js`)

| Part | State | Operations | Talks to |
|---|---|---|---|
| Requests (`jquery.js`: `ajax`, XHR and script transports) | per request: state, transport, timer, how it ended, what was told; the counter `jQuery.active` | ajax, abort, answer, timeout, the global events | the page's callbacks, at a dozen places; the browser |
| Callback lists, deferreds, promises (`Callbacks`, `Deferred`, `when`, `then`) | the list, what is firing and where, memory, queue of firings; state of a deferred | add, remove, empty, disable, lock, fire; resolve, reject, notify | each other and the page, from inside a firing |
| Queues and effects (`queue`, `Animation`, `fx`) and the menus of `layout.js` | queue and hooks of an element, the timers and the one interval, saved display | animate, delay, show, hide, toggle, stop, finish, promise; mouse over a menu | timeouts; deferreds |
| Events and data (`event`, `internalData`, `cleanData`, `clone`) | handlers by element and type, the cache and its recycled keys, the browser's listeners | on, one, off, trigger, dispatch; data; remove, detach, clone | the page's handlers |
| Page scripts (`Common.js`, `utils.js`, `layout.js`, `jquery.cookie.js`) | check boxes, the "more" menu, number fields, cookies, forms | clicks, resizes, keys, reads and writes | the document, the cookie jar |
| Conversion, JSONP, ready, inserted scripts (`jquery.js`) | chain of types; window names and the free ones; `readyWait`; marks on scripts | convert; send, load, abort; ready, holdReady; append, clone, remove | the browser |
| knockout, selectors, styles, `index.js` | | | not modelled |

What makes it correct: the indicator of pending requests is true; a request is
done once and tells only how it ended; a callback is neither skipped nor called
twice, whatever a callback does to the list it is called from; a promise is
settled once; a queue runs one step at a time and its promise is kept; data
belongs to one element; an event calls what was bound; the scripts of the page
keep what their boxes, menus and fields promise.

What is hard: there is one thread, but the library calls the page from the middle
of its own loops, and the page calls the library back. Every loop over a list
that a callback may change, every flag set before a callback and read after it, is
an interleaving that no test of a single call reaches. Timers, answers and mouse
moves come between any two tasks.

### 1.3 The rest of the repository

| Part | State and behaviour worth checking | Plan |
|---|---|---|
| Publishers (`src/springCloud-rabbitMQ-server`, confirm and tx packages) | the set of unconfirmed sequence numbers; acks overtaking the insertion | no (samples; see 5) |
| Work queues (same, work and workFair packages) | automatic against manual acknowledgement, a consumer that dies | no (samples) |
| Exchange, routing, topic, simple samples | none | no |
| Socket RPC (`src/springboot-rpc`) | one connection per call, a server pool, lost answers that look like null | no (samples) |
| Order and member services (`src/springCloud-game-server`) | a circuit breaker with fallback over two member servers | no (the framework's) |
| Gateways and filters (`src/springCloud-zuul-gateway`, `src/kayle/kayle-zuul`, `src/springboot-auth`) | stateless per request | no |
| Discovery, configuration, tracing, stream, swagger, thymeleaf, rest, feign, dubbo, test, kayle web/server | framework configuration and CRUD samples | no |

PROJECT.json lists every one of these under `components`, and under `hazards`
the places where the code is hard to test, with the properties that cover them
or the reason why none does yet.

## 2. The modules

    ApprovalFlow            what an approval promises (abstract)
       ^ implemented by
    ApprovalEngine          tables and commands       <--  ApprovalService_proofs
       ^ EXTENDS                                           (TLAPS; the engine,
    WorkflowExecute         request handlers                then the handlers)
       ^ EXTENDS            as interleaved threads
    MCApprovalEngine, MCWorkflowExecute     instances for TLC

    IdGenerators            ids of rows, per server   <--  IdGenerators_proofs
       ^ EXTENDS
    MCIdGenerators

    Ajax                    requests of the client    <--  Ajax_proofs
    Promise                 what a deferred promises (abstract)
       ^ implemented by
    Deferred                deferreds, then, when     <--  Deferred_proofs,
       ^ EXTENDS                                           DeferredLists_proofs
    Callbacks               one callback list, as operators
    Effects                 queues, animations, menus <--  Effects_proofs
    Events                  handlers, data, cleaning  <--  Events_proofs
                            and cloning
    Page  EXTENDS  CheckBoxes  MoreMenu  Amount  Cookies  Forms
                   Conversion  Jsonp  Ready  Scripts  <--  Page_proofs
                   (each EXTENDS PageScript)
    MCAjax, MCDeferred, MCEffects, MCEvents, MCPage

### ApprovalEngine

The state is the engine's tables, for a set of process instances:

| Variable | Table |
|---|---|
| `status`, `bkey` | process instance (`absent` before its start, `ended` once only history is left), business key |
| `owners` | process variables: owners by activity (`multiInstanceTaskReady` writes `draftOwner`, `bizCheckOwners`, `finCheckOwners`) |
| `token` | execution: activity, round, `nrOfInstances` (`total`), `nrOfCompletedInstances` (`done`) |
| `todo`, `hist` | `ACT_RU_TASK`; `ACT_HI_TASKINST` with activity, assignee and end |
| `approved` | tasks whose `_@taskVariables` carry `_@approval` |
| `seq` | what makes ids fresh |

One action is one command, that is one database transaction. `Jump` is
`CommonJumpTaskCmd` in its case c (cases a and b change nothing or throw, and
are handled where the command is called), with the synthetic record of
`recordOperationWithHistoricTask`, and the arrival that
`planContinueProcessInCompensation` leads to. A jump may name any flow element
(`Element`: the start event, the tasks, the end event, the sequence flows), and
runTo does not ask which: from the start event or a flow the execution goes on to
the task behind it (`Destination`), at the end event the instance ends there and
then, unsigned. `TransferRecord` is
`CommonTransferTaskCmd`. The engine's own commands are modelled as the services
use them and marked external in the map; what was settled about them:

- complete, claim, unclaim and setVariableLocal throw on a task that is gone or
  suspended; claim throws on a task that somebody else holds; suspend throws on
  an instance that is suspended already; the jump throws on a suspended
  instance, since it writes task variables;
- a command that throws rolls back whole: a start without a draft owner, or a
  completion after which the next activity's owners are unknown, changes nothing;
- a jump writes no process variables: the owners at its target are those the
  variables name already;
- a completion that ends a multi-instance round removes the sibling tasks, whose
  history rows are ended without an approval (`closed`).

Abstractions: a chain of `Activities` user tasks of any length, each `single`,
`all` or `one` (completion conditions `nrOfCompletedInstances/nrOfInstances == 1`
and `nrOfCompletedInstances == 1`). Operators are their ids; a list of owners is
a set; due dates are never set by the service. `cancelApply` and `carvedApply`
cannot be driven through this service (their collection carries no `${...}` and
their draft has no assignee), so `expenseAccount` is the process modelled.

### ApprovalFlow

`stage`, `asked`, `signed`, `passed`: an instance stands at an activity, owners
are asked there, and it moves on by approval exactly when the rule is met; the
activity is then passed. Everything else is a jump, to an activity or, by a runTo that
names the end event, to the end, or a stop; neither is ever counted as an approval. What
the service's jumps may skip is therefore not what this refinement is about;
`NoActivitySkipped` says it of rollback and withdraw. `ImplementsFlow`
maps the tables to it: `asked` and `signed` are read from the *rows* of the
current round, `passed` from the rounds whose rows show neither a jump nor a
stop, while the engine decides by its *counters*.

### WorkflowExecute

A thread (`Client`) has a step `pc`, the request `req` it serves; `answer` is the
last answer given. Each handler is one action per read that it acts upon and one
per command that it issues:

| Operation | Steps |
|---|---|
| start | `StartQuery` (count), `StartCreate` or `StartChoose` |
| submit | `SubmitQuery` (read and check), `SubmitComment` (addComments, which swallows exceptions), `SubmitComplete`, `Reply`, `TerminatedResult`; a task that is not active: `SubmitLookup` (the idempotent path), then the reply |
| rollback, withdraw, runTo | `JumpCheck` (checkTargetActivity, multiInstanceTaskReady), `JumpExecute`, `Reply`, `TerminatedResult` |
| transfer | `TransferQuery`, `TransferSetOwner` (for an heir with a bailor only), `TransferUnclaim`, `TransferClaim`, `TransferFinish` |
| stop | `StopQuery`, `StopSuspend`, `StopDelete` |

`Throw` leaves the handler with an exception, `Abort` is a request that dies
between two commands (a server that goes down, or a command that loses the
engine's optimistic lock). `Reply` is the read of the open tasks, `TerminatedResult` that
of the instance when there were none. Merged into one step: the counts and the list of an
existing instance in `createOrGetInstance`, the reads of `transfer` and those of a
jump's request, whose target `checkTargetActivity` looks up before the owners are
checked. The target of a jump is one of `Targets`, ids of flow elements or of nothing
(`NoElement`, for which the command throws). As in the code, a transfer
does not compare the activity (the filter of `getTodoTasks` is applied only when
the activity is blank), rollback, withdraw and runTo do not ask who the operator
is, and runTo's answer sees no tasks because `claimTasks` returns null. The HTTP
endpoint of runTo sends neither task nor target and is refused by validation; the
service operation is modelled.

### IdGenerators

Activiti asks `WorkflowIdGenerator` for the id of every row it inserts. The
engine's model takes ids to be fresh; this module is about why, and when, they
are.

| Variable | Code |
|---|---|
| `field` | `WorkflowIdGenerator.idGenerator` of a server, named by the thread that built the generator |
| `gen` | a `SnowflakeIdGenerator`: `lastTimeMillis`, `sequence`, the random bits |
| `ticker` | which generator's endless loop occupies the single background thread |
| `pc`, `mine` | where a thread is in `getIdGenerator` and `nextId`, and the generator it calls |
| `clock`, `booted`, `runs`, `back` | `System.currentTimeMillis` of the server, the last start, restarts and changes of the clock (external) |
| `issued` | the ids handed out, as parts; `Pack` is the number they are shifted into |

`Look`, `Construct`, `Assign`, `Fetch` are `getIdGenerator` with a thread switch
between any two of them. `nextId` holds the generator's monitor from its first
to its last line and reads the clock once unless the sequence overflows, so that
`NextId` is one action, and `Overflow` and `NextTimeMillis` are the two halves
of a call that has to wait while it holds the monitor (`Spinning`). A
construction with too large a worker id throws; the thread's next call tries
again. A restart takes at least a millisecond. The field is not volatile; the
model relies on the final worker id of the generator for the safe publication
of the rest, as virtual machines provide it.

### Ajax

`calls` is the JavaScript stack, innermost frame first: frames of `jQuery.ajax()`
("begin") and of `done()`. `at` and `fin` say where these stand for a request,
always at a place where the page's code runs: a prefilter, `ajaxStart`, `beforeSend`,
`ajaxSend`, the transport's `send`; then `dataFilter`, the success and error lists,
the Ajax event, `complete`, `ajaxComplete`, `ajaxStop`. There the page may begin another
request, abort any, or throw, which empties the stack. An action is the library's
code from one such place to the next. `state`, `transport`, `timer`, `fireGlobals`
and `active` are the variables of the closure and of jQuery; `listening` is the
transport's own callback; `net` is the browser's side. `busy` is a page's
indicator, on at `ajaxStart` and off at `ajaxStop`; it is what `active` is for.

Kinds of request: asynchronous, synchronous, "cached" (complete as soon as it is
sent, with its callback in a `setTimeout`), a cross-domain script, and one nobody
transports; each with or without a timeout, a part in the global events, and a `beforeSend`.
The last one matters, since only a request with a `beforeSend` is looked at again after the
handlers of `ajaxStart` (jquery.js:7895). One without, which such a handler has aborted and
whose `done()` has run, gets a transport all the same (`GoesOn`), its state is set
back to 1 (7929) and it is sent; the same holds of a request aborted by a handler of
`ajaxSend`, except that `transport` is then undefined, `send` throws and the exception
becomes a second `done()`. `again` (auxiliary) is the set of these requests (`Revive`).
Their `done()` runs twice and counts `jQuery.active` down twice, so that the counter can
go below the number of requests under way and below zero. The deferreds have settled by then,
so that the callbacks of the request hear nothing of the second result, but the handlers of the global events do.

### Callbacks, Deferred, Promise

`Callbacks` is `jQuery.Callbacks` as operators on the record of its closure (list,
memory, firing index and length, queue of firings); each gives the record after a method.
`Deferred` is the machine that runs them: frames are a firing loop, a callback of the
page, and what a method has still to do. Callbacks in a list are the page's functions and the
closures jQuery registers itself: set the state, disable the opposite list, lock progress,
forward (`then`), count down (`when`). The page's functions may use every method again, on the
list that calls them or another, and throw. The page fires its deferreds with one argument,
as `DeferredAssumption` says; `when` fires with several. `NoData` stands for JavaScript's
undefined, which is no list of arguments. One initial state is a plain list with any of six sets of
flags, another two deferreds. `Promise` is the abstract object: it is settled once,
and who asked for an outcome is called at most once, with its data; `ImplementsPromise` maps
the lists and the state to it, by `OutcomeOf` (the state with the memory of the list that set it)
and `ToldOf` (what the handler was called with).

### Effects

`page` holds the queues, their hooks, `jQuery.timers`, the interval, timeouts, saved
displays; `calls` is the rest of the task under way, one library step at a time, so
that a step of a loop sees what the callbacks before it have done. In mode "script" a page
animates, delays, toggles, stops, finishes and clears the queues of one element
(four calls) or two (three calls); in mode "menu" the mouse moves over the entries of the navigation
bar, whose handlers `stop(true, true)` and fade (six moves). `stray` marks elements whose
queue was cleared under a pending step, which `OneStepAtATime` leaves out; `nested`
says that a complete callback has called `stop()`, which removes timers from under the
loop that called it: the tick then splices the timer that slipped into its place
(jquery.js:9132). After that neither "one step" nor the promise holds, and the properties say so. The loop of `finish()`
that visits the timers (jquery.js:9167-9172) has the same weakness: a complete callback that calls `stop()` can
make its index run past the array, a TypeError that leaves `finish` set in the element's data; to get
there takes more calls on two elements than the run allows, and `QueuesInv` says of `finishing` only what
holds without it.

### Events

The handlers of an element by type with their `delegateCount`, the data cache with its
recycled keys, the browser's listeners (click on each element; focusin through one capturing
listener that is counted), and the document as a tree. `calls` is the events under way with the
queues of handlers they have still to call; a handler may bind, unbind, fire and remove. `meant`
is what the page has asked to be bound (auxiliary).

### Page

Nine scripts of which a page's behaviour follows one; the state of the others is `Off`.
`CheckBoxes` has the handlers that tick other boxes under eight rules, with
`attr("checked")` ticking only what was not touched; `MoreMenu` the menu bar that hides what does not
fit and pairs menus and clones by index; `Amount` the row of regular expressions a
number field goes through after every key; `Cookies` the jar with paths, and cookies of
the server that do not decode; `Forms` `serializeArray` and `serializeObject`;
`Conversion` `ajaxHandleResponses` and `ajaxConvert`, over any order of converter pairs
(`SameType` follows the converters that are TRUE, through any number of types); `Jsonp` the window
names of JSONP requests; `Ready` `jQuery.ready` with its counter and holds; `Scripts` which scripts
run when content is inserted, cloned, detached and removed.

### The operators named as mutants

Definitions commented "Mutant" are not part of the model. Each is a plausible bug
in the definition that follows it; PROJECT.json pairs it with the property that
must fail when it takes that definition's place, which shows that the property can
fail for a reason that lies in the code.

## 3. What the runs check

| Run (cfg) | Instance | Question |
|---|---|---|
| engine (`MCApprovalEngine`) | draft, all-sign, or-sign; two operators; up to 3 rounds and records; jumps to the start event, an activity and the end event; 257k states | no instance stranded, signature rules, history final, and the refinement of `ApprovalFlow`, under every order of commands; `IInv`, the invariant that is proved, contains type correctness and the agreement of runtime and history |
| handlers (`ExecuteEngine`) | two instances, two threads, four requests, one death; jumps to an activity, the end event and no element; 438k states | handlers change the tables by engine commands only; a submit acknowledged is one whose task is over; duplicates of a business key are bounded by the threads |
| signoff (`ExecuteSignOff`) | full chain, two threads, four submits, rollbacks, withdraws, transfers, stops; fairness; 300k states | no activity is passed unsigned; taskMiss is told only in the middle of a stop; no task stays without an assignee, no instance suspended |
| ids (`IdsRestart`) | one server, threads 0, 1 and 2, fields of one bit, three milliseconds, a restart, a clock change, three ids; fairness; 381k states | ids repeat only when a server meets both a restart and a clock set back; a waiting call gets its id |
| ajax (`Ajax`) | two requests of seven settings, nested or in turn, two aborts, one exception; fairness; 397k states | counter and indicator; what is told; what a request that is done may still do; every request ends |
| promises (`Deferred`) | a list with six sets of flags, or two deferreds with `when` and `then`; two handlers, four calls, one exception; 857k states | nobody skipped or called twice; `when` and `then` agree with their parts; refinement of `Promise` |
| effects (`Effects`) | two elements, four calls on one or three on two, six mouse moves; fairness; 292k states | one step at a time; display restored; the menu follows the mouse; the interval stops and promises are kept |
| events (`Events`) | a document, an item, a spare element; five bindings; four calls; 725k states | data and listeners; what is bound; what is called |
| page (`Page`) | a tree of six boxes, four menus in ten widths, fields of five characters, three cookies on two paths, three form fields, seven converters, three JSONP requests, two functions and three holds, three contents; fairness of ready; 332k states | what each script promises |
| one_active, run_to, by_hand | as small as the counterexample | three statements of comments that the code does not keep |

Several properties are conjunctions of named parts that say one thing of one
state together (`AjaxInv`, `ListsInv`, `ChainsAgree`, `QueuesInv`, `DataInv`, `BoxesKeepRule`, ...);
the parts are defined and commented where they stand.

Why the bounds are enough. Two threads give every pairwise overlap of handlers,
and no handler's outcome depends on more than one other request being under way
at a time, except the bound on duplicates, which is stated in terms of the number
of threads. Two operators make an all-sign round of two and an or-sign round
with one loser. Four requests allow a race of two after a state reached by two
others (an approval and a rollback, a transfer and its repetition). `MaxBatch`
bounds rounds and records of an instance (3 for the engine, 4 and 7 for the handlers); 3 lets the engine return once to an
activity, with a synthetic record in between. `Targets` bounds the ids that jumps name; of each kind
(the start event, activities, the end event, no element) one run has one, and a sequence flow, which differs from
the start event by the activity behind it only, none. Runs over `StartedSpec` begin when
the only instance has just been started, to spend their requests on what follows.
Symmetry is used over threads only, and in no run with a liveness property.
In the ids run one bit per field makes the second id of a millisecond overflow
the sequence, and thread 2 a worker id too large; `MaxClock`, `MaxRuns`, `MaxBack`
and `MaxIds` bound the clock, the restarts, the clock changes and the ids of a
server. Three ids are one before, one during and one after a wait or a restart;
a call begins only while the clock can still move, so that no wait fails for the
bound.
In the client, two requests, deferreds or elements are the smallest number that can be
nested in each other, and a third adds only more of the same nesting; four calls are enough
to register, change the list from inside its firing, and settle. Cookies, forms and menus are
small because the scripts compare neighbours only (two of a name, one between).
The remaining bounds (`MaxAborts`, `MaxThrows`, `MaxHolds`, `MaxContents`, `MaxLength`) count
what a page or its user does.
Deadlock is not checked: users may stop sending requests, and a page comes to rest.

Fairness. `FairExecuteSpec` is weak fairness of each thread's own steps: a
servlet thread that has taken a request runs it to its end, and none of its steps
waits for another thread. Users owe nothing, so no fairness is put on arrivals or on
deaths. `OrphanIsRescued` leans on requests being bounded: a service that is never without a
transfer under way need not be without an unassigned task. `SuspendedIsStopped` and `OrphanIsRescued` are checked without deaths; with one,
both fail by the shape of the code (a stop that dies between its two commands leaves
an instance that cannot be stopped again, as suspending twice throws; a transfer that dies
between its two leaves a task nobody holds). `UnassignedOnlyMidTransfer` is about live
tasks: a stop that overtakes a transfer makes the claim throw while the instance
is suspended, and the delete then removes the orphan.

`FairSpec` of the ids says that the clock moves on and that a waiting loop looks at it.
A clock that is set back once only delays the loop.

In the client, code that has begun runs on (weak fairness of the library's steps: a page's
callback returns or throws). The browser runs timers and reports every request as
answered or failed; a script it cannot load is reported to nobody, and
`EverySentIsDone` promises its end only with a timeout. `FairSpec` of the effects says that the
interval ticks until every animation has had its duration, and that timeouts come;
strong fairness, since calls of the page may stop and restart both between two ticks. `ReadyFairness`: the
document is parsed and loaded, timers fire, and a script that holds the ready event
releases it. The page and its users owe nothing.

The disagreements found are listed with their runs in PROJECT.json under `findings`:
two overlapping starts break the idempotence by business key; runTo reports a
missing task after a jump that succeeded; and the approval mark is committed before
the completion and survives its failure, when a colleague's approval ends the or-sign round or a stop
the instance in between (a jump in between overwrites the mark). Ids called globally unique (`GUIDGenerator`) carry the number of a
thread as worker id, which another server's threads have too: `UniqueIds` is stated of one server.

Behaviour of the client that the properties name as exceptions rather than hide: a request that is aborted in
an `ajaxStart` handler without a `beforeSend`, or in an `ajaxSend` handler, is sent all the same and makes
"the number of active queries" (jquery.js:7581) one too small (`CountedTwice`); a second "."
typed into an amount leaves a third decimal until the next key; a cookie whose name does not decode makes every read
of a later cookie throw, and reading one or all of two cookies of a name differs (nearest
and farthest path); `serializeObject` loses empty values before the first full one;
"select all" cannot tick a box that was ever clicked; overlapping JSONP requests under a
name the caller gives leave the wrong function behind; `append` to several places
never evaluates the scripts of its clones; a late JSONP script may answer the next user of its name.

## 4. What is proved

The first part of `ApprovalService_proofs` proves, for every chain of activities and signature
rules, every finite staff, any number of instances and any bound, from
`EngineAssumption` alone:

| Theorem | States |
|---|---|
| `Invariance` | `EngineSpec => []IInv` |
| `TypeCorrect`, `RuntimeAgrees`, `NeverStranded`, `OneRound`, `OrSign`, `AllSign` | types, agreement of runtime and history, and the safety invariants of the engine run |
| `FinalHistory`, `FinalEnd` | `FinishedIsFinal` and `EndedIsFinal` |

The argument. The invariants the reader cares about are not inductive: that an
all-sign round never has a closed task depends on the counter being equal to the number of
completed rows when the round ends. `IInv` adds `CountersMatchRows` (open tasks
plus `done` make `total`, and an or-sign round still open has `done = 0`),
`CurrentRound` (a row of the current round is open or approved, never in between)
and `IdsAreUsed` (no row has an id from a batch not handed out, so a new round
collides with nothing). With these, the rule for `all` says that the completed task was
the only one left, and the rule for `one` that it was the first. One lemma handles
the arrival of an execution at an activity (start, the end of a round, and jump all
end in it), one the departure to the end event; each command has its own
lemma; `Bookkeeping` covers the commands that change neither rounds nor rows' ends.

The second part of `ApprovalService_proofs` proves, for any number of threads, requests and deaths
(from `EngineAssumption` and `ExecuteAssumption`):

| Theorem | States |
|---|---|
| `HandlersImplementEngine` | `ExecuteSpec => EngineSpec`: every theorem of the engine holds of the service |
| `ExecuteTypeCorrect` | `[]ExecuteTypeOK` |
| `SubmitAnswered` | `[]SubmitAnsweredWhenOver`, from the engine's "finished is final" |
| `DuplicatesBounded` | `[]DuplicatesBoundedByThreads` |
| `UnassignedMidTransfer` | `[]UnassignedOnlyMidTransfer`, from `MaxAborts = 0`: no request dies |

The invariant is `HandlerInv`: `IInv` and, for each thread, that its request
*fits* its step (a task of a request is a row of the history, and stays one, since
no command takes rows out). Each action is shown to be an engine command or none
(`StepOK`), with one lemma for each way of leaving a step (accept, refuse, go on,
answer). The bound on duplicates counts running instances and threads about to
start one together: a start moves one from the second to the first, and a thread
joins the second only while the first is empty. `UnassignedMidTransfer` holds because no
command but unclaim takes an assignee away, and the thread that issued it can leave
`claim` only by giving the task an assignee or by finding it has one or is gone.

The first part also proves the refinement, `EngineImplementsFlow`
(`EngineSpec => ImplementsFlow`): completions are approvals, the end of a round moves on,
a jump is a jump, a stop a stop, and everything else is not seen. It needs `IInv` and
`RowsInUse` (a row belongs to a started instance and has a batch). Its
heart is `EnoughIsOver`: the engine ends a round when its *counter* says so, the approval
when the *owners* who signed are enough; the two agree because the open tasks and the
counter make the total (`CountersMatchRows`) and an owner has one seat in a round
(`OneSeat`). `RoundPasses` shows that the activity left becomes `passed` and that no other
round does: closed siblings count as passed, tasks deleted by a jump or a stop do not.

The second part carries this to the handlers; of the service it also proves

| Theorem | States |
|---|---|
| `ServiceImplementsFlow` | `ExecuteSpec => ImplementsFlow` |
| `SignaturesNotSkipped` | `[]NoActivitySkipped`, from `"runTo" \notin Operations` |
| `TaskMissMidStop` | `TaskMissOnlyMidStop`, from `"runTo" \notin Operations` and `MaxAborts = 0` |

For `SignaturesNotSkipped` the invariant adds `JumpsBack`: what a thread about to jump has
read in an earlier step, that its target is in the history, is still true when it jumps,
since finished rows are final. Every command then *advances* (`Advances`): it reaches only
activities reached before, the first one, or the one after an activity signed off by this
very step; rows stay at their activity and new rows have batches of their own, so a
signed-off activity stays signed off. The assumption is needed: runTo jumps anywhere, to the end event too.

For `TaskMissMidStop` the invariant `MissInv` says that a suspended instance has a thread between the suspend and
the delete of a stop, and that an instance of which a thread has found no live task has been suspended or has ended. The
first read finds none only of such an instance (`NeverStranded`), no command takes a suspended or ended
instance back, and the thread that stops leaves its place only by ending the instance. It is the answer that is put together
from two moments: a thread that reads the instance while it is suspended says that a task is missing.

`IdGenerators_proofs` proves `[]IdInv` (`IdInvariance`), `[]IdTypeOK`
(`IdTypeCorrect`) and `[]UniqueIds` (`IdsAreUnique`) for any number of servers,
threads, restarts and clock changes and any widths of the fields. `IdInv` says of
every id handed out that its generator has gone past it (`Behind`; while a call
waits, the sequence is 0 again but the monitor is held) or that it is older than
the server's start (`Accounted`); with `Clocked`, which holds while the clock only
moves on, a new id differs from all of them in time, worker or sequence, and
`PackInjective` carries this to the numbers.

`Ajax_proofs` proves, for any requests and settings, any number of aborts and exceptions,
from `AjaxAssumption`:

| Theorem | States |
|---|---|
| `CounterIsTrue` | `[]AjaxInv`: types; the counter and the indicator, up to the requests counted down twice |
| `OnlyResultIsTold` | `[]ToldMatchesResult`: a request is told its first result and nothing else |
| `DoneOnce` | `DoneIsFinal`: the result of a request that is done changes once at most, when it is sent all the same |

`AjaxInv` is inductive because of two parts a reader would not ask for: `StackMatches` (a call is on the
stack once, exactly while its request stands inside it, and `send` is the innermost) and
`InOrder` (how far a request may have come in one respect when it stands somewhere in
another). For that, `Lawful` has what holds of every request, `DoneFirst` of one whose `done()` is
to run or has run for the first time, and `DoneAgain` of one that was sent though it was done: its
callbacks were told an error, and its second `done()` finds the deferreds settled. The order on the stack
(`done()` of a request above its `jQuery.ajax`) is what keeps a request from being sent while its `done()` is under way. `Push` and `Pop` say what
a stack without repetition becomes; `DoneInBegin` and `DoneFromOutside` are the two ways into `done()`.

`Deferred_proofs` proves, for any number of deferreds and handlers, any data, any calls that
callbacks make from inside each other and any exceptions, from `DeferredAssumption`:

| Theorem | States |
|---|---|
| `DeferredInvThm` | `[]DeferredInv`, the inductive invariant |
| `QuietServedThm` | `[]QuietServed`: when nothing runs, who asked for an outcome that has come about has been called |
| `ImplementsPromiseThm` | `Spec => ImplementsPromise`: the stack machine refines `Promise` |

What has to be ruled out is that a firing that begins inside another one settles a
deferred twice, skips a handler or calls it again. `DeferredInv` has three parts. `StackOK`: a method is called by a
callback or by a firing, a callback by a firing; a list is on the stack at most once and is `firing` while it is,
with its memory for data. `ListsOK`: each deferred has come to one of four points. It is pending; or its list is
the *innermost* call and stands at the function that sets the state, or at the one that disables the
opposite list (nothing of the page runs in between, which is why both happen as one); or it is settled, the
opposite list gone for good. `HandlersOK`: a handler stands in a list only if it asked for it, once, and is still to
be added, or has its turn to come (its place is beyond the one the firing has reached), or has been called
with the memory of the list whose outcome came about. An exception leaves lists `firing` for good (`Stuck`), and
handlers behind it may wait for ever: `QuietServed` is stated of a page without that. For the refinement, the first
function of an outcome's list is `Settle`, the call of a handler is `Tell`, a registration is
`Register`, and everything else changes nothing of the promise. The proof has one lemma for each step, over
a few on what pushing and popping a frame keeps (`StackStep`, `PushMethod`, `PopStep`) and on where a
handler then stands (`KeptAt`, `SameHandlers`).

`DeferredLists_proofs` proves of the same machine, from the same assumption and with `DeferredInv`,

| Theorem | States |
|---|---|
| `ListsInvThm` | `[]ListsInv`: the indexes of every firing list, and what a once list passes |

It is about all lists, with any flags, functions that stand in them repeatedly, and functions that
add, remove, empty and fire from inside. Its invariant is `ListsIInv`. `TurnsOK` says of a list that is firing that for
some number `b` the first `b` functions have had their turn and exactly the others are due (`InTurn`); `b` is the index, or
one more while the function at the index runs. Removing one function may take out places before `b`, at `b` and behind it, of
the list and of what is due: `RemovedTurn` shows that both indexes move by as much, by carrying a statement along the
turns of the recursive functions of `Removed` and `Without` (`Loops`, with `LeastElement` in the place of induction). What
`empty()` has cut off is excepted (`wiped`, `gone`), as in the property. For a once list there is `PlainInv`: at most a method, the
firing it has begun, the function that is called and a method of that one are under way, and
what has been passed, is being passed and is remembered is one data. `CountsOK` bounds what the page has done. That
`when.remaining` is never below 0 nor above the number of arguments is stated in `ChainsAgree`, not in the type
invariant, because it follows from the countdown.

`Effects_proofs` proves, for any number of elements and calls, from `EffectsAssumption` (what `Nothing` stands for is
none of the data the library keeps):

| Theorem | States |
|---|---|
| `RestoresDisplayThm` | `[]RestoresDisplay` |
| `TimersTickThm` | `[]TimersTick`, the part of `QueuesInv` on the interval |
| `MenuFollowsMouseThm` | `[]MenuFollowsMouse` |

The first two rest on `EffectsInv`: inline style, style sheet and saved display agree on one display of the element
(`Kept`), whichever callback cut an animation short between them; and the interval is set
while there are timers. The menus need more, `MenuInv`: what is under way is one of eighteen situations of
nested calls (`Resting`; `Stops1` to `Stops8` inside `stop(true, true)`; `Fades1` to `Fades5` inside the fade that
follows; `Ticks1` to `Ticks4` inside the tick), each saying what is left to do and that every other menu is `Calm`:
as the mouse asks, or with one timer that fades it to that. In particular a menu never has two timers, and in the menus `stop()` never
takes a timer from under the loop that called it, which on other pages it can (`nested`).

`Events_proofs` proves, for any document that is a forest, any handlers, selectors and number of calls, from
`EventsAssumption`:

| Theorem | States |
|---|---|
| `EventsInvariant` | `[]EventsInv`, the inductive invariant |
| `EventsDataInv` | `[]DataInv`: who owns the entries and keys of the cache, what the browser is told to call |
| `EventsBoundAsMeant` | `[]BoundAsMeant`: what is bound is what the page asked for |
| `EventsHandlersCalled` | `[]HandlersCalled`: `handlers()` finds what it should in its order; once is once |

`EventsInv` says five things. The document stays a forest: appending outside one's own subtree and taking out keep a number
that grows from parents to children (`AppendForest`, `CutForest`). `BrowserInv`: the keys of the cache are owned, below
`guid`, and apart from those to be used again, of which none is there twice, so that a new key is nobody's
(`NewKeyIsFree`); and of each element the entry, the handle and the listener fit each other, with delegated handlers in
front (`WithHandlerFine`, `KeptFine`). `Stack`: an event begins at rest or in a handler, a dispatch is part of an event of its type, a
handler runs in a dispatch. `Serials`: a serial is one binding's, whether it is bound or only still queued.
`CountsInv`, the part `OneIsCalledOnce` needs: a binding of one() that is still bound was never called; of what is queued on the
stack and still to be called nothing was called; and, as long as no event is fired within one of its type, no two
dispatches under way are of one type (`Apart`), so that no other call of the same binding is pending (`NoneElsePending`).

`QueuesComplete` needs no reachable state but only the first two: it is an induction along the path from the target up,
and `TreeInduction` (what a parent hands on to its children every element has) takes its place; `UpTo` is the same for
positions of a sequence. Both rest on `LeastNumber`, from the library's well-foundedness of finite subsets, and on
recursion being written as recursive functions.

The first attempt failed for a good reason: `clone()` may write into an element that once had handlers, was called and
cleaned, and the serials of the copies are those of the original, so that counts of the element's earlier bindings were taken for calls of the new
ones and `OneIsCalledOnce` was false from the fifth call on, one more than the run allows. It was the
auxiliary `counts` that was wrong and not the code: `Clone` now forgets what was counted of the element it writes.

`Page_proofs` proves of each of the nine scripts, from the assumption of its module:

| Theorem | States | Invariant |
|---|---|---|
| `EndsAsAskedThm` | `[]EndsAsAsked`: converters get data of their type, success ends in the last type asked for | `AnswerInv`: what has been converted so far, and from which type to which |
| `AnswersKeptApartThm` | `[]AnswersKeptApart` | `JsonpInv` |
| `NotTooEarlyThm` | `NotTooEarly`, part of the run's `ReadyInTime` | `ReadyInv`: the counter is the holds plus one until the document is ready |
| `ScriptsRunOnceThm` | `[]ScriptsRunOnce` | `ScriptsInv`: what has run and was not cleaned ran once, and is marked or still in the document |
| `BoxesKeepRuleThm` | `[]BoxesKeepRule` | `BoxesFine`: every box of a tree shows the rows directly below it; a single choice that was made is one enabled box; the rows follow the header |
| `CookiesAreReadThm` | `[]CookiesAreRead` | `PageFine`: the jar has one cookie of a name and path at most, and what the page wrote last at its own path is one of them |
| `SerializedKeepsThm` | `[]SerializedKeeps` | `FormFine`, the types; the rest is about the loop over the fields |
| `MenusInPlaceThm` | `[]MenusInPlace` | `MenuFine`: the menus shown are the first *n*, the clones are the others in their order; after the last resize *n* is as large as the room allows |
| `AmountIsKeptThm` | `[]AmountIsKept` | `FieldFine`: the characters are allowed, a number has one point and one minus at most and no point in front, and the handler finds nothing to do unless the last key was a second mark |

`JsonpInv` says who owns each name of the window: an automatic name belongs to one pending request or to nobody, a name
given back is nobody's and is given back once; under the name the caller gives stands the page's function or that of a request, and
while no two overlapped it is the one pending, which hides the page's. At most one new name is spent on a request that is sent. For the chain of converters,
`LeastElement` (every set of numbers has a least one, from the library's well-foundedness of finite subsets) takes
the place of induction.

The other five scripts are loops over sequences: over the rows of a table, the menus of a bar, the
characters of a text. In the modules those loops are recursive functions and not folds of the
community modules, whose definitions the provers cannot unfold; `LoopExists` gives a recursive function its value at
every turn, and `UpTo` carries a statement from turn to turn. On these rest what the helpers do for every input: `Only`
(grep and filter keep the order), `Without` (what is left of a text, and where each of its characters was), `Put`,
`ReadAll`, `serializeArray`. Each script has a crux of its own:

- A click in a tree sets a whole branch and then climbs. On the climb every box shows the rows below it but the one
  that is next (`CheckParent`); that the climb ends at the top for every tree needs a level for each row, smaller above
  than below, which `CheckBoxesAssumption` therefore states and a nesting of elements has.
- Under `serializeObject` a name is nothing, a value or an array: the loop invariant says which suffix of the values met so
  far is kept, and that an empty value alone is replaced by the next one.
- `showMenus` removes one clone for each menu it shows, by index, although the menus shown were not cloned: right because
  the hidden menus are a suffix of the bar. `MoreMenuAssumption` says that the menus are different elements.
- A handler is settled (`NumberClean`) because each of its five expressions leaves what the later and the earlier ones
  look for absent: without a second point there is nothing to collapse, the cut leaves no further digit behind the second
  decimal (`CutAgain`), and leaving characters out never makes a mark more frequent (`WithoutKeeps`). After
  a second mark (`NumberAgain`) only the decimals may have to wait, since the cut comes before the
  second point is taken out: "12.34" with a point typed behind the 1 becomes "1.234" until the next key.

What the assumptions on the constants of the client say: names and types that the code keeps apart are apart
(`Empty`, `Given`, `Nowhere` and `Nothing` stand for undefined, a name, no parent and no data); a transport brings at
least one type and never "*", which only converters use as a wildcard; requests are finitely many.

Each inductive invariant was checked by TLC on the instances of the runs before it was proved.

Only model-checked:

- liveness, which is out of the prover's reach: `SuspendedIsStopped`, `OrphanIsRescued`, the waits of ids, requests, effects
  (`EffectsEnd`) and ready;
- `ChainsAgree` of `Deferred`: the countdown of `when`, where `remaining` has to be
  related to the number of places not yet filled, in whichever order and at whichever depth they are filled;
- the parts of `QueuesInv` on the order of steps: the queue of an element against the timers and the delays of all
  stacked calls, outside the menus.

## 5. What is not modelled, and what could come next

Not modelled, and why:

- `ActivitiHelper`, `WorkflowManagementServiceImpl`: deployments and the definition cache; the approval
  path runs on the one deployed process, and the cache is read by management operations only.
- `util/ProcessUtils` (next-step prediction) and `WorkflowQueryServiceImpl` change no state.
- `IdWorker`, `DefaultIdGenerator` and `RollbackFirstTaskCmd` have no caller; `WorkflowCoreService` is commented out.
- The RabbitMQ, RPC, dubbo and Spring Cloud projects are samples: a class or two each around a library whose
  behaviour would have to be invented. Two of them have a hazard of their own: `ConfirmAsynSender:58` adds a sequence
  number to the unconfirmed set after the publish, so that an early confirm is missed, and
  `RpcNetTransport:32` returns null for a lost answer.
- In the client: knockout (minified), Sizzle, css, offset and support tests; string, date and dialog helpers of
  `Common.js` (`ReplaceAll:212` does not end when the replacement contains what is replaced; `Dictionary`,
  `PadRight` keep nothing); the width of the "more" container (`adjustWidth` adds 50 at every
  call, layout.js:74-78) and the hover handlers `dropdown()` binds again on every resize
  (layout.js:118); namespaces and special events; attachEvent browsers.

Next:

1. `DefinitionCache`: deployments against lookups.
2. A composition of `Ajax` and `Deferred`: the jqXHR as the promise it mixes in.

## 6. Running it

    tlc -config MCApprovalEngine.cfg MCApprovalEngine.tla
    tlc -config ExecuteSignOff.cfg MCWorkflowExecute.tla     (ExecuteEngine.cfg: handlers)
    tlc -config IdsRestart.cfg MCIdGenerators.tla
    tlc -config Ajax.cfg MCAjax.tla
    tlc -config Deferred.cfg MCDeferred.tla
    tlc -config Effects.cfg MCEffects.tla
    tlc -config Events.cfg MCEvents.tla
    tlc -config Page.cfg MCPage.tla
    tlapm ApprovalService_proofs.tla     (and IdGenerators_proofs, Ajax_proofs,
                                          Deferred_proofs, DeferredLists_proofs,
                                          Effects_proofs, Events_proofs, Page_proofs)
