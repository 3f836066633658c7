# Forest For The Trees: specifications

FFTT turns a user's request into code through a sequence of phases, each a
group of language-model agents.  Around the agents stands the machinery that
this project is about: event queues, circuit breakers, a state manager, phase
coordination, and the workflows that call the agents in order, validate what
they answer and refine it.  The agents themselves are prompts; a specification
sees an answer, an error, a timeout or a cancellation.

Files: `X.tla` models a component, `MCX.tla` and `*.cfg` give TLC its small
instances, `XProofs.tla` holds theorems, and `PROJECT.json` lists the
components, the runs, the mutants, the findings, the hazards, the theorems, and
for every definition the source lines it models.

## 1. Inventory

Paths are below `src/`.

### Concurrency of the program

An asyncio loop (under Qt, or alone) runs one task for each prompt, so several
operations of phase one overlap.  Each `EventQueue` runs its processor in a
thread with a loop of its own, and callbacks run there; background loops of
`resources/events/loop_management.py` and the runners add further threads.
Circuit breakers, the state manager and the queues' front ends are therefore
called from several threads and protect themselves with `threading.RLock`; the
workflows are called from one loop and interleave only where they await.

### Components

| component | source | state | what makes it hard, and correct |
|---|---|---|---|
| circuit breaker | `resources/monitoring/circuit_breakers.py` (CircuitBreaker) | state, failure and success counters, probe slots, two timestamps | decisions outside the lock, operations that end in another state than they began in; no leaked slot, no lost transition, recovery |
| circuit registry | same file (CircuitBreakerRegistry) | breakers, dependencies, placeholders, the creation queue | a trip cascades over other threads while locks are held; placeholders are written under one lock and queued under another; no forgotten child or placeholder, no circle of waiting threads |
| simple circuit breakers | `resources/circuit_breakers_simple.py`, `api.py` | the same, with an asyncio lock | what is decided in one lock section and done in the next; probes and failures counted right |
| event queue | `resources/events/queue.py`, `qasync_utils.py` | six queues, a buffer, a carried batch, subscribers | three threads, timeouts that race answers, batches cut by type; no event lost, doubled, out of order or stuck |
| event loops | `resources/events/loop_management.py` | the main and the background loop, what was registered | a look and a registration in two lock sections; loops are kept apart |
| phase one workflow | `phase_one/workflow.py`, `phase_one/validation/*` | `workflow_state`, the validator's counter | fields shared by overlapping operations, a timeout around a loop; order of agents, bounded rounds, right status |
| phase one orchestrator | `phase_one/orchestrator.py`, `phase_one/agents/foundation_refinement.py` | the refinement counter, records | re-executions that fail half-way; budget, result |
| phase one agents | `phase_one/agents/`, `phase_one/coordination/` | development state, health, history, update slots | one state attribute for overlapping operations; what an agent shows is what its last operation came to |
| phase one validators, hand-offs, runners, step-by-step interface | `phase_one/validation/`, `phase_one/runners/`, `display/core/main_window.py` | decisions and attempts; records of hand-offs; set-up stages; steps and rounds | a hand-off or a step that fails, times out or is cancelled half-way; records, rounds and shutdown tell what happened |
| agent calls | `agent.py`, `interfaces/agent/interface.py` | the agent's state, its schema, counts of validations | attributes read after awaits; an agent restored to rest, its own schema, bounded attempts |
| output validation | `agent_validation.py` | levels of nested corrections, clients, the schema | clients closed under another's feet; an undisturbed validation is not misled |
| state manager | `resources/state/` | cache and its keys, backend, history, snapshots | cache and backend are written apart; agreement, legal transitions |
| phase coordinator | `resources/phase_coordinator/` | phases, executions, checkpoints, the active set | pause, abort, restore and nested executions in the middle; what callers are told of a phase is so |
| resource start-up | `main.py` (ResourceManager) | resources, their states and dependencies | an order computed the wrong way round, recursion; each resource starts once, after what it needs |
| resource managers | `resources/managers/`, `resources/base.py` | caches, contexts, initialisation states, locks | start and stop in order, late registration, eviction, failures counted by two layers |
| monitoring | `resources/monitoring/` | loops of the shared monitors | overlapping starts and stops |
| error recovery | `resources/error_recovery.py`, `system_error_recovery.py`, `resources/recovery_integration.py` | counts of failures | counted by every layer and never reset |
| water agent | `resources/water_agent/` | contexts, one tracker for all coordinations | a coordination replaces what another tracks |
| air agent, fire agent | `resources/{air,fire}_agent/` | histories; scores and decompositions | histories and advice that are honest; scores on both sides of their thresholds |
| phase two | `phase_two/orchestrator.py`, `component_development.py` | queue, contexts, completed components | fields kept across overlapping operations; one of many fails |
| phase three, phase four | `phase_three/`, `phase_four/` | features, tasks and slots; one source file per feature | features started before what they depend on is done; calls that share a file |
| phase zero | `phase_zero/` | results of its agents | runs its agents one after the other; in the present program it ends in an error before the first (`_data_interface` is never set) |
| dependency validation | `dependency.py`, `dependency_validator_standalone.py` | none | cycles and their order |
| interfaces, features, components, display, prompts | `interfaces/`, `feature.py`, `component.py`, `display/`, `FFTT_system_prompts/` | status fields | wrappers, containers, text |

The files `resources/{events,state,managers,monitoring,phase_coordinator}.py`
are shadowed by packages of the same names and are never imported;
`phase_two/coordination.py`, shadowed too, is loaded by its path.

### How the components interact

A workflow calls agents and validators, awaits them, and writes its progress to
the state manager; everybody emits to the event queue, whose subscribers run on
the processor's thread.  Agents call the model through a circuit breaker; the
registry listens to the breakers it creates in bulk and to those registered
without a parent, and trips their dependants.  The Water agent stands between
two agents that follow each other.  The phase coordinator runs phases and nests
them, with checkpoints through the state manager.  The orchestrator of phase one
hands its result to phase two, which develops components; these hand features
to phase three, whose code phase four writes and compiles.

### Hazards

The hazards of this code, each at its line with the properties that cover it,
are in `PROJECT.json`, `hazards`: forty of them.  Others that are real and that
no property covers: `_is_processing` of phase two stays set when the handler of
an error is cancelled or raises; `get_response`'s `finally` stops the event
queue that agents share (`agent.py:338`); the processor's thread of a queue may
outlive `stop` (`queue.py:995`) and events may wait in the buffer without a
flush (`queue.py:402`); a call of the state manager from another thread submits
itself again for ever (`state/manager.py:293`); the registry's `load_state`
(`circuit_breakers.py:1125`), its bulk task below ten names (847) and a
dependency entered for names that do not exist (1324); `reset_cycle` of the
foundation refinement has no caller (`foundation_refinement.py:520`).

## 2. Plan

Done: `CircuitBreaker`, `CircuitRegistry` with `CircuitCascade`, `EventQueue`,
`AgentPipeline` with `PhaseOneWorkflow` and `PhaseOneOrchestrator`, and the
proofs about them; the services (`WaterCoordination`, `StateManager`,
`ResourceManager`, `ResourceCoordinator`, `SimpleBreaker`, `ManagedOperations`,
`Monitoring`) with theirs; the parts of the later phases (`AgentCalls`,
`OutputValidation`, `Development`, `Cultivation`, `PhaseCoordinator`,
`CodeRefinement`) and the facilities around phase one, with theirs
(`ArchitectureValidation`, `SteppedWorkflow`, `HandOffs`, `LoopRegistry`,
`LockManager`, `Runners`, `UpdateSlots`, `PhaseOneAgents`, `FireDecomposition`,
`AirAgent`).

Left: models of the foundation refinement's inner analysis, of the health
tracker and the metrics, of the Water agent's reflective agent, of the evolution
of features, and of the remaining graph algorithms.

## 3. The modules

Each module's head says which files it models and what an action stands for.
Variables and actions keep the names of the code where TLA+ allows it; history
variables are marked as such.  `MCServices`, `MCPhases` and `MCSupport` are
disjoint sums: a behaviour is one component's, chosen at the start, since the
components share no variable in these models and what another would do
meanwhile changes nothing.  (Their collaborators are the environment: an answer
is any answer, a failure may come anywhere.)  The type invariants of the sums
are those of the component at work; the proofs establish all of them at once.

### CircuitBreaker

One breaker and the callers of `execute()`.  A caller's `pc` names the section
it enters next, a section being what runs under one hold of the lock or one
read outside it:

| pc | code | action |
|---|---|---|
| idle | before `execute()` | `Begin` |
| check, decide, toHalfOpen | `_check_state_transition`, `_transition_to_half_open` | `CheckLocked`, `Decide`, `ToHalfOpen` |
| admit | the admission section | `Reject`, `Admit` |
| run | the awaited operation | `Succeed`, `Fail`, `Cancel` |
| closing, toClosed, toOpen | the unlocked test, the transitions | `DecideClose`, `ToClosed`, `ToOpen` |
| finally | the `finally` block | `Release` |

`Trip` and `Reset` are the methods, callable at any time.  The two timestamps
are kept as what the code asks of them: has the timeout elapsed.  `probes` and
`healthy` are not in the code: `probes` remembers which calls were admitted in
this half-open period, `healthy` says that the dependency has recovered.

### CircuitRegistry, CircuitCascade

`CircuitRegistry` is the registry: `registered` is `_circuit_breakers`, where a
name has no entry, a placeholder or a breaker; a breaker is its name and its
number among those made under it.  `Lookup`, `Enqueue` are the two sections of
`get_or_create_circuit_breaker`; `TakeQueue`, `Replace`, `FinishTask` are the
bulk task; `Register`, `RegisterBreaker`, `RegisterChild`, `Listen` are the two
ways to register, `RegisterChild` being the one that ends in a `NameError`.
Calls have no identity here: `missing` and `unheard` hold what calls between
two sections have still to do.

`CircuitCascade` adds the breakers' states and the threads that trip them.  A
thread is an actor and a depth: `<<c, 1>>` is the executor thread that `<<c,
0>>` started and waits for.

| pc | code | action |
|---|---|---|
| idle | outside | `Trip`, `Fail`, `BackgroundTakes` |
| trip | about to enter `trip()` | `TripRefused`, `TripOpens` |
| fail | between `_handle_failure`'s decision and the transition | `FailOpens` |
| notify | the breaker is open, the listener not yet called | `Notify` |
| cascade | in `_handle_circuit_state_change` | `SkipPlaceholder`, `Submit`, `StartThread`, `EndTrip` |

`lock[b]` is the thread that holds `b`'s lock over several steps, which only
`trip()` does.  `owed` is a history: the children, registered when a breaker
that is listened to opened, that have not opened since.

### EventQueue

`emit` appends to a thread queue or the buffer; a bridge moves the head of a
thread queue to the asyncio queue, holding it when that is full; the processor
goes round its loop (`pc` high, normal, second, low), takes an event, fills a
batch of one type, delivers it (`pc` deliver, then back to `after`).  A `get`
with a timeout ends with an event, without one, or with the event taken and
discarded (`Discard`, the race in `qasync_wait_for`).  `Stop`, `FinalBatch` and
`ThreadEnds` are the shutdown; `Start` may follow.  An event is its number in
the order of acceptance; `settled`, `handled`, `summarised` and `lost` are
histories.  A refusal of `emit` (throttling, rate limit, full queue) changes
none of this state.

### PhaseOneWorkflow, PhaseOneOrchestrator, AgentPipeline

`PhaseOneWorkflow` models `execute_phase_one` for operations that overlap:
`pc[o]` says which agent operation `o` waits for, and a step is what the
coroutine does between two such waits.  The fields of the one workflow object
are shared: `current_cycle` (the validator's), `state` (which operation's dict
`self.workflow_state` is), `dicts` and `record` (dicts are stored by
reference).  `PhaseOneOrchestrator` extends it with `process_task`: the
analysis of the outputs, the refinement counter, the re-execution of an agent.

`AgentPipeline` is what phase one promises: each operation has its four agents'
turns in order, fails where an agent failed, succeeds after the last, and ends.
`PhaseOneOrchestrator` implements it under the mapping `Turn`, `Outcome`.

### The services (composed in MCServices)

`WaterCoordination`: coordinations between pairs of agents, `pc[c]` the model
call a coordination waits for; `resolved` is the one tracker they share.
Coordinators are made for each call in phase zero and once for a workflow in
phase one, so that only there, and in the tests, coordinations overlap.

`StateManager`: an action is a whole call, since none suspends before it has
done its work: `SetState`, `GetState`, `MarkAsFailed`, `MarkAsRecovered`,
`TerminateResource` (which writes a bool where an entry belongs),
`RecoverFromSnapshot`, `DeleteState`.  The list from which entries are evicted
is kept apart from `cache`; `store` is the memory backend's.

`ResourceManager` (main.py): a stack of calls of `initialize_resource`, each in
its loop over what it needs; `ResourceCoordinator` (resources/managers): several
calls of `initialize_all` and one of `shutdown`, with managers registered late
and a delayed task that starts them.

`SimpleBreaker`: the breaker around every call of the model, its sections under
an asyncio lock and the reads between them, and the registry by name.
`ManagedOperations`: a manager's operations and the two layers that count and
handle their errors, for the context manager and for the cache behind
`InterfaceCache`.  `Monitoring`: the shared monitors, a flag and a task each.

### The later phases (composed in MCPhases)

`AgentCalls`: calls of one agent and visits of the Water agent to it, which
share its state, its schema and the counts of validations.  Whoever awaits one
may cancel it, as the window, its 180 s limit and the validators do: the handlers
are for an `Exception`, so that a cancelled call leaves PROCESSING behind and a
cancelled visit its own state (`abandoned`), until the next that ends sets
another; `ApartUnlessOverlapping` finds the agent at rest apart from that.
`OutputValidation`:
validations whose semantic errors have the agent correct its output; they nest,
and share clients.  `Development`: one run of phase two, component after
component (`queue`, `contexts`, `completed`).  `Cultivation`: features started
in the order of their list, developed in tasks that take a slot.
`PhaseCoordinator`: phases, nested executions, checkpoints, the monitor
that gives up records, and executions cancelled by who awaits them, which leave
the phase RUNNING and active.  `CodeRefinement`: calls of phase four that share a
feature's source file, tool after tool.

In each, the collaborators are the environment and may answer, answer with an
error, raise or be cancelled, as the code's handlers foresee.  The present
program's collaborators do less: with its own `Component()` no component
completes, a missing name keeps every feature from COMPLETED, its state manager
refuses the arguments of every `_update_phase_state`, and two swapped arguments
make every compilation end in an error.  The models cover those outcomes (they
are among the environment's) and what the code does with the others.

### The facilities around phase one (composed in MCSupport)

`ArchitectureValidation`: the validators of data flows and component
structures, over `DependencyValidator`: `HasCycle` is its depth-first search,
gone through call by call (`SearchStep`).  A missing field is an error laid to no
agent; a component whose dependencies lack "required" is held to nothing by the
check across (`Unsaid`), and so `CompletedIsBuildable` says of those that require.
`SteppedWorkflow`: the dict of a stepped operation, which window and callers
share.  The window asks for the status again when a step answers "completed":
the record may be gone by then, and it shows a success without outputs
(`LookedUp`).  `HandOffs`: the sequential coordinator's records around the Water
agent.  `LoopRegistry`: the two registered loops; `get_loop_for_thread` is two
actions.  `LockManager`: the read/write lock over one `RLock`, tried without
blocking; `abandoned` has who is counted though gone, or gone twice.  `Runners`:
set-up, run and shutdown with window and on the command line, and the debugger's
session; a start-up that fails early leaves its timer, a window its queue.
`UpdateSlots`: the slots in which agents update their state, the agents that wait
for one, and the updates whose record another one's end took away (`recordless`).  `PhaseOneAgents`: the
development state of one agent under overlapping operations, by class.
`FireDecomposition`: scores in hundredths, thresholds, strategies, and natural
selection with its calls of the Fire agent.  The words of a feature's id and name
go into each of its parts; a scope of text has no responsibilities to divide.
`AirAgent`: the records in the store, and as operators what is read out of them:
of too many keys the oldest.

## 4. The runs

| run | instance | what holds, or does not |
|---|---|---|
| circuit_breaker | 2 callers, threshold 2, 2 probes, 3 counted failures | `TypeOK`, `NoSlotLeak`, `SuccessesClose`, `ThresholdOpens`, `Recovers` |
| circuit_registry | 2 names, 2 breakers made per name, 2 callers, 4 calls, threads 4 deep | `TypeOK`, `PlaceholdersQueued`, `ChildrenFollow`, `NoDeadlock` |
| event_queue | 3 events of 4 kinds, capacities 1, 2, 1, batches of 2, 1 retry, 1 stop | `TypeOK`, `ExactlyOnePlace`, `HandledAtMostOnce`, `HandedOverInOrder`, `NeverStuck` |
| phase_one | 2 operations, 2 rounds, 1 refinement, every target | `TypeOK`, `RoundsBounded`, `RecordRightWhenAlone`, `RefinementBudget`, `ImplementsPipeline` |
| services | 2 coordinations; 2 resource ids, a cache of 1; 3 resources; 2 managers, one late; 1 breaker, 2 users; 2 operations on 2 entries; 2 users of the monitors | `CoordinationsRight`, `StatesAgree`, `StartedAfterDependencies`, `ManagersInOrder`, `FailuresCounted`, `CoordinationsEnd` and types |
| phases | 2 calls and a visit; 2 validations, 2 deep; 3 components; 2 features; 2 phases; 2 refinements, 3 tools | `ApartUnlessOverlapping`, `UndisturbedNotMisled`, `DevelopedAsReported`, `DependenciesBegin`, `PhasesToldRight`, `SuccessWasChecked` and types |
| support | 2 names, 2 attempts; 3 steps, 2 callers; 2 hand-offs; 2 loops; 3 acquirers in 2 threads; 3 agents, 2 slots; 2 operations per agent class; 2 features per evaluation; 4 records, 2 days | `CompletedIsBuildable`, `ToldRight`, `HandOffsTracked`, `LoopsKeptApart`, `AccountsKept`, `TakenDown` and types |
| cascade_deadlock | as circuit_registry | `NeverDeadlock` is violated |
| event_delivery | 2 events, no stop | `EachEventDelivered` is violated |
| overlapping_records | 2 operations | `RecordRight` is violated |
| failed_re_execution | 1 operation | `ReExecuted` is violated |
| lost_success | 1 breaker | `SuccessReturned` is violated |

Bounds.  Two callers suffice for the races of the breaker: each is between one
caller's late section and another's transition; two probes and a threshold of
two make counting visible, and three failures allow one more than opens it.
In the registry, four calls are two registrations, a dependency and a trip, or
a dependency entered with its registration and two trips at once; two names let
one be queued while the other is replaced.  Three events are one more than a
batch and than the normal queue, enough for a batch that is cut short by another
type, a put-back behind a third event, and a bridge that holds one; one
subscriber suffices since deliveries to several are independent; one stop gives
a restart with leftovers.  Two operations show every sharing in phase one; two
rounds distinguish a first from a last one.  The same holds for the pairs of
coordinations, calls, refinements and hand-offs of the later runs: what they
share is disturbed by one other.  A cache of one evicts at the second entry; a
third failure makes an operation fatal; three components or resources are the
least with a chain and a diamond; a slot less than agents makes one wait, and a
CRITICAL one jump the queue.  The attributes that Fire and Air read take the
values on both sides of each threshold.  Where a theorem is listed it needs no
such bound.

Deadlock is checked in the run of the breaker, whose callers never stop.  It is
not in the others, whose operations end or whose bounds are used up;
`NoDeadlock`, `NeverStuck`, `CoordinationsEnd` say what matters there.

Every property of a passing run has a mutant in its module, a plausible mistake
put in the place of the definition it is named after (`Release_Leak` for
`Release`), with which the run fails.

## 5. Fairness

- `CircuitBreaker!FairSpec`: each caller's `Begin \/ Proceed` is weakly fair
  (threads run, operations end, callers keep calling) and so is the elapsing of
  the recovery timeout.  Nothing is assumed of failures, trips, resets or
  cancellations; `Recovers` takes as its hypothesis that they have stopped.
  An operation that never ended would have to be given up by its caller:
  `execute` has no timeout of its own.
- `EventQueue!FairSpec`: the bridges and the processor's thread keep running;
  each is one coroutine that the loop resumes.  Emitters, stops and subscribers
  are free.  `NeverStuck` speaks of runs in which events stop arriving: the
  loop begins again with the high ones after each of them, so that a stream of
  these starves the rest for as long as it lasts.
- `PhaseOneOrchestrator!FairSpec`: an operation that began goes on, since every
  call of a model ends with an answer, an error or a timeout.
- `MCServices`: a coordination goes on, for it waits only for the model's
  client and for answers it gives up after 30 seconds.
- The other specifications state none: `NoDeadlock` says that threads never
  wait in a circle, so that some thread can always go on.

## 6. What is proved

For every value of the constants, from the named assumptions in the modules
(limits positive, callers and components finite, dependencies without cycles
where the code requires it, no more events for medium confidence than for a
judgement).  The theorems are listed in `PROJECT.json`.

- `CircuitBreakerProofs`: each invariant is inductive together with `TypeOK`.
  `NoSlotLeak` compares a counter with the number of calls in flight: lemmas
  say how `Cardinality(InFlight)` changes when a caller joins, leaves or stays,
  and `Release` needs that the releasing caller itself is in flight, so that
  there is always a call behind the slot given back.  `SuccessesClose` holds
  since the success that reaches the limit is followed by that caller's test.
- `CircuitProofs`: `PlaceholdersNotForgotten`, inductive with the fact that the
  task has a batch only while it builds; `ChildrenAreTripped`, for which it must
  be known that only fresh breakers take a name; `CascadesDoNotDeadlock`, from
  `WaitingInv`: a held lock is held by a thread that opened that breaker, and a
  thread waits only for one that trips a child of its own breaker.  The names
  along a circle of waiting threads would then be a set in which each has a
  child, against `Acyclic`.
- `EventQueueProofs`: `ExactlyOnePlace` needs an account of occurrences (how
  often an event occurs in all the places it can be in), with `Control`: outside
  a delivery nothing is in hand.  `HandledAtMostOnce` follows with `Handling`:
  who has handled an event is not among those still to be called.
  `HandedOverInOrder` is the invariant `Ordered`: along an event's journey, what
  is settled, in the batch, in the asyncio queue, with the bridge, in the thread
  queue, events of high or of low priority stand in the order of acceptance; and
  `Sorted`: a queue holds its own priority only.  Counting and order over
  sequences are proved by descent to a least counterexample (`Least`).
- `PhaseOneProofs`: `EarthCallsBounded`, for which `RoundsBounded` alone is not
  inductive: the counter may be reset under the rounds of another operation, and
  rounds are only paid for by the validation that began.  `RoundsLeft` adds the
  rounds still left under the counter to those already begun; `BudgetKept`,
  where the shared counter equals the refinements done; `RecordKeptRight`: an
  operation that was always alone made the `workflow_state` that is written, and
  if the other operation made it, the first does not run; `PipelineImplemented`,
  the safety half of `ImplementsPipeline`: `InStep` relates where `process_task`
  is to where the workflow is, and each action is a step of the pipeline or a
  stutter.
- `ServicesProofs`: one inductive invariant for each service, all of them at
  once an invariant of `MCServices` since a step of one is a stutter of the
  others.  Coordinations: the context of a coordination is
  there exactly from where it is made to where it is dropped, and what is
  unresolved in the tracker covers its own issues.  State manager: each key is
  once in the list of eviction, which makes "evict the first" agree with the
  cache.  Resources: the calls of `initialize_resource` on the stack form a
  chain of dependencies, so that with acyclic dependencies none is entered
  twice.  Managers, by the kind of call under way; monitors: a live loop is the
  last one made, and runs on or is waited for; breakers: what is counted, by
  state; operations: who leads the queue of an operation's lock is the only one
  at work on it, so that its failure is counted twice and no more, and the entry
  it is to evict is still there or there is room.
- `PhasesProofs`: the same for the parts of `MCPhases`.  A call that met no
  other has the agent's schema for itself, and a visit alone restores the state
  it found; a validation is misled only through another that is in progress at
  the same time, and one that met none is the only one; in phase two the queue
  is sorted, the component at work is lighter than all in it, and what a
  component gets as context is what was completed before it; features: what is
  required has an earlier task, tasks of one feature never overtake each other;
  phases: an undisturbed phase has one execution and a state that fits its
  place; refinements: a call alone finds in the file what it wrote, so that
  tools it passed find no fault in its code.
- `AgentsProofs`, `SupportProofs`: the same for the facilities of `MCSupport`;
  the first has the agents, the Fire and the Air agent and the validators of
  architectures, and needs nothing of the others.  Stepped
  workflows: `CallsKnow`, what a call has read of a workflow that it does not
  share is still so, and `RecordsReached`, the records are those of some number
  of steps gone through, make what the store and the window tell true; the
  window's rounds are as many as the outputs it has.  Hand-offs: while one is
  alone with its id no other of that id is at work (`AloneWithId`), so the record
  is its own (`RecordsTold`).  The lock: holders, depth and owner agree, where a
  coroutine that was told it did not get the lock may hold it all the same and
  is counted (`abandoned`); the counts follow from how a `Cardinality` changes
  when one joins or leaves; the waiting readers are those counted and as many
  more as failed, who were taken off twice.  Slots: only critical updates pass a
  limit, the others stay within it; an update in a slot is counted or one of the
  `recordless`, and no record is left without its update.  Runners: a thread
  exists only in the window's program after its queue, and is joined only after
  it was told to end.  Agents: an operation alone finds at each await the state that it left
  the agent in.  Fire: the bounds of each part of a score, of which those that
  no cause raised add up to less than the threshold.  Air: a record is not from
  the future, and is cleared only when its days are over.
- Of these, the search for cycles (`SearchDecides`) has an argument of its own.
  While the search goes on, the calls in progress are a path in the graph, and
  what it has returned from can be put in an order in which each edge leads to
  an earlier node (`InSearch`); so a node met on the path closes a cycle, and a
  search that ends without has ordered the whole graph.  It ends, since
  the edges looked at plus twice the nodes visited less the calls in progress
  grows with each step (`SearchCounts`).  `CompletedIsBuildable` then follows
  from how the graph is made of the requirements and of the components in their
  places.
- The Air agent's histories are found by recursive functions over the positions
  of the records (`Among`).  That these functions exist and meet their equations
  is `Computed`, from a finite approximation for each number; what they return,
  the positions that fit, in order and no other, is an induction over numbers
  put as a descent to a least counterexample (`PassedOn`).  `DaysInOrder`, that
  records are kept in the order of their days, makes "the last ones" the latest of
  those that are read.

Only model-checked: `Recovers`, `NeverStuck`, `CoordinationsEnd` and the
liveness half of `ImplementsPipeline`, since liveness under fairness is out of
the prover's reach.  All invariants that a run checks are proved.

## 7. What the runs that find violations show

1. `cascade_deadlock`: `trip()` holds the breaker's lock while it waits for the
   threads of its children, and with a cyclic dependency and no background loop
   one of them waits for that lock.
2. `event_delivery`: a get that finished is discarded when its timer fires
   before the processor resumes; the event is lost.
3. `overlapping_records`: a second operation replaces `workflow_state`, and the
   first goes on reporting into it.
4. `failed_re_execution`: a refinement says "Successfully re-executed" whatever
   became of the re-execution.
5. `lost_success`: after a recovery, the simple breaker takes every later
   success for one that closes it, raises an `UnboundLocalError` and counts it
   as a failure.

Other statements the code does not keep are defined beside the model, with a
comment, and checked by no run: `ProbeLimit` (two callers that decide to go
half-open on one timeout admit one probe more), `EnvironmentGetsValidated` (a
validation timeout lets an unapproved analysis pass with rounds left),
`SuccessMeansSucceeded` (the window reports success after a failed step),
`QueueStopped` (the window's shutdown looks for methods that do not exist),
`BreakpointsHit` (step names never equal breakpoint stages),
`OriginalOnFailure`, `OutputsAreDicts` (a hand-off's results).

What reading for the models brought to light besides, and the models contain:

- Phase one's Fire agent is called with an argument it does not take, so that
  decomposition never happens there; a component always scores 35.5, and its
  simplification "succeeds" with a reduction of 0.  The Air agent reads its
  history with a method the present state manager lacks, and finds it empty.
- `process_with_validation` answers an error where the agents expect an
  exception, so a failure of the model may be reflected on and handed out as a
  design; an answer without a status puts an agent into ERROR.
- Resources: a dependency that failed is tried again by each dependant, which is
  started all the same; shutdown stops the roots only.  Managers: a manager
  started late stays "not_started" and is never stopped.
- A managed operation's failure is counted twice and never forgotten, so that
  its second failure has every agent's context cleaned up.
- Monitors: two overlapping starts leave two loops and a stop that waits for
  ever.  Locks: a failed read is taken off the waiting readers twice, so that
  `read_waiting` falls below zero (only the lock's metrics read it); a
  cancelled write stays among the waiting writers.
- The handlers of agent calls, visits and phases are for an `Exception`: a
  cancellation, which the window and the validators do order, sets no state.
- A timer of the window's event manager outlives a start-up that failed before
  the background thread was made: the clean-up raises for want of the thread.
- Fire copies a feature's id and name into its parts, where their words count
  again; a feature found complex by its related ones alone may be "reduced" to
  parts that score more than it does without them.
- A nested phase whose start answers with an error is recorded "completed"; a
  rollback restores nothing and answers True.
- Architecture: a valid revision of the data flow leaves a state for which the
  loop has no branch, so that it idles through its attempts; a flow from
  "external" through a component and back counts as a cycle.

## 8. What is not modelled

- Circuit breaker: metrics; `CircuitBreaker` takes the lock as atomic sections
  and leaves the listeners to `CircuitCascade`, which holds it across them.
  Registry: `flush_creation_queue`, which nobody calls, persistence, which does
  nothing without a state manager that nobody passes, health reports and the
  monitoring loop, which only read.  A background loop is there from the start
  or never.  The second registry of `resources/managers/registry.py`.
- Event queue: `wait_for_processing` and `get_nowait` (readers), correlation
  replies, a processor thread that outlives the five seconds of `stop`, and
  backpressure adjustments, which the code never activates.
- Managed operations: the error of a context too large, which would have its
  manager clean up at the first failure; it needs memory thresholds, and no
  context manager of the program is given any.
- The refinement of phase one is modelled for an agent handed to the orchestrator;
  the analysis of the orchestrator's own raises before it asks anything
  (`foundation_refinement.py:121` reads breakers that nobody set).
- Phase one: an exception outside the agents' own handlers (status "error"),
  and what the Fire agent changes in a successful output; the foundation
  refinement's analysis of the outputs.
- main.py's `ForestApplication`: its set-up never ends (it registers a processor
  whose signal is unbound, and shows "Startup Error"); the runners are the
  working entry.  `run_phase_one_original.py` is an older copy of them.
- State manager: the file and SQLite backends, which cannot be instantiated;
  callers on other threads, which never return.
- What cannot be imported: `phase_two/delegation` and `phase_two/orchestration`
  (a field with a default before one without), `phase_two/testing`,
  `phase_two/validation`, the component guideline validator, phase two's
  integration of phase zero.  What nothing constructs: `phase_two/coordination`,
  phase three's evolution beyond natural selection, `ErrorTracebackGraph`.
  What ends in an error before it changes anything: `ErrorRecoverySystem`
  (missing names), `DependencyInterface`'s graph, phase zero.
- The rounding of scores at a threshold, wording, prompts, and the display.
- The components marked so in `PROJECT.json`, with their reasons.
