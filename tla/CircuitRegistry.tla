-------------------------- MODULE CircuitRegistry --------------------------
(***************************************************************************)
(* resources/monitoring/circuit_breakers.py, class CircuitBreakerRegistry: *)
(* the registry of named breakers, its placeholders with the task that     *)
(* replaces them in bulk, and the dependencies between names.  Every hold  *)
(* of the registry's lock, or of its creation lock, is one step here.  The *)
(* calls themselves have no identity: a call between two of its lock       *)
(* sections is kept as what it still has to do (missing, unheard).         *)
(* CircuitCascade adds the breakers' states and what their trips do.       *)
(***************************************************************************)
EXTENDS Integers, FiniteSets

CONSTANTS
    Names,                   \* names of circuit breakers
    NoBreaker,               \* what a name is registered as that is not
    Placeholder,             \* a CircuitBreakerPlaceholder
    bulk_creation_threshold, \* self._bulk_creation_threshold
    MaxMade,                 \* bound: breakers made under one name
    MaxCalls                 \* bound: calls of the registry and of the breakers that are begun

\* A breaker is the name it was made with and its number among those.
Breakers == Names \X (1 .. MaxMade)

ASSUME NamesAssumption == IsFiniteSet(Names)
ASSUME BoundsAssumption ==
    /\ bulk_creation_threshold \in Nat
    /\ MaxMade \in Nat
    /\ MaxCalls \in Nat
ASSUME EntriesAssumption ==
    /\ NoBreaker \notin Breakers
    /\ Placeholder \notin Breakers
    /\ NoBreaker # Placeholder

VARIABLES
    registered, \* self._circuit_breakers
    made,       \* how many breakers were made under each name
    listened,   \* the breakers with _handle_circuit_state_change among their listeners
    unheard,    \* breakers whose registration has yet to add that listener
    children,   \* self._dependencies: parent -> children
    missing,    \* names that a get_or_create call found missing and will queue
    queue,      \* self._creation_queue
    bulkTask,   \* self._bulk_creation_task: where it is
    batch,      \* its queue_copy
    calls       \* how many calls were begun

registryFields == <<registered, made, listened, unheard, children, missing,
                    queue, bulkTask, batch>>
registryVars == <<registryFields, calls>>

\* created: not begun.  building: the queue is taken.  health: the breakers
\* are in place and the health tracker is awaited.
BulkStage == {"done", "created", "building", "health"}

Made == {b \in Breakers : b[2] <= made[b[1]]}

\* The breaker that the next construction under a name gives.
Fresh(n) == <<n, made[n] + 1>>

RegistryTypeOK ==
    /\ made \in [Names -> 0 .. MaxMade]
    /\ registered \in [Names -> {NoBreaker, Placeholder} \cup Breakers]
    /\ \A n \in Names : registered[n] \in Breakers =>
           registered[n] \in Made /\ registered[n][1] = n
    /\ listened \subseteq Breakers
    /\ unheard \subseteq Breakers
    /\ children \in [Names -> SUBSET Names]
    /\ missing \subseteq Names
    /\ queue \subseteq Names
    /\ bulkTask \in BulkStage
    /\ batch \subseteq Names
    /\ calls \in 0 .. MaxCalls

RegistryInit ==
    /\ registered = [n \in Names |-> NoBreaker]
    /\ made = [n \in Names |-> 0]
    /\ listened = {}
    /\ unheard = {}
    /\ children = [n \in Names |-> {}]
    /\ missing = {}
    /\ queue = {}
    /\ bulkTask = "done"
    /\ batch = {}
    /\ calls = 0

Call ==
    /\ calls < MaxCalls
    /\ calls' = calls + 1

\* The names of the batch that still have their placeholder.
Due == {n \in batch : registered[n] = Placeholder}

-----------------------------------------------------------------------------
(* Mutants: mistakes the properties must reject.  No run uses them as they   *)
(* stand; each is put in the place of the definition it is named after.      *)

\* Mutant: the queue is cleared when the batch is in place, with what was
\* queued since.
Replace_ClearsQueue ==
    /\ bulkTask = "building"
    /\ \A n \in Due : made[n] < MaxMade
    /\ made' = [n \in Names |-> IF n \in Due THEN made[n] + 1 ELSE made[n]]
    /\ registered' = [n \in Names |-> IF n \in Due THEN Fresh(n) ELSE registered[n]]
    /\ listened' = listened \cup {Fresh(n) : n \in Due}
    /\ batch' = {}
    /\ queue' = {}
    /\ bulkTask' = "health"
    /\ UNCHANGED <<unheard, children, missing, calls>>

\* Mutant: one breaker is put under every name of the batch.
Replace_OneForAll ==
    /\ bulkTask = "building"
    /\ \A n \in Due : made[n] < MaxMade
    /\ made' = [n \in Names |-> IF n \in Due THEN made[n] + 1 ELSE made[n]]
    /\ \E last \in Names :
         /\ Due # {} => last \in Due
         /\ registered' = [n \in Names |-> IF n \in Due THEN Fresh(last) ELSE registered[n]]
    /\ listened' = listened \cup {Fresh(n) : n \in Due}
    /\ batch' = {}
    /\ bulkTask' = "health"
    /\ UNCHANGED <<unheard, children, missing, queue, calls>>

-----------------------------------------------------------------------------
(* get_or_create_circuit_breaker and the bulk task *)

\* The lookup finds nothing; whatever it finds otherwise is returned.
Lookup(n) ==
    /\ Call
    /\ n \notin missing
    /\ registered[n] = NoBreaker
    /\ missing' = missing \cup {n}
    /\ UNCHANGED <<registered, made, listened, unheard, children, queue, bulkTask, batch>>

\* The section under the creation lock.  The registry is not asked again
\* unless the name is queued.  Other calls may have missed the same name.
Enqueue(n) ==
    /\ n \in missing
    /\ missing' \in {missing, missing \ {n}}
    /\ IF n \in queue
         THEN UNCHANGED <<registered, queue, bulkTask>>
         ELSE /\ queue' = queue \cup {n}
              /\ registered' = [registered EXCEPT ![n] = Placeholder]
              /\ bulkTask' = IF /\ Cardinality(queue') >= bulk_creation_threshold
                                /\ bulkTask = "done"
                               THEN "created" ELSE bulkTask
    /\ UNCHANGED <<made, listened, unheard, children, batch, calls>>

TakeQueue ==
    /\ bulkTask = "created"
    /\ bulkTask' = IF queue = {} THEN "done" ELSE "building"
    /\ batch' = queue
    /\ queue' = {}
    /\ UNCHANGED <<registered, made, listened, unheard, children, missing, calls>>

\* Breakers are made for the whole batch, each with the listener; those whose
\* name no longer has a placeholder are dropped.
Replace ==
    /\ bulkTask = "building"
    /\ \A n \in Due : made[n] < MaxMade
    /\ made' = [n \in Names |-> IF n \in Due THEN made[n] + 1 ELSE made[n]]
    /\ registered' = [n \in Names |-> IF n \in Due THEN Fresh(n) ELSE registered[n]]
    /\ listened' = listened \cup {Fresh(n) : n \in Due}
    /\ batch' = {}
    /\ bulkTask' = "health"
    /\ UNCHANGED <<unheard, children, missing, queue, calls>>

\* The health tracker has answered.
FinishTask ==
    /\ bulkTask = "health"
    /\ bulkTask' = "done"
    /\ UNCHANGED <<registered, made, listened, unheard, children, missing, queue, batch, calls>>

-----------------------------------------------------------------------------
(* Registration and dependencies *)

\* register(): a new breaker replaces what the name had; nobody listens to it.
Register(n) ==
    /\ Call
    /\ made[n] < MaxMade
    /\ made' = [made EXCEPT ![n] = @ + 1]
    /\ registered' = [registered EXCEPT ![n] = Fresh(n)]
    /\ UNCHANGED <<listened, unheard, children, missing, queue, bulkTask, batch>>

\* register_circuit_breaker() of a new breaker without a parent, or with one
\* that is not registered.
RegisterBreaker(n) ==
    /\ Call
    /\ registered[n] = NoBreaker
    /\ made[n] < MaxMade
    /\ made' = [made EXCEPT ![n] = @ + 1]
    /\ registered' = [registered EXCEPT ![n] = Fresh(n)]
    /\ unheard' = unheard \cup {Fresh(n)}
    /\ UNCHANGED <<listened, children, missing, queue, bulkTask, batch>>

\* With a registered parent (maybe itself) the dependency is entered and the
\* call ends with a NameError, before it adds the listener.
RegisterChild(n, parent) ==
    /\ Call
    /\ registered[n] = NoBreaker
    /\ made[n] < MaxMade
    /\ parent = n \/ registered[parent] # NoBreaker
    /\ made' = [made EXCEPT ![n] = @ + 1]
    /\ registered' = [registered EXCEPT ![n] = Fresh(n)]
    /\ children' = [children EXCEPT ![parent] = @ \cup {n}]
    /\ UNCHANGED <<listened, unheard, missing, queue, bulkTask, batch>>

\* The end of a registration: add_state_change_listener.
Listen(b) ==
    /\ b \in unheard
    /\ unheard' = unheard \ {b}
    /\ listened' = listened \cup {b}
    /\ UNCHANGED <<registered, made, children, missing, queue, bulkTask, batch, calls>>

\* Entering it again changes nothing.
RegisterDependency(child, parent) ==
    /\ Call
    /\ child \notin children[parent]
    /\ registered[child] # NoBreaker
    /\ registered[parent] # NoBreaker
    /\ children' = [children EXCEPT ![parent] = @ \cup {child}]
    /\ UNCHANGED <<registered, made, listened, unheard, missing, queue, bulkTask, batch>>

\* What the registry does by itself; Listen needs the breaker's own lock.
RegistryStep ==
    \/ \E n \in Names : Lookup(n) \/ Enqueue(n) \/ Register(n) \/ RegisterBreaker(n)
    \/ \E n, parent \in Names : RegisterChild(n, parent) \/ RegisterDependency(n, parent)
    \/ TakeQueue
    \/ Replace
    \/ FinishTask

-----------------------------------------------------------------------------
\* A placeholder protects nothing: execute() runs the operation and trip() does
\* nothing.  get_or_create_circuit_breaker hands one out and the bulk task
\* replaces it, over a queue filled under one lock and a registry written under
\* another: every name that has a placeholder is still in the queue or in the
\* batch, so none is forgotten.
PlaceholdersQueued ==
    \A n \in Names : registered[n] = Placeholder => n \in queue \cup batch
=============================================================================
