----------------------------- MODULE LoopRegistry -----------------------------
(***************************************************************************)
(* The registry of the program's two event loops                           *)
(* (resources/events/loop_management.py SimpleEventLoopRegistry and        *)
(* EventLoopManager) with the function that finds a loop under qasync      *)
(* (resources/events/qasync_utils.py get_qasync_compatible_loop).  The     *)
(* registry's methods hold its lock from beginning to end;                 *)
(* get_loop_for_thread lets go of it between its look at the registry and  *)
(* the registration of a new loop, and is two actions.  Loops are made,    *)
(* run, stopped and closed by their owners.                                *)
(***************************************************************************)
EXTENDS Naturals, FiniteSets

CONSTANTS
    Threads,     \* the threads
    MainThread,  \* the program's main thread
    Loops,       \* the event loops that may ever be made
    NoLoop       \* None

VARIABLES
    main_loop,
    background_loop,
    registration_history,  \* the registrations that the registry remembers
    displaced,    \* those of them whose loop has since left its slot
    made,         \* the loops made so far
    open,         \* those that are not closed
    running,      \* thread -> the loop it runs
    default_loop, \* thread -> the loop asyncio holds for it
    seeking       \* the threads that found no loop in the registry

loopVars == <<main_loop, background_loop, registration_history, displaced, made,
              open, running, default_loop, seeking>>

NoLoops == [t \in Threads |-> NoLoop]

LoopInit ==
    /\ main_loop = NoLoop /\ background_loop = NoLoop
    /\ registration_history = {} /\ displaced = {}
    /\ made = {} /\ open = {}
    /\ running = NoLoops /\ default_loop = NoLoops
    /\ seeking = {}

ThreadKind(t) == IF t = MainThread THEN "main" ELSE "background"
Key(t, l, kind) == [thread |-> t, loop |-> l, kind |-> kind]
Slot(kind) == IF kind = "main" THEN main_loop ELSE background_loop
OtherSlot(kind) == IF kind = "main" THEN background_loop ELSE main_loop
Filled(kind, l) == IF kind = "main" THEN main_loop' = l /\ UNCHANGED background_loop
                   ELSE background_loop' = l /\ UNCHANGED main_loop

-----------------------------------------------------------------------------
\* Mutants: mistakes the properties must reject.  No run uses them as they
\* stand; each is put in the place of the definition it is named after.

\* Mutant: a registration is remembered even when it is refused.
Remembered_First(t, l, kind, accepted) ==
    registration_history \cup {Key(t, l, kind)}

-----------------------------------------------------------------------------
\* set_main_loop, set_background_loop: only the main thread sets the main loop,
\* and a loop is never both.
MayRegister(t, l, kind) ==
    /\ kind = "main" => t = MainThread
    /\ OtherSlot(kind) # l

Remembered(t, l, kind, accepted) ==
    IF accepted THEN registration_history \cup {Key(t, l, kind)}
    ELSE registration_history

\* A registration that the registry remembers is not made again: the call returns
\* True and leaves the slot as it is.
Registers(t, l, kind) ==
    LET accepted == MayRegister(t, l, kind)
        fresh == accepted /\ Key(t, l, kind) \notin registration_history
    IN  /\ IF fresh THEN Filled(kind, l) ELSE UNCHANGED <<main_loop, background_loop>>
        /\ registration_history' = Remembered(t, l, kind, accepted)
        /\ displaced' =
               IF fresh
               THEN displaced \cup {k \in registration_history :
                                        k.kind = kind /\ k.loop = Slot(kind) /\ k.loop # l}
               ELSE displaced

SetLoop(t, l, kind) ==
    /\ l \in made /\ Registers(t, l, kind)
    /\ UNCHANGED <<made, open, running, default_loop, seeking>>

\* set_loop of the registry and of ThreadLocalEventLoopStorage: the kind is that
\* of the thread.
LegacySetLoop(t, l) == SetLoop(t, l, ThreadKind(t))

\* clear_loops: the loops go, what was remembered stays.
ClearLoops ==
    /\ main_loop' = NoLoop /\ background_loop' = NoLoop
    /\ displaced' = registration_history
    /\ UNCHANGED <<registration_history, made, open, running, default_loop,
                   seeking>>

-----------------------------------------------------------------------------
Usable(l) == l \in open

\* asyncio.new_event_loop, asyncio.set_event_loop
Makes(t, l) ==
    /\ l \in Loops \ made
    /\ made' = made \cup {l} /\ open' = open \cup {l}
    /\ default_loop' = [default_loop EXCEPT ![t] = l]

\* The running loop if there is one, a new one otherwise; it is registered as
\* told.
RunningOrNew(t, register) ==
    \/ /\ running[t] # NoLoop
       /\ IF register = "main" THEN Registers(t, running[t], "main")
          ELSE UNCHANGED <<main_loop, background_loop, registration_history, displaced>>
       /\ UNCHANGED <<made, open, default_loop>>
    \/ /\ running[t] = NoLoop
       /\ \E l \in Loops :
             /\ Makes(t, l)
             /\ IF register = "nothing"
                THEN UNCHANGED <<main_loop, background_loop, registration_history, displaced>>
                ELSE Registers(t, l, register)

\* get_loop_for_thread: unless the loop of the thread's kind is there and open, the
\* thread finds one of its own.
LooksUp(t) ==
    /\ ~Usable(Slot(ThreadKind(t)))
    /\ seeking' = seeking \cup {t}
    /\ UNCHANGED <<main_loop, background_loop, registration_history, displaced,
                   made, open, running, default_loop>>

FindsOwn(t) ==
    /\ RunningOrNew(t, ThreadKind(t))
    /\ seeking' = seeking \ {t}
    /\ UNCHANGED running

\* ensure_event_loop: a thread other than the main one keeps its loop to itself.
EnsureEventLoop(t) ==
    /\ t = MainThread => ~Usable(main_loop)
    /\ RunningOrNew(t, IF t = MainThread THEN "main" ELSE "nothing")
    /\ UNCHANGED <<running, seeking>>

\* get_qasync_compatible_loop, where no loop runs: the main loop, from any
\* thread, which is made the thread's; else the thread's; else a new one, offered
\* as the main loop.  The main thread is given a loop by asyncio.
CompatibleLoop(t) ==
    /\ running[t] = NoLoop
    /\ \/ /\ Usable(main_loop)
          /\ default_loop' = [default_loop EXCEPT ![t] = main_loop]
          /\ UNCHANGED <<main_loop, background_loop, registration_history, displaced,
                         made, open>>
       \/ /\ ~Usable(main_loop) /\ default_loop[t] = NoLoop
          /\ \E l \in Loops :
                /\ Makes(t, l)
                /\ IF t = MainThread
                   THEN UNCHANGED <<main_loop, background_loop, registration_history,
                                    displaced>>
                   ELSE Registers(t, l, "main")
    /\ UNCHANGED <<running, seeking>>

-----------------------------------------------------------------------------
\* The owners of the loops.
MakesOwn(t) ==
    /\ \E l \in Loops : Makes(t, l)
    /\ UNCHANGED <<main_loop, background_loop, registration_history, displaced,
                   running, seeking>>

Runs(t, l) ==
    /\ running[t] = NoLoop /\ l \in open
    /\ \A u \in Threads : running[u] # l
    /\ running' = [running EXCEPT ![t] = l]
    /\ UNCHANGED <<main_loop, background_loop, registration_history, displaced,
                   made, open, default_loop, seeking>>

Stops(t) ==
    /\ running[t] # NoLoop /\ running' = [running EXCEPT ![t] = NoLoop]
    /\ UNCHANGED <<main_loop, background_loop, registration_history, displaced,
                   made, open, default_loop, seeking>>

Closes(l) ==
    /\ l \in open /\ \A t \in Threads : running[t] # l
    /\ open' = open \ {l}
    /\ UNCHANGED <<main_loop, background_loop, registration_history, displaced,
                   made, running, default_loop, seeking>>

\* A thread between the two halves of a lookup does nothing else.
LoopNext ==
    \/ \E t \in Threads \ seeking :
          \/ LooksUp(t) \/ EnsureEventLoop(t) \/ CompatibleLoop(t)
          \/ MakesOwn(t) \/ Stops(t)
          \/ \E l \in Loops :
                LegacySetLoop(t, l) \/ Runs(t, l)
                    \/ \E kind \in {"main", "background"} : SetLoop(t, l, kind)
    \/ \E t \in seeking : FindsOwn(t)
    \/ ClearLoops
    \/ \E l \in Loops : Closes(l)

LoopSpec == LoopInit /\ [][LoopNext]_loopVars

-----------------------------------------------------------------------------
\* The registry's variables keep their types.
LoopTypeOK ==
    LET Maybe == Loops \cup {NoLoop}
        Keys == [thread : Threads, loop : Loops, kind : {"main", "background"}]
    IN  /\ main_loop \in Maybe /\ background_loop \in Maybe
        /\ registration_history \subseteq Keys /\ displaced \subseteq Keys
        /\ open \subseteq made /\ made \subseteq Loops
        /\ running \in [Threads -> open \cup {NoLoop}]
        /\ default_loop \in [Threads -> Maybe] /\ seeking \subseteq Threads

\* No loop is the main and the background loop at once; the main loop was put
\* there by the main thread; and a registration that the registry remembers, and
\* would therefore refuse to make again, is in force unless a later one or
\* clear_loops displaced it: a refused registration can be made later.
LoopsKeptApart ==
    /\ main_loop # NoLoop => main_loop # background_loop
    /\ main_loop # NoLoop => Key(MainThread, main_loop, "main") \in registration_history
    /\ \A k \in registration_history \ displaced : Slot(k.kind) = k.loop
=============================================================================
