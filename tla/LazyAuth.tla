------------------------------- MODULE LazyAuth ------------------------------
(***************************************************************************)
(* LazyAuth (src/src/hayate_auth/lazy.py) with its cache on: requests that *)
(* need the Auth before it exists, the factory that one of them awaits,    *)
(* and the asyncio lock, first come first served, that the others wait at. *)
(* With the cache off every request has an Auth of its own.                *)
(***************************************************************************)
EXTENDS Sequences

CONSTANT Callers    \* the requests that may run at the same time

VARIABLES
    cached,     \* _auth: the Auth, named by the caller whose factory call made it
    lock,       \* the callers at _lock; the first holds it
    callers,    \* their program counters
    served      \* history: the Auths that requests were served by

lazyVars == <<cached, lock, callers, served>>

NoAuth == "none"

\* A caller's name stands for the Auth that its factory call made.
ASSUME LazyAssumption == NoAuth \notin Callers

LazyTypeOK ==
    /\ cached \in Callers \cup {NoAuth}
    /\ lock \in Seq(Callers)
    /\ callers \in [Callers -> {"idle", "wait", "create"}]
    /\ served \subseteq Callers

LazyInit ==
    /\ cached = NoAuth
    /\ lock = <<>>
    /\ callers = [c \in Callers |-> "idle"]
    /\ served = {}

Goes(c, label) == callers' = [callers EXCEPT ![c] = label]
Serve(auth) == served' = served \cup {auth}
HoldsLock(c) == lock # <<>> /\ Head(lock) = c

-----------------------------------------------------------------------------
(* Mutants, see the note in ReplayStore.                                   *)

\* Calls the factory without a second look at the cache.
EnterLockBlindly(c) ==
    /\ callers[c] = "wait" /\ HoldsLock(c)
    /\ Goes(c, "create")
    /\ UNCHANGED <<cached, lock, served>>

\* Caches what the factory returned before it is validated.
CreateFailsCached(c) ==
    /\ callers[c] = "create"
    /\ cached' = "invalid"
    /\ lock' = Tail(lock)
    /\ Goes(c, "idle")
    /\ UNCHANGED served

\* Leaves the lock held.
CreateFailsLocked(c) ==
    /\ callers[c] = "create"
    /\ Goes(c, "idle")
    /\ UNCHANGED <<cached, lock, served>>

-----------------------------------------------------------------------------
\* get: the cached Auth, or a place at the lock.
Get(c) ==
    /\ callers[c] = "idle"
    /\ IF cached # NoAuth
       THEN Serve(cached) /\ UNCHANGED <<lock, callers>>
       ELSE Goes(c, "wait") /\ lock' = Append(lock, c) /\ UNCHANGED served
    /\ UNCHANGED cached

\* Another caller may have filled the cache while this one waited.
EnterLock(c) ==
    /\ callers[c] = "wait" /\ HoldsLock(c)
    /\ IF cached = NoAuth
       THEN Goes(c, "create") /\ UNCHANGED <<lock, served>>
       ELSE Goes(c, "idle") /\ lock' = Tail(lock) /\ Serve(cached)
    /\ UNCHANGED cached

\* The factory returns an Auth for this base path and mode.
Create(c) ==
    /\ callers[c] = "create"
    /\ cached' = c
    /\ lock' = Tail(lock)
    /\ Goes(c, "idle")
    /\ Serve(c)

\* It raises, or returns another: the request fails, and the next may try.
CreateFails(c) ==
    /\ callers[c] = "create"
    /\ lock' = Tail(lock)
    /\ Goes(c, "idle")
    /\ UNCHANGED <<cached, served>>

Resume(c) == EnterLock(c) \/ Create(c) \/ CreateFails(c)

LazyNext == \E c \in Callers : Get(c) \/ Resume(c)

LazySpec == LazyInit /\ [][LazyNext]_lazyVars

\* The event loop resumes every request that can go on, and a factory call ends.
LazyFairness == \A c \in Callers : WF_lazyVars(Resume(c))

-----------------------------------------------------------------------------
\* One Auth serves every request: no two factory calls run at once, none runs once an
\* Auth is cached, and no request sees another Auth than the cached one.
OneAuth ==
    /\ \A c, d \in Callers : callers[c] = "create" /\ callers[d] = "create" => c = d
    /\ \A c \in Callers : callers[c] = "create" => cached = NoAuth
    /\ served \subseteq {cached}

\* No request waits for ever, whichever factory calls fail while it is at the lock.
EveryRequestEnds == \A c \in Callers : callers[c] # "idle" ~> callers[c] = "idle"

=============================================================================
