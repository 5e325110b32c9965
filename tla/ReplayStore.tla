------------------------------ MODULE ReplayStore -----------------------------
(***************************************************************************)
(* DPoP proofs and the store that lets each be used once                   *)
(* (src/src/hayate_auth/dpop.py): the time window of a proof, the insert   *)
(* whose UNIQUE (identifier, value_hash) elects one presentation, and the  *)
(* cleanup that frees the identifiers of old proofs, at most once in an    *)
(* interval and worker.                                                    *)
(*                                                                         *)
(* A proof is its key and jti, one value here, and its iat.  Its syntax,   *)
(* its signature and what it is bound to only refuse it, before the store  *)
(* is asked.  The clocks a step reads (time, datetime, monotonic) are one. *)
(***************************************************************************)
EXTENDS Naturals

CONSTANTS
    Presenters,         \* the handlers that may validate a proof at the same time
    Workers,            \* processes, each with a store object of its own
    Jtis,               \* (key, jti) pairs
    MaxAge, Skew,       \* DPoPConfig.max_age, clock_skew
    CleanupInterval,
    MaxClock            \* bound: the last moment of the instance

ASSUME ReplayAssumption ==
    /\ MaxAge \in Nat \ {0}
    /\ Skew \in Nat
    /\ CleanupInterval \in Nat \ {0}
    /\ MaxClock \in Nat

VARIABLES
    clock,
    store,          \* which of the two stores is deployed
    entries,        \* expires_at of the entry of a jti, or Free
    nextCleanup,    \* _next_cleanup of each worker's store object
    cleaning,       \* whether its _cleanup_lock is held
    presenters,     \* the handlers' program counters and local variables
    accepted        \* history: how often a proof was accepted

replayVars == <<clock, store, entries, nextCleanup, cleaning, presenters, accepted>>

Free == 0
Moments == 0..MaxClock
Proofs == [jti: Jtis, iat: Moments]
ExpiresAt(p) == p.iat + MaxAge + Skew

NotPresenting == [pc |-> "idle"]
Presenting == [pc: {"lock", "clean", "insert", "confirm"}, worker: Workers, proof: Proofs,
               began: Moments]

ReplayTypeOK ==
    /\ clock \in Moments
    /\ store \in {"memory", "adapter"}
    /\ entries \in [Jtis -> Nat]
    /\ nextCleanup \in [Workers -> Nat]
    /\ cleaning \in [Workers -> BOOLEAN]
    /\ presenters \in [Presenters -> Presenting \cup {NotPresenting}]
    /\ accepted \in [Proofs -> Nat]

ReplayInit ==
    /\ clock = 0
    /\ store \in {"memory", "adapter"}
    /\ entries = [j \in Jtis |-> Free]
    /\ nextCleanup = [w \in Workers |-> 0]
    /\ cleaning = [w \in Workers |-> FALSE]
    /\ presenters = [h \in Presenters |-> NotPresenting]
    /\ accepted = [p \in Proofs |-> 0]

-----------------------------------------------------------------------------
\* validate_dpop_proof: not older than max_age, not from further ahead than the skew.
InWindow(p) == clock <= p.iat + MaxAge /\ p.iat <= clock + Skew

Waits(h, label) == presenters[h].pc = label
Proceeds(h, label) == presenters' = [presenters EXCEPT ![h].pc = label]
Ends(h) == presenters' = [presenters EXCEPT ![h] = NotPresenting]
Accepts(p) == accepted' = [accepted EXCEPT ![p] = @ + 1]

-----------------------------------------------------------------------------
(* Mutants: operators below with one plausible mistake each.  The          *)
(* specification does not use them; in the place of what each is named     *)
(* after they make a property of the run fail.                             *)

\* Frees an entry when the proof is too old, without leaving it the skew.
KeptWithoutSkew(t) == [j \in Jtis |-> IF entries[j] < t + Skew THEN Free ELSE entries[j]]

\* Whoever waited for the lock cleans up, too.
LockAndClean(h) ==
    /\ Waits(h, "lock")
    /\ ~cleaning[presenters[h].worker]
    /\ cleaning' = [cleaning EXCEPT ![presenters[h].worker] = TRUE]
    /\ Proceeds(h, "clean")
    /\ UNCHANGED <<clock, store, entries, nextCleanup, accepted>>

-----------------------------------------------------------------------------
(* InMemoryDPoPReplayStore: nothing is awaited under its lock, so record   *)
(* is one step.                                                            *)

PresentToMemory(p) ==
    /\ store = "memory"
    /\ InWindow(p)
    /\ LET live == [j \in Jtis |-> IF entries[j] > clock THEN entries[j] ELSE Free] IN
       IF live[p.jti] = Free
       THEN entries' = [live EXCEPT ![p.jti] = ExpiresAt(p)] /\ Accepts(p)
       ELSE entries' = live /\ UNCHANGED accepted
    /\ UNCHANGED <<clock, store, nextCleanup, cleaning, presenters>>

-----------------------------------------------------------------------------
(* AdapterDPoPReplayStore: the rows of table verification whose identifier *)
(* starts with "dpop:", shared by the workers.                             *)

\* The entries that a cleanup as of moment t leaves in the shared store.
Kept(t) == [j \in Jtis |-> IF entries[j] < t THEN Free ELSE entries[j]]

\* The proof is checked and record called; up to its first await nothing intervenes.
Present(h, w, p) ==
    /\ store = "adapter"
    /\ Waits(h, "idle")
    /\ InWindow(p)
    /\ presenters' = [presenters EXCEPT
           ![h] = [pc |-> IF clock >= nextCleanup[w] THEN "lock" ELSE "insert",
                   worker |-> w, proof |-> p, began |-> clock]]
    /\ UNCHANGED <<clock, store, entries, nextCleanup, cleaning, accepted>>

\* async with _cleanup_lock: another handler may have cleaned up in the meantime.
LockCleanup(h) ==
    /\ Waits(h, "lock")
    /\ LET w == presenters[h].worker IN
       /\ ~cleaning[w]
       /\ IF presenters[h].began >= nextCleanup[w]
          THEN cleaning' = [cleaning EXCEPT ![w] = TRUE] /\ Proceeds(h, "clean")
          ELSE UNCHANGED cleaning /\ Proceeds(h, "insert")
    /\ UNCHANGED <<clock, store, entries, nextCleanup, accepted>>

\* The delete is as of the moment at which record was called.
CleanUp(h) ==
    /\ Waits(h, "clean")
    /\ LET w == presenters[h].worker
           t == presenters[h].began IN
       /\ entries' = Kept(t)
       /\ nextCleanup' = [nextCleanup EXCEPT ![w] = t + CleanupInterval]
       /\ cleaning' = [cleaning EXCEPT ![w] = FALSE]
    /\ Proceeds(h, "insert")
    /\ UNCHANGED <<clock, store, accepted>>

\* The delete raises: the lock is released, and the proof refused.
CleanUpFails(h) ==
    /\ Waits(h, "clean")
    /\ cleaning' = [cleaning EXCEPT ![presenters[h].worker] = FALSE]
    /\ Ends(h)
    /\ UNCHANGED <<clock, store, entries, nextCleanup, accepted>>

Insert(h) ==
    /\ Waits(h, "insert")
    /\ LET p == presenters[h].proof IN
       /\ entries[p.jti] = Free
       /\ entries' = [entries EXCEPT ![p.jti] = ExpiresAt(p)]
       /\ Accepts(p)
    /\ Ends(h)
    /\ UNCHANGED <<clock, store, nextCleanup, cleaning>>

\* create raises: the entry exists, or the store failed before or after storing it.
InsertFails(h) ==
    /\ Waits(h, "insert")
    /\ LET p == presenters[h].proof IN
       \/ UNCHANGED entries
       \/ /\ entries[p.jti] = Free
          /\ entries' = [entries EXCEPT ![p.jti] = ExpiresAt(p)]
    /\ Proceeds(h, "confirm")
    /\ UNCHANGED <<clock, store, nextCleanup, cleaning, accepted>>

\* The lookup only tells a replay from an unavailable store: either way, refused.
Confirm(h) ==
    /\ Waits(h, "confirm")
    /\ Ends(h)
    /\ UNCHANGED <<clock, store, entries, nextCleanup, cleaning, accepted>>

ClockTicks ==
    /\ clock < MaxClock
    /\ clock' = clock + 1
    /\ UNCHANGED <<store, entries, nextCleanup, cleaning, presenters, accepted>>

ReplayNext ==
    \/ \E p \in Proofs : PresentToMemory(p)
    \/ \E h \in Presenters, w \in Workers, p \in Proofs : Present(h, w, p)
    \/ \E h \in Presenters :
          LockCleanup(h) \/ CleanUp(h) \/ CleanUpFails(h)
          \/ Insert(h) \/ InsertFails(h) \/ Confirm(h)
    \/ ClockTicks

ReplaySpec == ReplayInit /\ [][ReplayNext]_replayVars

-----------------------------------------------------------------------------
\* A proof is accepted once: a second time only after its entry expired, which takes a
\* handler that was suspended for longer than the skew between its check of the proof's
\* age and its insert.  The store in memory has no such gap: with a skew, never.
ProofsAreSingleUse ==
    \A p \in Proofs :
       accepted[p] > 1 => /\ clock >= ExpiresAt(p)
                          /\ store = "adapter" => clock > ExpiresAt(p)
                          /\ store = "memory" => Skew = 0

\* A worker cleans up once in an interval: its deletes are as of moments that lie an
\* interval apart, however many handlers found the cleanup due.
OneCleanupPerInterval ==
    [][\A w \in Workers :
          nextCleanup'[w] # nextCleanup[w] =>
             nextCleanup'[w] >= nextCleanup[w] + CleanupInterval]_replayVars

=============================================================================
