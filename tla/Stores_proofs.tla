---------------------------- MODULE Stores_proofs ----------------------------
(***************************************************************************)
(* The components of MCStores: the replay store, the clients of metadata   *)
(* documents and the lazily made Auth, for every value of their constants. *)
(***************************************************************************)
EXTENDS MCStores, TLAPS

-----------------------------------------------------------------------------
(* A DPoP proof is accepted once, and a worker cleans up once in an        *)
(* interval, for any number of handlers, workers and proofs and whatever   *)
(* the policy of the deployment.                                           *)

USE ReplayAssumption

\* A handler was called before now, and waits for the shared store.
CalledBefore ==
    \A h \in Presenters :
       ~Waits(h, "idle") => presenters[h].began <= clock /\ store = "adapter"

\* The entry of an accepted proof stays until nobody may present the proof any more.
Remembered ==
    \A p \in Proofs :
       /\ accepted[p] > 0
       /\ \/ store = "adapter" /\ clock <= ExpiresAt(p)
          \/ store = "memory" /\ clock < ExpiresAt(p)
       => entries[p.jti] = ExpiresAt(p)

\* Whoever cleans up holds the lock, alone, and the cleanup is due.
OneCleaner ==
    \A h \in Presenters :
       Waits(h, "clean") =>
          /\ cleaning[presenters[h].worker]
          /\ presenters[h].began >= nextCleanup[presenters[h].worker]
          /\ \A g \in Presenters :
                Waits(g, "clean") /\ presenters[g].worker = presenters[h].worker => g = h

ReplayInv == ReplayTypeOK /\ CalledBefore /\ Remembered /\ OneCleaner /\ ProofsAreSingleUse

-----------------------------------------------------------------------------
(* Proofs and handlers.                                                    *)

LEMMA ProofFacts ==
  ASSUME NEW p \in Proofs
  PROVE  /\ p.jti \in Jtis /\ p.iat \in Nat
         /\ ExpiresAt(p) \in Nat /\ ExpiresAt(p) # Free
         /\ p.iat + MaxAge <= ExpiresAt(p)
         /\ (p.iat + MaxAge = ExpiresAt(p) => Skew = 0)
  BY DEF Proofs, Moments, ExpiresAt, Free

\* A handler that is called, or goes on to another label, is well typed.
LEMMA HandlerMoves ==
  ASSUME ReplayTypeOK, NEW h \in Presenters, NEW x \in Presenting \cup {NotPresenting},
         presenters' = [presenters EXCEPT ![h] = x]
  PROVE  /\ presenters' \in [Presenters -> Presenting \cup {NotPresenting}]
         /\ presenters'[h] = x
         /\ \A g \in Presenters : g # h => presenters'[g] = presenters[g]
  BY DEF ReplayTypeOK

LEMMA HandlerFacts ==
  ASSUME ReplayTypeOK, NEW h \in Presenters, ~Waits(h, "idle")
  PROVE  /\ presenters[h] \in Presenting
         /\ presenters[h].worker \in Workers
         /\ presenters[h].proof \in Proofs
         /\ presenters[h].began \in Moments
  BY DEF ReplayTypeOK, Waits, NotPresenting, Presenting

LEMMA HandlerProceeds ==
  ASSUME ReplayTypeOK, NEW h \in Presenters, ~Waits(h, "idle"),
         NEW label \in {"clean", "insert", "confirm"}, Proceeds(h, label)
  PROVE  /\ presenters' \in [Presenters -> Presenting \cup {NotPresenting}]
         /\ presenters'[h].pc = label
         /\ presenters'[h].worker = presenters[h].worker
         /\ presenters'[h].began = presenters[h].began
         /\ \A g \in Presenters : g # h => presenters'[g] = presenters[g]
<1> DEFINE x == [presenters[h] EXCEPT !.pc = label]
<1>1. presenters[h] \in Presenting
  BY HandlerFacts
<1>2. /\ x \in Presenting /\ x.pc = label
      /\ x.worker = presenters[h].worker /\ x.began = presenters[h].began
  BY <1>1 DEF Presenting
<1>3. presenters' = [presenters EXCEPT ![h] = x]
  BY DEF Proceeds
<1> HIDE DEF x
<1> QED
  BY <1>2, <1>3, HandlerMoves

LEMMA HandlerEnds ==
  ASSUME ReplayTypeOK, NEW h \in Presenters, Ends(h)
  PROVE  /\ presenters' \in [Presenters -> Presenting \cup {NotPresenting}]
         /\ presenters'[h].pc = "idle"
         /\ \A g \in Presenters : g # h => presenters'[g] = presenters[g]
  BY HandlerMoves DEF Ends, NotPresenting

-----------------------------------------------------------------------------
(* The steps.                                                              *)

\* A handler that only moves on, and is not one that cleans up, disturbs nothing.
LEMMA PresenterMovesOn ==
  ASSUME ReplayInv, NEW h \in Presenters,
         presenters' \in [Presenters -> Presenting \cup {NotPresenting}],
         presenters'[h].pc # "clean",
         presenters'[h].pc # "idle" => presenters'[h].began <= clock /\ store = "adapter",
         \A g \in Presenters : g # h => presenters'[g] = presenters[g],
         UNCHANGED <<clock, store>>
  PROVE  /\ CalledBefore'
         /\ UNCHANGED <<cleaning, nextCleanup>> => OneCleaner'
  BY DEF ReplayInv, CalledBefore, OneCleaner, Waits

LEMMA StoreUnchanged ==
  ASSUME ReplayInv, UNCHANGED <<clock, store, entries, accepted>>
  PROVE  Remembered' /\ ProofsAreSingleUse'
  BY DEF ReplayInv, Remembered, ProofsAreSingleUse

LEMMA PresentStep ==
  ASSUME ReplayInv, NEW h \in Presenters, NEW w \in Workers, NEW p \in Proofs, Present(h, w, p)
  PROVE  ReplayInv'
<1> DEFINE x == [pc |-> IF clock >= nextCleanup[w] THEN "lock" ELSE "insert",
                 worker |-> w, proof |-> p, began |-> clock]
<1> USE DEF ReplayInv
<1>1. /\ x \in Presenting /\ x.pc \in {"lock", "insert"} /\ x.began = clock
  BY DEF Presenting, ReplayTypeOK
<1>2. presenters' = [presenters EXCEPT ![h] = x]
  BY DEF Present
<1> HIDE DEF x
<1>3. /\ presenters' \in [Presenters -> Presenting \cup {NotPresenting}]
      /\ presenters'[h] = x
      /\ \A g \in Presenters : g # h => presenters'[g] = presenters[g]
  BY <1>1, <1>2, HandlerMoves
<1>4. UNCHANGED <<clock, store, entries, nextCleanup, cleaning, accepted>> /\ store = "adapter"
  BY DEF Present
<1>5. ReplayTypeOK'
  BY <1>3, <1>4 DEF ReplayTypeOK
<1>6. CalledBefore' /\ OneCleaner'
  BY <1>1, <1>3, <1>4, PresenterMovesOn DEF ReplayTypeOK, Moments
<1> QED
  BY <1>4, <1>5, <1>6, StoreUnchanged

LEMMA LockCleanupStep ==
  ASSUME ReplayInv, NEW h \in Presenters, LockCleanup(h)
  PROVE  ReplayInv'
<1> DEFINE w == presenters[h].worker
<1> USE DEF ReplayInv
<1>1. ~Waits(h, "idle") /\ ~Waits(h, "clean") /\ ~cleaning[w]
  BY DEF LockCleanup, Waits
<1>2. w \in Workers /\ presenters[h].began \in Moments
  BY <1>1, HandlerFacts
<1>3. UNCHANGED <<clock, store, entries, nextCleanup, accepted>>
  BY DEF LockCleanup
<1>4. ASSUME presenters[h].began >= nextCleanup[w]  PROVE ReplayInv'
  <2>1. cleaning' = [cleaning EXCEPT ![w] = TRUE] /\ Proceeds(h, "clean")
    BY <1>4 DEF LockCleanup
  <2>2. /\ presenters' \in [Presenters -> Presenting \cup {NotPresenting}]
        /\ presenters'[h].pc = "clean" /\ presenters'[h].worker = w
        /\ presenters'[h].began = presenters[h].began
        /\ \A g \in Presenters : g # h => presenters'[g] = presenters[g]
    BY <1>1, <2>1, HandlerProceeds
  <2>3. ReplayTypeOK'
    BY <1>3, <2>1, <2>2 DEF ReplayTypeOK
  <2>4. CalledBefore'
    BY <1>1, <1>3, <2>2 DEF CalledBefore, Waits
  <2>5. \A g \in Presenters : Waits(g, "clean") => presenters[g].worker # w
    BY <1>1 DEF OneCleaner
  <2>6. OneCleaner'
    <3> SUFFICES ASSUME NEW g \in Presenters, Waits(g, "clean")'
                 PROVE  /\ cleaning'[presenters'[g].worker]
                        /\ presenters'[g].began >= nextCleanup'[presenters'[g].worker]
                        /\ \A f \in Presenters :
                              Waits(f, "clean")' /\ presenters'[f].worker = presenters'[g].worker
                              => f = g
      BY DEF OneCleaner
    <3>1. CASE g = h
      BY <1>2, <1>3, <1>4, <2>1, <2>2, <2>5, <3>1 DEF Waits, ReplayTypeOK
    <3>2. CASE g # h
      <4>1. presenters'[g] = presenters[g] /\ Waits(g, "clean") /\ presenters[g].worker # w
        BY <2>2, <2>5, <3>2 DEF Waits
      <4>2. presenters[g].worker \in Workers
        BY <4>1, HandlerFacts DEF Waits
      <4>3. cleaning'[presenters[g].worker] = cleaning[presenters[g].worker]
        BY <2>1, <4>1, <4>2 DEF ReplayTypeOK
      <4> QED
        BY <1>3, <2>2, <4>1, <4>3 DEF OneCleaner, Waits
    <3> QED
      BY <3>1, <3>2
  <2> QED
    BY <1>3, <2>3, <2>4, <2>6, StoreUnchanged
<1>5. ASSUME ~(presenters[h].began >= nextCleanup[w])  PROVE ReplayInv'
  <2>1. UNCHANGED cleaning /\ Proceeds(h, "insert")
    BY <1>5 DEF LockCleanup
  <2>2. /\ presenters' \in [Presenters -> Presenting \cup {NotPresenting}]
        /\ presenters'[h].pc = "insert"
        /\ presenters'[h].began = presenters[h].began
        /\ \A g \in Presenters : g # h => presenters'[g] = presenters[g]
    BY <1>1, <2>1, HandlerProceeds
  <2>3. ReplayTypeOK'
    BY <1>3, <2>1, <2>2 DEF ReplayTypeOK
  <2>4. presenters[h].began <= clock /\ store = "adapter"
    BY <1>1 DEF CalledBefore
  <2>5. CalledBefore' /\ OneCleaner'
    BY <1>3, <2>1, <2>2, <2>4, PresenterMovesOn
  <2> QED
    BY <1>3, <2>3, <2>5, StoreUnchanged
<1> QED
  BY <1>4, <1>5

\* What a cleanup frees is past the window of its proof.
LEMMA CleanUpStep ==
  ASSUME ReplayInv, NEW h \in Presenters, CleanUp(h)
  PROVE  ReplayInv'
<1> DEFINE w == presenters[h].worker
           t == presenters[h].began
<1> USE DEF ReplayInv
<1>1. Waits(h, "clean") /\ ~Waits(h, "idle") /\ Proceeds(h, "insert")
  BY DEF CleanUp, Waits
<1>2. /\ w \in Workers /\ t \in Moments /\ t \in Nat /\ t <= clock /\ clock \in Nat
      /\ store = "adapter"
  BY <1>1, HandlerFacts DEF CalledBefore, Moments, ReplayTypeOK
<1>3. /\ presenters' \in [Presenters -> Presenting \cup {NotPresenting}]
      /\ presenters'[h].pc = "insert"
      /\ presenters'[h].began = t
      /\ \A g \in Presenters : g # h => presenters'[g] = presenters[g]
  BY <1>1, HandlerProceeds
<1>4. /\ entries' = Kept(t) /\ UNCHANGED <<clock, store, accepted>>
      /\ nextCleanup' = [nextCleanup EXCEPT ![w] = t + CleanupInterval]
      /\ cleaning' = [cleaning EXCEPT ![w] = FALSE]
  BY DEF CleanUp
<1>5. ReplayTypeOK'
  <2>1. entries' \in [Jtis -> Nat]
    BY <1>4 DEF Kept, Free, ReplayTypeOK
  <2>2. t + CleanupInterval \in Nat
    BY <1>2
  <2> QED
    BY <1>3, <1>4, <2>1, <2>2 DEF ReplayTypeOK
<1>6. CalledBefore'
  BY <1>2, <1>3, <1>4, PresenterMovesOn
<1>7. \A g \in Presenters : g # h /\ Waits(g, "clean") => presenters[g].worker # w
  BY <1>1 DEF OneCleaner
<1>8. OneCleaner'
  <2> SUFFICES ASSUME NEW g \in Presenters, Waits(g, "clean")'
               PROVE  /\ cleaning'[presenters'[g].worker]
                      /\ presenters'[g].began >= nextCleanup'[presenters'[g].worker]
                      /\ \A f \in Presenters :
                            Waits(f, "clean")' /\ presenters'[f].worker = presenters'[g].worker
                            => f = g
    BY DEF OneCleaner
  <2>1. g # h
    BY <1>3 DEF Waits
  <2>2. presenters'[g] = presenters[g] /\ Waits(g, "clean") /\ presenters[g].worker # w
    BY <1>3, <1>7, <2>1 DEF Waits
  <2>3. presenters[g].worker \in Workers
    BY <2>2, HandlerFacts DEF Waits
  <2>4. /\ cleaning'[presenters[g].worker] = cleaning[presenters[g].worker]
        /\ nextCleanup'[presenters[g].worker] = nextCleanup[presenters[g].worker]
    BY <1>4, <2>2, <2>3 DEF ReplayTypeOK
  <2> QED
    BY <1>3, <2>2, <2>4 DEF OneCleaner, Waits
<1>9. Remembered'
  <2> SUFFICES ASSUME NEW p \in Proofs, accepted[p] > 0, clock <= ExpiresAt(p)
               PROVE  entries'[p.jti] = ExpiresAt(p)
    BY <1>2, <1>4 DEF Remembered
  <2>1. entries[p.jti] = ExpiresAt(p) /\ p.jti \in Jtis /\ ExpiresAt(p) \in Nat
    BY <1>2, ProofFacts DEF Remembered
  <2> QED
    BY <1>2, <1>4, <2>1 DEF Kept
<1>10. ProofsAreSingleUse'
  BY <1>4 DEF ProofsAreSingleUse
<1> QED
  BY <1>5, <1>6, <1>8, <1>9, <1>10

LEMMA CleanUpFailsStep ==
  ASSUME ReplayInv, NEW h \in Presenters, CleanUpFails(h)
  PROVE  ReplayInv'
<1> DEFINE w == presenters[h].worker
<1> USE DEF ReplayInv
<1>1. Waits(h, "clean") /\ ~Waits(h, "idle") /\ Ends(h)
  BY DEF CleanUpFails, Waits
<1>2. w \in Workers
  BY <1>1, HandlerFacts
<1>3. /\ presenters' \in [Presenters -> Presenting \cup {NotPresenting}]
      /\ presenters'[h].pc = "idle"
      /\ \A g \in Presenters : g # h => presenters'[g] = presenters[g]
  BY <1>1, HandlerEnds
<1>4. /\ UNCHANGED <<clock, store, entries, nextCleanup, accepted>>
      /\ cleaning' = [cleaning EXCEPT ![w] = FALSE]
  BY DEF CleanUpFails
<1>5. ReplayTypeOK'
  BY <1>3, <1>4 DEF ReplayTypeOK
<1>6. CalledBefore'
  BY <1>3, <1>4, PresenterMovesOn
<1>7. OneCleaner'
  <2> SUFFICES ASSUME NEW g \in Presenters, Waits(g, "clean")'
               PROVE  /\ cleaning'[presenters'[g].worker]
                      /\ presenters'[g].began >= nextCleanup'[presenters'[g].worker]
                      /\ \A f \in Presenters :
                            Waits(f, "clean")' /\ presenters'[f].worker = presenters'[g].worker
                            => f = g
    BY DEF OneCleaner
  <2>1. presenters'[g] = presenters[g] /\ Waits(g, "clean") /\ presenters[g].worker # w
    BY <1>1, <1>3 DEF Waits, OneCleaner
  <2>2. presenters[g].worker \in Workers
    BY <2>1, HandlerFacts DEF Waits
  <2>3. cleaning'[presenters[g].worker] = cleaning[presenters[g].worker]
    BY <1>4, <2>1, <2>2 DEF ReplayTypeOK
  <2> QED
    BY <1>3, <1>4, <2>1, <2>3 DEF OneCleaner, Waits
<1> QED
  BY <1>4, <1>5, <1>6, <1>7, StoreUnchanged

\* An accepted proof finds its jti free: no proof with this jti is still remembered.
LEMMA AcceptanceStep ==
  ASSUME ReplayInv, NEW p \in Proofs, entries[p.jti] = Free, store = "adapter",
         entries' = [entries EXCEPT ![p.jti] = ExpiresAt(p)], Accepts(p),
         UNCHANGED <<clock, store>>
  PROVE  Remembered' /\ ProofsAreSingleUse'
<1> USE DEF ReplayInv
<1>1. accepted' = [accepted EXCEPT ![p] = accepted[p] + 1]
  BY DEF Accepts
<1>2. /\ entries'[p.jti] = ExpiresAt(p)
      /\ \A j \in Jtis : j # p.jti => entries'[j] = entries[j]
  BY ProofFacts DEF ReplayTypeOK
<1>3. \A q \in Proofs : accepted[q] > 0 /\ q.jti = p.jti => clock > ExpiresAt(q)
  <2> SUFFICES ASSUME NEW q \in Proofs, accepted[q] > 0, q.jti = p.jti, ~(clock > ExpiresAt(q))
               PROVE  FALSE
    OBVIOUS
  <2>1. ExpiresAt(q) # Free /\ ExpiresAt(q) \in Nat /\ clock \in Nat
    BY ProofFacts DEF ReplayTypeOK, Moments
  <2> QED
    BY <2>1 DEF Remembered
<1>4. \A q \in Proofs : q # p => accepted'[q] = accepted[q]
  BY <1>1 DEF ReplayTypeOK
<1>5. \A q \in Proofs : ExpiresAt(q) \in Nat /\ q.jti \in Jtis
  BY ProofFacts
<1>6. clock \in Nat /\ accepted[p] \in Nat
  BY DEF ReplayTypeOK, Moments
<1>7. Remembered'
  <2> SUFFICES ASSUME NEW q \in Proofs, accepted'[q] > 0, clock <= ExpiresAt(q)
               PROVE  entries'[q.jti] = ExpiresAt(q)
    BY DEF Remembered
  <2>1. CASE q = p
    BY <1>2, <2>1
  <2>2. CASE q # p
    BY <1>2, <1>3, <1>4, <1>5, <1>6, <2>2 DEF Remembered
  <2> QED
    BY <2>1, <2>2
<1>8. ProofsAreSingleUse'
  <2> SUFFICES ASSUME NEW q \in Proofs, accepted'[q] > 1
               PROVE  clock >= ExpiresAt(q) /\ clock > ExpiresAt(q)
    BY DEF ProofsAreSingleUse
  <2>1. CASE q = p
    <3>1. accepted[p] > 0
      BY <1>1, <1>6, <2>1 DEF ReplayTypeOK
    <3> QED
      BY <1>3, <1>5, <1>6, <2>1, <3>1
  <2>2. CASE q # p
    BY <1>4, <1>5, <1>6, <2>2 DEF ProofsAreSingleUse
  <2> QED
    BY <2>1, <2>2
<1> QED
  BY <1>7, <1>8

LEMMA InsertStep ==
  ASSUME ReplayInv, NEW h \in Presenters, Insert(h)
  PROVE  ReplayInv'
<1> DEFINE p == presenters[h].proof
<1> USE DEF ReplayInv
<1>1. ~Waits(h, "idle") /\ Ends(h)
  BY DEF Insert, Waits
<1>2. p \in Proofs /\ store = "adapter"
  BY <1>1, HandlerFacts DEF CalledBefore
<1>3. /\ presenters' \in [Presenters -> Presenting \cup {NotPresenting}]
      /\ presenters'[h].pc = "idle"
      /\ \A g \in Presenters : g # h => presenters'[g] = presenters[g]
  BY <1>1, HandlerEnds
<1>4. /\ entries[p.jti] = Free /\ entries' = [entries EXCEPT ![p.jti] = ExpiresAt(p)]
      /\ Accepts(p) /\ UNCHANGED <<clock, store, nextCleanup, cleaning>>
  BY DEF Insert
<1>5. ReplayTypeOK'
  BY <1>2, <1>3, <1>4, ProofFacts DEF ReplayTypeOK, Accepts
<1>6. CalledBefore' /\ OneCleaner'
  BY <1>3, <1>4, PresenterMovesOn
<1> HIDE DEF p
<1> QED
  BY <1>2, <1>4, <1>5, <1>6, AcceptanceStep

LEMMA InsertFailsStep ==
  ASSUME ReplayInv, NEW h \in Presenters, InsertFails(h)
  PROVE  ReplayInv'
<1> DEFINE p == presenters[h].proof
<1> USE DEF ReplayInv
<1>1. ~Waits(h, "idle") /\ Proceeds(h, "confirm")
  BY DEF InsertFails, Waits
<1>2. p \in Proofs /\ store = "adapter" /\ presenters[h].began <= clock
  BY <1>1, HandlerFacts DEF CalledBefore
<1>3. /\ presenters' \in [Presenters -> Presenting \cup {NotPresenting}]
      /\ presenters'[h].pc = "confirm"
      /\ presenters'[h].began = presenters[h].began
      /\ \A g \in Presenters : g # h => presenters'[g] = presenters[g]
  BY <1>1, HandlerProceeds
<1>4. /\ UNCHANGED <<clock, store, nextCleanup, cleaning, accepted>>
      /\ \/ UNCHANGED entries
         \/ entries[p.jti] = Free /\ entries' = [entries EXCEPT ![p.jti] = ExpiresAt(p)]
  BY DEF InsertFails
<1>5. ReplayTypeOK'
  BY <1>2, <1>3, <1>4, ProofFacts DEF ReplayTypeOK
<1>6. CalledBefore' /\ OneCleaner'
  BY <1>2, <1>3, <1>4, PresenterMovesOn
<1> HIDE DEF p
<1>7. Remembered'
  <2> SUFFICES ASSUME NEW q \in Proofs, accepted[q] > 0, clock <= ExpiresAt(q)
               PROVE  entries'[q.jti] = ExpiresAt(q)
    BY <1>2, <1>4 DEF Remembered
  <2>1. entries[q.jti] = ExpiresAt(q) /\ ExpiresAt(q) # Free /\ q.jti \in Jtis
    BY <1>2, ProofFacts DEF Remembered
  <2> QED
    BY <1>2, <1>4, <2>1, ProofFacts DEF ReplayTypeOK
<1>8. ProofsAreSingleUse'
  BY <1>4 DEF ProofsAreSingleUse
<1> QED
  BY <1>5, <1>6, <1>7, <1>8

LEMMA ConfirmStep ==
  ASSUME ReplayInv, NEW h \in Presenters, Confirm(h)
  PROVE  ReplayInv'
<1> USE DEF ReplayInv
<1>1. Ends(h) /\ UNCHANGED <<clock, store, entries, nextCleanup, cleaning, accepted>>
  BY DEF Confirm
<1>2. /\ presenters' \in [Presenters -> Presenting \cup {NotPresenting}]
      /\ presenters'[h].pc = "idle"
      /\ \A g \in Presenters : g # h => presenters'[g] = presenters[g]
  BY <1>1, HandlerEnds
<1>3. ReplayTypeOK'
  BY <1>1, <1>2 DEF ReplayTypeOK
<1>4. CalledBefore' /\ OneCleaner'
  BY <1>1, <1>2, PresenterMovesOn
<1> QED
  BY <1>1, <1>3, <1>4, StoreUnchanged

\* In memory a jti is free again once its entry expires, which without a skew is the last
\* moment at which the proof may be presented.
LEMMA PresentToMemoryStep ==
  ASSUME ReplayInv, NEW p \in Proofs, PresentToMemory(p)
  PROVE  ReplayInv'
<1> DEFINE live == [j \in Jtis |-> IF entries[j] > clock THEN entries[j] ELSE Free]
<1> USE DEF ReplayInv
<1>1. store = "memory" /\ clock <= p.iat + MaxAge /\ clock \in Nat
      /\ UNCHANGED <<clock, store, nextCleanup, cleaning, presenters>>
  BY DEF PresentToMemory, InWindow, ReplayTypeOK, Moments
<1>2. \A q \in Proofs : /\ ExpiresAt(q) \in Nat /\ ExpiresAt(q) # Free /\ q.jti \in Jtis
                         /\ accepted[q] \in Nat
  BY ProofFacts DEF ReplayTypeOK
<1>3. live \in [Jtis -> Nat]
  BY DEF ReplayTypeOK, Free
<1>4. \A q \in Proofs : accepted[q] > 0 /\ clock < ExpiresAt(q) => live[q.jti] = ExpiresAt(q)
  <2> SUFFICES ASSUME NEW q \in Proofs, accepted[q] > 0, clock < ExpiresAt(q)
               PROVE  live[q.jti] = ExpiresAt(q)
    OBVIOUS
  <2>1. entries[q.jti] = ExpiresAt(q)
    BY <1>1 DEF Remembered
  <2> QED
    BY <1>1, <1>2, <2>1
<1>5. CalledBefore' /\ OneCleaner'
  BY <1>1 DEF CalledBefore, OneCleaner, Waits
<1>6. live[p.jti] = Free => entries' = [live EXCEPT ![p.jti] = ExpiresAt(p)] /\ Accepts(p)
  BY DEF PresentToMemory
<1>7. live[p.jti] # Free => entries' = live /\ UNCHANGED accepted
  BY DEF PresentToMemory
<1> HIDE DEF live
<1>8. CASE live[p.jti] = Free
  <2>1. /\ accepted' = [accepted EXCEPT ![p] = accepted[p] + 1]
        /\ entries' = [live EXCEPT ![p.jti] = ExpiresAt(p)]
    BY <1>6, <1>8 DEF Accepts
  <2>2. ReplayTypeOK'
    BY <1>1, <1>2, <1>3, <2>1 DEF ReplayTypeOK
  <2>3. \A q \in Proofs : accepted[q] > 0 /\ q.jti = p.jti => clock >= ExpiresAt(q)
    BY <1>1, <1>2, <1>4, <1>8
  <2>4. \A q \in Proofs : q # p => accepted'[q] = accepted[q]
    BY <2>1 DEF ReplayTypeOK
  <2>5. Remembered'
    <3> SUFFICES ASSUME NEW q \in Proofs, accepted'[q] > 0, clock < ExpiresAt(q)
                 PROVE  entries'[q.jti] = ExpiresAt(q)
      BY <1>1 DEF Remembered
    <3>1. CASE q.jti = p.jti
      BY <1>1, <1>2, <1>3, <2>1, <2>3, <2>4, <3>1
    <3>2. CASE q.jti # p.jti
      BY <1>2, <1>3, <1>4, <2>1, <2>4, <3>2
    <3> QED
      BY <3>1, <3>2
  <2>6. ProofsAreSingleUse'
    <3> SUFFICES ASSUME NEW q \in Proofs, accepted'[q] > 1
                 PROVE  clock >= ExpiresAt(q) /\ Skew = 0
      BY <1>1 DEF ProofsAreSingleUse
    <3>1. CASE q = p
      <4>1. clock >= ExpiresAt(p)
        BY <1>2, <2>1, <2>3, <3>1 DEF ReplayTypeOK
      <4> QED
        BY <1>1, <1>2, <3>1, <4>1, ProofFacts
    <3>2. CASE q # p
      BY <1>1, <2>4, <3>2 DEF ProofsAreSingleUse
    <3> QED
      BY <3>1, <3>2
  <2> QED
    BY <1>5, <2>2, <2>5, <2>6
<1>9. CASE live[p.jti] # Free
  <2>1. entries' = live /\ UNCHANGED accepted
    BY <1>7, <1>9
  <2> QED
    BY <1>1, <1>3, <1>4, <1>5, <2>1 DEF ReplayTypeOK, Remembered, ProofsAreSingleUse
<1> QED
  BY <1>8, <1>9

LEMMA ClockTicksStep ==
  ASSUME ReplayInv, ClockTicks
  PROVE  ReplayInv'
<1> USE DEF ReplayInv
<1>1. /\ clock' = clock + 1 /\ clock < MaxClock /\ clock \in Nat
      /\ UNCHANGED <<store, entries, nextCleanup, cleaning, presenters, accepted>>
  BY DEF ClockTicks, ReplayTypeOK, Moments
<1>2. \A p \in Proofs : ExpiresAt(p) \in Nat
  BY ProofFacts
<1>3. ReplayTypeOK'
  BY <1>1 DEF ReplayTypeOK, Moments
<1>4. CalledBefore' /\ OneCleaner'
  <2>1. \A h \in Presenters : ~Waits(h, "idle") => presenters[h].began \in Nat
    BY HandlerFacts DEF Moments
  <2> QED
    BY <1>1, <2>1 DEF CalledBefore, OneCleaner, Waits
<1>5. Remembered' /\ ProofsAreSingleUse'
  BY <1>1, <1>2 DEF Remembered, ProofsAreSingleUse
<1> QED
  BY <1>3, <1>4, <1>5

-----------------------------------------------------------------------------
LEMMA ReplayStarts == ReplayInit => ReplayInv
BY DEF ReplayInit, ReplayInv, ReplayTypeOK, CalledBefore, Remembered, OneCleaner,
       ProofsAreSingleUse, Moments, Free, NotPresenting, Waits

LEMMA ReplayStays == ReplayInv /\ [ReplayNext]_replayVars => ReplayInv'
<1> SUFFICES ASSUME ReplayInv, [ReplayNext]_replayVars  PROVE ReplayInv'
  OBVIOUS
<1>1. ASSUME UNCHANGED replayVars  PROVE ReplayInv'
  BY <1>1 DEF replayVars, ReplayInv, ReplayTypeOK, CalledBefore, Remembered, OneCleaner,
              ProofsAreSingleUse, Waits
<1> QED
  BY <1>1, PresentStep, LockCleanupStep, CleanUpStep, CleanUpFailsStep, InsertStep,
     InsertFailsStep, ConfirmStep, PresentToMemoryStep, ClockTicksStep DEF ReplayNext

\* The inductive invariant.
THEOREM ReplayInvariant == ReplaySpec => []ReplayInv
BY ReplayStarts, ReplayStays, PTL DEF ReplaySpec

\* Every reachable state is well typed.
THEOREM ReplayTypeCorrect == ReplaySpec => []ReplayTypeOK
<1>1. ReplayInv => ReplayTypeOK
  BY DEF ReplayInv
<1> QED
  BY <1>1, ReplayInvariant, PTL

\* A proof is accepted a second time only after its entry expired: never in memory when
\* there is a skew, and in the shared store only from a handler that was suspended for
\* longer than the skew.
THEOREM SingleUse == ReplaySpec => []ProofsAreSingleUse
<1>1. ReplayInv => ProofsAreSingleUse
  BY DEF ReplayInv
<1> QED
  BY <1>1, ReplayInvariant, PTL

\* A worker's cleanups lie an interval apart.
THEOREM CleanupsAreRare == ReplaySpec => OneCleanupPerInterval
<1> DEFINE Rare == \A w \in Workers :
                      nextCleanup'[w] # nextCleanup[w] =>
                         nextCleanup'[w] >= nextCleanup[w] + CleanupInterval
<1>1. ReplayInv /\ [ReplayNext]_replayVars => Rare \/ UNCHANGED replayVars
  <2> SUFFICES ASSUME ReplayInv, [ReplayNext]_replayVars, NEW w \in Workers,
                      nextCleanup'[w] # nextCleanup[w]
               PROVE  nextCleanup'[w] >= nextCleanup[w] + CleanupInterval
    OBVIOUS
  <2> USE DEF ReplayInv
  <2>1. PICK h \in Presenters : CleanUp(h)
    BY DEF ReplayNext, replayVars, PresentToMemory, Present, LockCleanup, CleanUpFails, Insert,
           InsertFails, Confirm, ClockTicks
  <2>2. Waits(h, "clean") /\ ~Waits(h, "idle")
    BY <2>1 DEF CleanUp, Waits
  <2>3. presenters[h].began \in Nat
    BY <2>2, HandlerFacts DEF Moments
  <2>4. nextCleanup' = [nextCleanup EXCEPT
                          ![presenters[h].worker] = presenters[h].began + CleanupInterval]
    BY <2>1 DEF CleanUp
  <2>5. presenters[h].worker = w /\ nextCleanup'[w] = presenters[h].began + CleanupInterval
    BY <2>4 DEF ReplayTypeOK
  <2>6. presenters[h].began >= nextCleanup[w] /\ nextCleanup[w] \in Nat
    BY <2>2, <2>5 DEF OneCleaner, ReplayTypeOK
  <2> QED
    BY <2>3, <2>5, <2>6
<1> QED
  BY <1>1, ReplayInvariant, PTL DEF ReplaySpec, OneCleanupPerInterval

-----------------------------------------------------------------------------
(* A client whose metadata document was replaced is forgotten in time, and *)
(* no refresh goes back behind the document it found stored, for any       *)
(* number of requests, any refresh_ttl and any bound on a request's length.*)

USE MetadataAssumption

\* When document d was replaced.
Replaced(d) == d < MaxDocuments /\ Published(d + 1)
ReplacedAt(d) == publishedAt[d + 1]

\* Documents are published one after the other, none in the future.
PublishedInOrder ==
    /\ \A d \in Documents : Published(d) => publishedAt[d] <= moment
    /\ \A d, e \in Documents : e <= d /\ Published(d) => Published(e)

\* The stored document was stamped at most MaxRequest after it was replaced.
StoredInTime ==
    client # NoClient =>
       /\ Published(client.document) /\ client.updated <= moment
       /\ Replaced(client.document) =>
             client.updated <= ReplacedAt(client.document) + MaxRequest

\* What a request has found: no request is too long, and a document that it fetched was
\* replaced after it began.
Knows(x) ==
    /\ x.began <= moment /\ moment <= x.began + MaxRequest
    /\ x.stamp <= moment
    /\ x.seen # 0 => x.seen \in Documents /\ Published(x.seen)
    /\ x.pc \in {"response", "update", "create"} =>
          /\ x.document \in Documents /\ Published(x.document)
          /\ x.seen <= x.document
          /\ Replaced(x.document) => x.began <= ReplacedAt(x.document)
    /\ x.pc \in {"create", "find"} => x.seen = 0
    /\ x.pc = "find" => client # NoClient
    /\ x.pc # "answer" /\ x.seen = 0 /\ client # NoClient /\ Replaced(client.document) =>
          x.began <= ReplacedAt(client.document) + MaxRequest
    /\ x.pc = "answer" =>
          /\ x.document \in Documents /\ Published(x.document)
          /\ Replaced(x.document) =>
                x.began <= ReplacedAt(x.document) + RefreshTtl + MaxRequest

RequestsKnow == \A r \in Resolvers : ~Stands(r, "idle") => Knows(resolvers[r])

MetadataInv == MetadataTypeOK /\ PublishedInOrder /\ StoredInTime /\ RequestsKnow

-----------------------------------------------------------------------------
(* Documents and requests.                                                 *)

LEMMA Moment ==
  ASSUME MetadataTypeOK
  PROVE  /\ moment \in Nat
         /\ \A d \in Documents : d \in Nat /\ d # 0 /\ publishedAt[d] \in Nat
         /\ \A d \in Documents : d < MaxDocuments => d + 1 \in Documents
         /\ 0 \notin Documents
  BY DEF MetadataTypeOK, Now, Documents, NotYet

LEMMA NewestIsLast ==
  ASSUME MetadataInv, NEW d \in Documents, Newest(d)
  PROVE  /\ Published(d) /\ ~Replaced(d)
         /\ \A e \in Documents : Published(e) => e <= d
<1>1. Published(d) /\ ~Replaced(d)
  BY DEF Newest, Replaced
<1>2. \A e \in Documents : Published(e) => e <= d
  <2> SUFFICES ASSUME NEW e \in Documents, Published(e), ~(e <= d)
               PROVE  FALSE
    OBVIOUS
  <2>1. d + 1 \in Documents /\ d + 1 <= e
    BY DEF Documents
  <2>2. Published(d + 1)
    BY <2>1 DEF MetadataInv, PublishedInOrder
  <2> QED
    BY <1>1, <2>1, <2>2 DEF Replaced, Documents
<1> QED
  BY <1>1, <1>2

LEMMA RequestFacts ==
  ASSUME MetadataTypeOK, NEW r \in Resolvers, ~Stands(r, "idle")
  PROVE  /\ resolvers[r] \in Resolving
         /\ resolvers[r].began \in Nat /\ resolvers[r].stamp \in Now
         /\ resolvers[r].stamp \in Nat
         /\ resolvers[r].seen \in 0..MaxDocuments
         /\ resolvers[r].document \in 0..MaxDocuments
  BY DEF MetadataTypeOK, Stands, NotResolving, Resolving, Now

LEMMA OneRequest ==
  ASSUME MetadataTypeOK, NEW r \in Resolvers, NEW x \in Resolving \cup {NotResolving},
         resolvers' = [resolvers EXCEPT ![r] = x]
  PROVE  /\ resolvers' \in [Resolvers -> Resolving \cup {NotResolving}]
         /\ resolvers'[r] = x
         /\ \A q \in Resolvers : q # r => resolvers'[q] = resolvers[q]
  BY DEF MetadataTypeOK

LEMMA RequestEnds ==
  ASSUME MetadataTypeOK, NEW r \in Resolvers, Refuses(r)
  PROVE  /\ resolvers' \in [Resolvers -> Resolving \cup {NotResolving}]
         /\ resolvers'[r].pc = "idle"
         /\ \A q \in Resolvers : q # r => resolvers'[q] = resolvers[q]
  BY OneRequest DEF Refuses, NotResolving

LEMMA RequestAnswers ==
  ASSUME MetadataTypeOK, NEW r \in Resolvers, ~Stands(r, "idle"), NEW d \in Documents,
         Gives(r, d)
  PROVE  /\ resolvers' \in [Resolvers -> Resolving \cup {NotResolving}]
         /\ resolvers'[r].pc = "answer" /\ resolvers'[r].document = d
         /\ resolvers'[r].began = resolvers[r].began
         /\ resolvers'[r].stamp = resolvers[r].stamp
         /\ resolvers'[r].seen = resolvers[r].seen
         /\ \A q \in Resolvers : q # r => resolvers'[q] = resolvers[q]
<1> DEFINE x == [resolvers[r] EXCEPT !.pc = "answer", !.document = d]
<1>1. resolvers[r] \in Resolving /\ d \in 0..MaxDocuments
  BY RequestFacts DEF Documents
<1>2. /\ x \in Resolving /\ x.pc = "answer" /\ x.document = d
      /\ x.began = resolvers[r].began /\ x.stamp = resolvers[r].stamp
      /\ x.seen = resolvers[r].seen
  BY <1>1 DEF Resolving
<1>3. resolvers' = [resolvers EXCEPT ![r] = x]
  BY DEF Gives, MetadataTypeOK
<1> HIDE DEF x
<1> QED
  BY <1>2, <1>3, OneRequest

-----------------------------------------------------------------------------
(* The steps that write no table.                                          *)

\* A request that moves on alone.
LEMMA RequestMovesOn ==
  ASSUME MetadataInv, NEW r \in Resolvers,
         resolvers' \in [Resolvers -> Resolving \cup {NotResolving}],
         \A q \in Resolvers : q # r => resolvers'[q] = resolvers[q],
         NEW x, x = resolvers'[r], x.pc # "idle" => Knows(x),
         UNCHANGED <<moment, publishedAt, client>>
  PROVE  MetadataInv'
<1> USE DEF MetadataInv
<1>1. MetadataTypeOK'
  BY DEF MetadataTypeOK
<1>2. PublishedInOrder' /\ StoredInTime'
  BY DEF PublishedInOrder, StoredInTime, Published, Replaced, ReplacedAt
<1>3. RequestsKnow'
  BY DEF RequestsKnow, Stands, Knows, Published, Replaced, ReplacedAt
<1> QED
  BY <1>1, <1>2, <1>3

LEMMA ResolveClientStep ==
  ASSUME MetadataInv, NEW r \in Resolvers, ResolveClient(r)
  PROVE  MetadataInv'
<1> DEFINE stale == client = NoClient \/ IsStale(client)
           x == [pc |-> IF stale THEN "fetch" ELSE "answer", began |-> moment,
                 seen |-> client.document, document |-> client.document, stamp |-> 0]
<1> USE DEF MetadataInv
<1>1. resolvers' = [resolvers EXCEPT ![r] = x] /\ UNCHANGED <<moment, publishedAt, client>>
  BY DEF ResolveClient
<1>2. /\ moment \in Now /\ moment \in Nat /\ 0 \in Now
      /\ client.document \in 0..MaxDocuments
      /\ client # NoClient => client.document \in Documents /\ client.updated \in Nat
      /\ client = NoClient => client.document = 0
  BY DEF MetadataTypeOK, ClientRow, NoClient, Now, Documents
<1>3. /\ x \in Resolving /\ x.began = moment /\ x.stamp = 0
      /\ x.seen = client.document /\ x.document = client.document
      /\ stale => x.pc = "fetch"
      /\ ~stale => x.pc = "answer"
  BY <1>2 DEF Resolving
<1> HIDE DEF x
<1>4. /\ resolvers' \in [Resolvers -> Resolving \cup {NotResolving}]
      /\ resolvers'[r] = x
      /\ \A q \in Resolvers : q # r => resolvers'[q] = resolvers[q]
  BY <1>1, <1>3, OneRequest
<1>5. /\ moment <= moment + MaxRequest
      /\ client # NoClient => Published(client.document)
      /\ 0 \notin Documents
  BY <1>2, Moment DEF StoredInTime
<1>6. CASE stale
  <2>1. Knows(x)
    BY <1>2, <1>3, <1>5, <1>6 DEF Knows
  <2> QED
    BY <1>1, <1>4, <2>1, RequestMovesOn
<1>7. CASE ~stale
  <2>1. moment < client.updated + RefreshTtl /\ client # NoClient
    BY <1>2, <1>7 DEF IsStale
  <2>2. Replaced(client.document) =>
           /\ ReplacedAt(client.document) \in Nat
           /\ client.updated <= ReplacedAt(client.document) + MaxRequest
    BY <1>2, <2>1, Moment DEF StoredInTime, Replaced, ReplacedAt
  <2>3. Knows(x)
    BY <1>2, <1>3, <1>5, <1>7, <2>1, <2>2 DEF Knows
  <2> QED
    BY <1>1, <1>4, <2>3, RequestMovesOn
<1> QED
  BY <1>6, <1>7

LEMMA RespondStep ==
  ASSUME MetadataInv, NEW r \in Resolvers, Respond(r)
  PROVE  MetadataInv'
<1> USE DEF MetadataInv
<1>1. /\ Stands(r, "fetch") /\ ~Stands(r, "idle")
      /\ UNCHANGED <<moment, publishedAt, client>>
  BY DEF Respond, Stands
<1>2. PICK d \in Documents :
         /\ Newest(d)
         /\ resolvers' = [resolvers EXCEPT ![r].pc = "response", ![r].document = d]
  BY DEF Respond
<1> DEFINE x == [resolvers[r] EXCEPT !.pc = "response", !.document = d]
<1>3. resolvers[r] \in Resolving /\ d \in 0..MaxDocuments /\ Knows(resolvers[r])
  BY <1>1, RequestFacts DEF Documents, RequestsKnow
<1>4. /\ x \in Resolving /\ x.pc = "response" /\ x.document = d
      /\ x.began = resolvers[r].began /\ x.stamp = resolvers[r].stamp
      /\ x.seen = resolvers[r].seen
  BY <1>3 DEF Resolving
<1>5. resolvers' = [resolvers EXCEPT ![r] = x]
  BY <1>2 DEF MetadataTypeOK
<1> HIDE DEF x
<1>6. /\ resolvers' \in [Resolvers -> Resolving \cup {NotResolving}]
      /\ resolvers'[r] = x
      /\ \A q \in Resolvers : q # r => resolvers'[q] = resolvers[q]
  BY <1>4, <1>5, OneRequest
<1>7. x.seen <= d /\ Published(d) /\ ~Replaced(d)
  <2>1. x.seen = 0 \/ (x.seen \in Documents /\ Published(x.seen))
    BY <1>3, <1>4 DEF Knows
  <2> QED
    BY <1>2, <2>1, NewestIsLast DEF Documents
<1>8. Knows(x)
  BY <1>1, <1>3, <1>4, <1>7 DEF Knows, Stands
<1> QED
  BY <1>1, <1>6, <1>8, RequestMovesOn

LEMMA StampStep ==
  ASSUME MetadataInv, NEW r \in Resolvers, Stamp(r)
  PROVE  MetadataInv'
<1> DEFINE label == IF resolvers[r].seen = 0 THEN "create" ELSE "update"
           x == [resolvers[r] EXCEPT !.pc = label, !.stamp = moment]
<1> USE DEF MetadataInv
<1>1. /\ Stands(r, "response") /\ ~Stands(r, "idle")
      /\ UNCHANGED <<moment, publishedAt, client>>
  BY DEF Stamp, Stands
<1>2. resolvers[r] \in Resolving /\ moment \in Now /\ moment \in Nat /\ Knows(resolvers[r])
  BY <1>1, RequestFacts DEF MetadataTypeOK, Now, RequestsKnow
<1>3. /\ x \in Resolving /\ x.pc \in {"create", "update"} /\ x.stamp = moment
      /\ x.pc = "create" => x.seen = 0
      /\ x.began = resolvers[r].began /\ x.document = resolvers[r].document
      /\ x.seen = resolvers[r].seen
  BY <1>2 DEF Resolving
<1>4. resolvers' = [resolvers EXCEPT ![r] = x]
  BY DEF Stamp, MetadataTypeOK
<1> HIDE DEF x
<1>5. /\ resolvers' \in [Resolvers -> Resolving \cup {NotResolving}]
      /\ resolvers'[r] = x
      /\ \A q \in Resolvers : q # r => resolvers'[q] = resolvers[q]
  BY <1>3, <1>4, OneRequest
<1>6. Knows(x)
  BY <1>1, <1>2, <1>3 DEF Knows, Stands
<1> QED
  BY <1>1, <1>5, <1>6, RequestMovesOn

LEMMA CreateClientFailsStep ==
  ASSUME MetadataInv, NEW r \in Resolvers, CreateClientFails(r)
  PROVE  MetadataInv'
<1> DEFINE x == [resolvers[r] EXCEPT !.pc = "find"]
<1> USE DEF MetadataInv
<1>1. /\ Stands(r, "create") /\ ~Stands(r, "idle") /\ client # NoClient
      /\ UNCHANGED <<moment, publishedAt, client>>
  BY DEF CreateClientFails, Stands
<1>2. resolvers[r] \in Resolving /\ Knows(resolvers[r])
  BY <1>1, RequestFacts DEF RequestsKnow
<1>3. /\ x \in Resolving /\ x.pc = "find"
      /\ x.began = resolvers[r].began /\ x.document = resolvers[r].document
      /\ x.seen = resolvers[r].seen /\ x.stamp = resolvers[r].stamp
  BY <1>2 DEF Resolving
<1>4. resolvers' = [resolvers EXCEPT ![r] = x]
  BY DEF CreateClientFails, MetadataTypeOK
<1> HIDE DEF x
<1>5. /\ resolvers' \in [Resolvers -> Resolving \cup {NotResolving}]
      /\ resolvers'[r] = x
      /\ \A q \in Resolvers : q # r => resolvers'[q] = resolvers[q]
  BY <1>3, <1>4, OneRequest
<1>6. Knows(x)
  BY <1>1, <1>2, <1>3 DEF Knows, Stands
<1> QED
  BY <1>1, <1>5, <1>6, RequestMovesOn

\* The row it finds was written while it ran.
LEMMA FindConcurrentStep ==
  ASSUME MetadataInv, NEW r \in Resolvers, FindConcurrent(r)
  PROVE  MetadataInv'
<1> USE DEF MetadataInv
<1>1. /\ Stands(r, "find") /\ ~Stands(r, "idle") /\ Gives(r, client.document)
      /\ UNCHANGED <<moment, publishedAt, client>>
  BY DEF FindConcurrent, Stands
<1>2. Knows(resolvers[r]) /\ resolvers[r].began \in Nat /\ client # NoClient
      /\ resolvers[r].seen = 0
  BY <1>1, RequestFacts DEF RequestsKnow, Knows, Stands
<1>3. client.document \in Documents /\ Published(client.document)
  BY <1>2 DEF StoredInTime, MetadataTypeOK, ClientRow
<1>4. PICK d \in Documents : d = client.document
  BY <1>3
<1>5. /\ resolvers' \in [Resolvers -> Resolving \cup {NotResolving}]
      /\ resolvers'[r].pc = "answer" /\ resolvers'[r].document = d
      /\ resolvers'[r].began = resolvers[r].began
      /\ resolvers'[r].stamp = resolvers[r].stamp
      /\ resolvers'[r].seen = resolvers[r].seen
      /\ \A q \in Resolvers : q # r => resolvers'[q] = resolvers[q]
  BY <1>1, <1>4, RequestAnswers
<1>6. PICK x : x = resolvers'[r]
  OBVIOUS
<1>7. Replaced(d) => /\ ReplacedAt(d) \in Nat
                     /\ x.began <= ReplacedAt(d) + MaxRequest
  BY <1>1, <1>2, <1>4, <1>5, <1>6, Moment DEF Knows, Stands, Replaced, ReplacedAt
<1>8. Replaced(d) => x.began <= ReplacedAt(d) + RefreshTtl + MaxRequest
  BY <1>2, <1>5, <1>6, <1>7
<1>9. Knows(x)
  BY <1>1, <1>2, <1>3, <1>4, <1>5, <1>6, <1>8 DEF Knows, Stands
<1> QED
  BY <1>1, <1>5, <1>6, <1>9, RequestMovesOn

LEMMA EndStep ==
  ASSUME MetadataInv, NEW r \in Resolvers, FetchFails(r) \/ ResolveFails(r) \/ Authorized(r)
  PROVE  MetadataInv'
<1>1. Refuses(r) /\ UNCHANGED <<moment, publishedAt, client>>
  BY DEF FetchFails, ResolveFails, Authorized
<1>2. PICK x : x = resolvers'[r]
  OBVIOUS
<1> QED
  BY <1>1, <1>2, RequestEnds, RequestMovesOn DEF MetadataInv

-----------------------------------------------------------------------------
(* The steps that write the row.                                           *)

\* The document written was replaced after the request began, which is not long ago.
LEMMA WriteStep ==
  ASSUME MetadataInv, NEW r \in Resolvers, UpdateClient(r) \/ CreateClient(r)
  PROVE  MetadataInv'
<1> DEFINE row == [document |-> resolvers[r].document, updated |-> resolvers[r].stamp]
<1> USE DEF MetadataInv
<1>1. /\ Stands(r, "update") \/ Stands(r, "create")
      /\ ~Stands(r, "idle")
      /\ client' = row /\ Gives(r, resolvers[r].document)
      /\ UNCHANGED <<moment, publishedAt>>
  BY DEF UpdateClient, CreateClient, Stands
<1>2. /\ Knows(resolvers[r]) /\ resolvers[r].began \in Nat /\ moment \in Nat
      /\ resolvers[r].stamp \in Now /\ resolvers[r].stamp \in Nat
  BY <1>1, RequestFacts, Moment DEF RequestsKnow
<1>3. PICK d \in Documents : d = resolvers[r].document
  BY <1>1, <1>2 DEF Knows, Stands
<1>4. /\ Published(d) /\ resolvers[r].stamp <= moment
      /\ moment <= resolvers[r].began + MaxRequest
      /\ Replaced(d) => ReplacedAt(d) \in Nat /\ resolvers[r].began <= ReplacedAt(d)
  BY <1>1, <1>2, <1>3, Moment DEF Knows, Stands, Replaced, ReplacedAt
<1>5. /\ resolvers' \in [Resolvers -> Resolving \cup {NotResolving}]
      /\ resolvers'[r].pc = "answer" /\ resolvers'[r].document = d
      /\ resolvers'[r].began = resolvers[r].began
      /\ resolvers'[r].stamp = resolvers[r].stamp
      /\ resolvers'[r].seen = resolvers[r].seen
      /\ \A q \in Resolvers : q # r => resolvers'[q] = resolvers[q]
  BY <1>1, <1>3, RequestAnswers
<1>6. /\ client' \in ClientRow /\ client'.document = d
      /\ client'.updated = resolvers[r].stamp
  BY <1>1, <1>2, <1>3 DEF ClientRow
<1>7. client' # NoClient
  BY <1>6, Moment DEF NoClient
<1>8. /\ \A e : Published(e)' <=> Published(e)
      /\ \A e : Replaced(e)' <=> Replaced(e)
      /\ \A e : ReplacedAt(e)' = ReplacedAt(e)
  BY <1>1 DEF Published, Replaced, ReplacedAt
<1>9. MetadataTypeOK'
  BY <1>1, <1>5, <1>6 DEF MetadataTypeOK
<1>10. PublishedInOrder'
  BY <1>1 DEF PublishedInOrder, Published
<1>11. StoredInTime'
  BY <1>1, <1>2, <1>4, <1>6, <1>8 DEF StoredInTime
<1>12. RequestsKnow'
  <2> SUFFICES ASSUME NEW q \in Resolvers, ~Stands(q, "idle")'
               PROVE  Knows(resolvers[q])'
    BY DEF RequestsKnow
  <2>1. CASE q = r
    <3>1. Replaced(d) => resolvers[r].began <= ReplacedAt(d) + RefreshTtl + MaxRequest
      BY <1>2, <1>4
    <3> QED
      BY <1>1, <1>2, <1>4, <1>5, <1>8, <2>1, <3>1 DEF Knows
  <2>2. CASE q # r
    <3>1. resolvers'[q] = resolvers[q] /\ Knows(resolvers[q]) /\ resolvers[q].began \in Nat
      BY <1>5, <2>2, RequestFacts DEF RequestsKnow, Stands
    <3>2. Replaced(d) => resolvers[q].began <= ReplacedAt(d) + MaxRequest
      BY <1>2, <1>4, <3>1 DEF Knows
    <3> QED
      BY <1>1, <1>6, <1>7, <1>8, <3>1, <3>2 DEF Knows
  <2> QED
    BY <2>1, <2>2
<1> QED
  BY <1>9, <1>10, <1>11, <1>12

-----------------------------------------------------------------------------
(* The world outside.                                                      *)

\* A document is replaced now: no request and no stamp is from the future.
LEMMA PublishStep ==
  ASSUME MetadataInv, NEW d \in Documents, Publish(d)
  PROVE  MetadataInv'
<1> USE DEF MetadataInv
<1>1. /\ Newest(d) /\ d < MaxDocuments /\ d + 1 \in Documents
      /\ publishedAt' = [publishedAt EXCEPT ![d + 1] = moment]
      /\ UNCHANGED <<moment, client, resolvers>>
      /\ moment \in Now /\ moment \in Nat /\ moment # NotYet /\ NotYet \in Nat
  BY Moment DEF Publish, MetadataTypeOK, Now, NotYet
<1>2. Published(d) /\ ~Replaced(d) /\ \A e \in Documents : Published(e) => e <= d
  BY <1>1, NewestIsLast
<1>3. publishedAt'[d + 1] = moment /\ \A e \in Documents : e # d + 1 => publishedAt'[e] = publishedAt[e]
  BY <1>1 DEF MetadataTypeOK
<1>4. /\ \A e \in Documents : Published(e) => Published(e)'
      /\ \A e \in Documents : Published(e)' => Published(e) \/ e = d + 1
      /\ Published(d + 1)'
  BY <1>1, <1>3 DEF Published
<1>5. MetadataTypeOK'
  BY <1>1 DEF MetadataTypeOK
<1>6. PublishedInOrder'
  <2>1. \A e \in Documents : Published(e)' => publishedAt'[e] <= moment
    BY <1>1, <1>3, <1>4 DEF PublishedInOrder
  <2>2. \A e, f \in Documents : f <= e /\ Published(e)' => Published(f)'
    <3> SUFFICES ASSUME NEW e \in Documents, NEW f \in Documents, f <= e, Published(e)'
                 PROVE  Published(f)'
      OBVIOUS
    <3>1. CASE f = d + 1
      BY <1>4, <3>1
    <3>2. CASE f # d + 1 /\ e = d + 1
      BY <1>2, <1>4, <3>2, Moment DEF PublishedInOrder, Documents
    <3>3. CASE f # d + 1 /\ e # d + 1
      BY <1>4, <3>3 DEF PublishedInOrder
    <3> QED
      BY <3>1, <3>2, <3>3
  <2> QED
    BY <1>1, <2>1, <2>2 DEF PublishedInOrder
<1>7. \A e \in Documents : Published(e) /\ Replaced(e)' =>
         \/ Replaced(e) /\ ReplacedAt(e)' = ReplacedAt(e)
         \/ ReplacedAt(e)' = moment
  <2> SUFFICES ASSUME NEW e \in Documents, Replaced(e)'
               PROVE  \/ Replaced(e) /\ ReplacedAt(e)' = ReplacedAt(e)
                      \/ ReplacedAt(e)' = moment
    OBVIOUS
  <2>1. e < MaxDocuments /\ e + 1 \in Documents /\ Published(e + 1)'
    BY Moment DEF Replaced
  <2>2. CASE e + 1 = d + 1
    BY <1>3, <2>2 DEF ReplacedAt
  <2>3. CASE e + 1 # d + 1
    BY <1>3, <2>1, <2>3 DEF Replaced, ReplacedAt, Published
  <2> QED
    BY <2>2, <2>3
<1>8. StoredInTime'
  <2> SUFFICES ASSUME client # NoClient
               PROVE  /\ Published(client.document)' /\ client.updated <= moment
                      /\ Replaced(client.document)' =>
                            client.updated <= ReplacedAt(client.document)' + MaxRequest
    BY <1>1 DEF StoredInTime
  <2>1. client.document \in Documents /\ client.updated \in Nat
    BY DEF MetadataTypeOK, ClientRow, Now
  <2> QED
    BY <1>1, <1>4, <1>7, <2>1 DEF StoredInTime
<1>9. RequestsKnow'
  <2> SUFFICES ASSUME NEW r \in Resolvers, ~Stands(r, "idle")
               PROVE  Knows(resolvers[r])'
    BY <1>1 DEF RequestsKnow, Stands
  <2>1. Knows(resolvers[r]) /\ resolvers[r].began \in Nat
    BY RequestFacts DEF RequestsKnow
  <2>2. PICK x : x = resolvers[r]
    OBVIOUS
  <2>3. client # NoClient => client.document \in Documents /\ Published(client.document)
    BY DEF MetadataTypeOK, ClientRow, StoredInTime
  <2>4. /\ x.began <= moment /\ moment <= x.began + MaxRequest /\ x.stamp <= moment
        /\ x.seen # 0 => x.seen \in Documents /\ Published(x.seen)'
        /\ x.pc \in {"create", "find"} => x.seen = 0
        /\ x.pc = "find" => client # NoClient
    BY <1>4, <2>1, <2>2 DEF Knows
  <2>5. x.pc \in {"response", "update", "create"} =>
           /\ x.document \in Documents /\ Published(x.document)'
           /\ x.seen <= x.document
           /\ Replaced(x.document)' => x.began <= ReplacedAt(x.document)'
    BY <1>4, <1>7, <2>1, <2>2 DEF Knows
  <2>6. x.pc # "answer" /\ x.seen = 0 /\ client # NoClient /\ Replaced(client.document)' =>
           x.began <= ReplacedAt(client.document)' + MaxRequest
    BY <1>1, <1>7, <2>1, <2>2, <2>3, <2>4 DEF Knows
  <2>7. x.pc = "answer" =>
           /\ x.document \in Documents /\ Published(x.document)'
           /\ Replaced(x.document)' =>
                 x.began <= ReplacedAt(x.document)' + RefreshTtl + MaxRequest
    BY <1>1, <1>4, <1>7, <2>1, <2>2, <2>4 DEF Knows
  <2> QED
    BY <1>1, <2>2, <2>4, <2>5, <2>6, <2>7 DEF Knows
<1> QED
  BY <1>5, <1>6, <1>8, <1>9

LEMMA TimePassesStep ==
  ASSUME MetadataInv, TimePasses
  PROVE  MetadataInv'
<1> USE DEF MetadataInv
<1>1. /\ moment' = moment + 1 /\ moment < MaxMoment /\ moment \in Nat
      /\ UNCHANGED <<publishedAt, client, resolvers>>
  BY Moment DEF TimePasses
<1>2. MetadataTypeOK'
  BY <1>1 DEF MetadataTypeOK, Now
<1>3. PublishedInOrder'
  BY <1>1, Moment DEF PublishedInOrder, Published
<1>4. StoredInTime'
  <2>1. client # NoClient => client.updated \in Nat
    BY DEF MetadataTypeOK, ClientRow, Now
  <2> QED
    BY <1>1, <2>1 DEF StoredInTime, Published, Replaced, ReplacedAt
<1>5. RequestsKnow'
  <2> SUFFICES ASSUME NEW r \in Resolvers, ~Stands(r, "idle")
               PROVE  Knows(resolvers[r])'
    BY <1>1 DEF RequestsKnow, Stands
  <2>1. /\ Knows(resolvers[r])
        /\ resolvers[r].began \in Nat /\ resolvers[r].stamp \in Nat
        /\ moment < resolvers[r].began + MaxRequest
    BY RequestFacts DEF RequestsKnow, TimePasses
  <2>2. moment' <= resolvers[r].began + MaxRequest
    BY <1>1, <2>1
  <2>3. resolvers[r].began <= moment' /\ resolvers[r].stamp <= moment'
    BY <1>1, <2>1 DEF Knows
  <2> QED
    BY <1>1, <2>1, <2>2, <2>3 DEF Knows, Published, Replaced, ReplacedAt
<1> QED
  BY <1>2, <1>3, <1>4, <1>5

-----------------------------------------------------------------------------
LEMMA MetadataStarts == MetadataInit => MetadataInv
<1> SUFFICES ASSUME MetadataInit  PROVE MetadataInv
  OBVIOUS
<1>1. MetadataTypeOK
  BY DEF MetadataInit, MetadataTypeOK, Now, NotYet, Documents
<1>2. PublishedInOrder
  BY DEF MetadataInit, PublishedInOrder, Published, Documents, NotYet
<1>3. StoredInTime /\ RequestsKnow
  BY DEF MetadataInit, StoredInTime, RequestsKnow, Stands, NotResolving
<1> QED
  BY <1>1, <1>2, <1>3 DEF MetadataInv

LEMMA MetadataStays == MetadataInv /\ [MetadataNext]_metadataVars => MetadataInv'
<1> SUFFICES ASSUME MetadataInv, [MetadataNext]_metadataVars  PROVE MetadataInv'
  OBVIOUS
<1>1. ASSUME UNCHANGED metadataVars  PROVE MetadataInv'
  BY <1>1 DEF metadataVars, MetadataInv, MetadataTypeOK, PublishedInOrder, StoredInTime,
              RequestsKnow, Stands, Knows, Published, Replaced, ReplacedAt
<1> QED
  BY <1>1, ResolveClientStep, RespondStep, StampStep, CreateClientFailsStep,
     FindConcurrentStep, EndStep, WriteStep, PublishStep, TimePassesStep DEF MetadataNext

\* The inductive invariant.
THEOREM MetadataInvariant == MetadataSpec => []MetadataInv
BY MetadataStarts, MetadataStays, PTL DEF MetadataSpec

\* Every reachable state is well typed.
THEOREM MetadataTypeCorrect == MetadataSpec => []MetadataTypeOK
<1>1. MetadataInv => MetadataTypeOK
  BY DEF MetadataInv
<1> QED
  BY <1>1, MetadataInvariant, PTL

\* A request that began later than refresh_ttl and the longest request after a document
\* was replaced does not authorize by it.
THEOREM ReplacedDocumentsExpire == MetadataSpec => []SupersededIsForgotten
<1>1. MetadataInv => SupersededIsForgotten
  <2> SUFFICES ASSUME MetadataInv, NEW r \in Resolvers, Stands(r, "answer"),
                      ~Newest(resolvers[r].document)
               PROVE  resolvers[r].began
                         <= publishedAt[resolvers[r].document + 1] + RefreshTtl + MaxRequest
    BY DEF SupersededIsForgotten
  <2>1. Knows(resolvers[r])
    BY DEF MetadataInv, RequestsKnow, Stands
  <2> QED
    BY <2>1 DEF Knows, Stands, Newest, Replaced, ReplacedAt
<1> QED
  BY <1>1, MetadataInvariant, PTL

\* No refresh stores a document older than the one its request found stored.
THEOREM RefreshesGoForward == MetadataSpec => NeverOlderThanRead
<1> DEFINE Forward == \A r \in Resolvers :
                         Stands(r, "update") /\ client' # client
                         /\ resolvers'[r] # resolvers[r] =>
                            client'.document >= resolvers[r].seen
<1>1. MetadataInv /\ [MetadataNext]_metadataVars => Forward \/ UNCHANGED metadataVars
  <2> SUFFICES ASSUME MetadataInv, [MetadataNext]_metadataVars, NEW r \in Resolvers,
                      Stands(r, "update"), client' # client, resolvers'[r] # resolvers[r]
               PROVE  client'.document >= resolvers[r].seen
    OBVIOUS
  <2>1. PICK q \in Resolvers : UpdateClient(q) \/ CreateClient(q)
    BY DEF MetadataNext, metadataVars, Publish, ResolveClient, Respond, FetchFails, Stamp,
           CreateClientFails, FindConcurrent, ResolveFails, Authorized, TimePasses
  <2>2. q = r
    BY <2>1 DEF UpdateClient, CreateClient, Gives, MetadataInv, MetadataTypeOK
  <2>3. client'.document = resolvers[r].document
    BY <2>1, <2>2 DEF UpdateClient, CreateClient
  <2>4. Knows(resolvers[r]) /\ resolvers[r].document \in 0..MaxDocuments
        /\ resolvers[r].seen \in 0..MaxDocuments
    BY RequestFacts DEF MetadataInv, RequestsKnow, Stands
  <2>5. resolvers[r].seen <= resolvers[r].document
    BY <2>4 DEF Knows, Stands
  <2> QED
    BY <2>3, <2>4, <2>5
<1> QED
  BY <1>1, MetadataInvariant, PTL DEF MetadataSpec, NeverOlderThanRead

-----------------------------------------------------------------------------
(* One Auth serves every request, for any number of callers and whichever  *)
(* factory calls fail.                                                     *)

\* The lock is handed over in order: nobody is at it twice, and only its head has called
\* the factory.
LockInOrder ==
    /\ \A i \in DOMAIN lock : callers[lock[i]] # "idle"
    /\ \A i, j \in DOMAIN lock : lock[i] = lock[j] => i = j
    /\ \A c \in Callers : callers[c] = "create" => HoldsLock(c)

LazyInv == LazyTypeOK /\ LockInOrder /\ OneAuth

LEMMA LockIsSequence ==
  ASSUME LazyTypeOK
  PROVE  /\ Len(lock) \in Nat /\ DOMAIN lock = 1..Len(lock)
         /\ \A i \in DOMAIN lock : lock[i] \in Callers
BY DEF LazyTypeOK

\* A caller joins the end of the queue.
LEMMA LockJoined ==
  ASSUME LazyInv, NEW c \in Callers, callers[c] = "idle", Goes(c, "wait"),
         lock' = Append(lock, c)
  PROVE  lock' \in Seq(Callers) /\ LockInOrder'
<1> USE DEF LazyInv
<1>1. /\ lock' \in Seq(Callers)
      /\ DOMAIN lock' = 1..(Len(lock) + 1)
      /\ \A i \in DOMAIN lock' : lock'[i] = IF i = Len(lock) + 1 THEN c ELSE lock[i]
  BY DEF LazyTypeOK
<1>2. \A d \in Callers : callers'[d] = IF d = c THEN "wait" ELSE callers[d]
  BY DEF Goes, LazyTypeOK
<1>3. \A i \in DOMAIN lock : lock[i] # c
  BY DEF LockInOrder
<1>4. \A i \in DOMAIN lock' : callers'[lock'[i]] # "idle"
  BY <1>1, <1>2, <1>3, LockIsSequence DEF LockInOrder
<1>5. \A i, j \in DOMAIN lock' : lock'[i] = lock'[j] => i = j
  BY <1>1, <1>3, LockIsSequence DEF LockInOrder
<1>6. ASSUME NEW d \in Callers, callers'[d] = "create"  PROVE HoldsLock(d)'
  <2>1. callers[d] = "create"
    BY <1>2, <1>6
  <2>2. lock # <<>> /\ Head(lock) = d
    BY <2>1 DEF LockInOrder, HoldsLock
  <2> QED
    BY <2>2, LockIsSequence DEF HoldsLock, LazyTypeOK
<1> QED
  BY <1>1, <1>4, <1>5, <1>6 DEF LockInOrder

\* Its head leaves, idle; the others have not moved.
LEMMA LockReleased ==
  ASSUME LazyInv, NEW c \in Callers, HoldsLock(c), Goes(c, "idle"), lock' = Tail(lock)
  PROVE  /\ lock' \in Seq(Callers) /\ LockInOrder'
         /\ \A d \in Callers : callers'[d] # "create"
<1> USE DEF LazyInv
<1>1. lock # <<>> /\ lock[1] = c
  BY DEF HoldsLock, LazyTypeOK
<1>2. /\ lock' \in Seq(Callers)
      /\ DOMAIN lock' = 1..(Len(lock) - 1)
      /\ \A i \in DOMAIN lock' : lock'[i] = lock[i + 1]
  BY <1>1 DEF LazyTypeOK
<1>3. \A d \in Callers : callers'[d] = IF d = c THEN "idle" ELSE callers[d]
  BY DEF Goes, LazyTypeOK
<1>4. 1 \in DOMAIN lock /\ \A i \in DOMAIN lock' : i + 1 \in DOMAIN lock /\ i + 1 # 1
  BY <1>1, <1>2, LockIsSequence DEF LazyTypeOK
<1>5. \A i \in DOMAIN lock' : lock[i + 1] # c
  BY <1>1, <1>4 DEF LockInOrder
<1>6. \A i \in DOMAIN lock' : callers'[lock'[i]] # "idle"
  BY <1>2, <1>3, <1>4, <1>5, LockIsSequence DEF LockInOrder
<1>7. \A i, j \in DOMAIN lock' : lock'[i] = lock'[j] => i = j
  <2> SUFFICES ASSUME NEW i \in DOMAIN lock', NEW j \in DOMAIN lock', lock'[i] = lock'[j]
               PROVE  i = j
    OBVIOUS
  <2>1. i + 1 = j + 1
    BY <1>2, <1>4 DEF LockInOrder
  <2> QED
    BY <1>2, <2>1, LockIsSequence
<1>8. \A d \in Callers : callers'[d] # "create"
  BY <1>3 DEF LockInOrder, HoldsLock
<1> QED
  BY <1>2, <1>6, <1>7, <1>8 DEF LockInOrder

LEMMA LazyStarts == LazyInit => LazyInv
BY DEF LazyInit, LazyInv, LazyTypeOK, LockInOrder, OneAuth

LEMMA LazyStays == LazyInv /\ [LazyNext]_lazyVars => LazyInv'
<1> SUFFICES ASSUME LazyInv, [LazyNext]_lazyVars  PROVE LazyInv'
  OBVIOUS
<1> USE DEF LazyInv
<1>1. ASSUME NEW c \in Callers, NEW label \in {"idle", "wait", "create"}, Goes(c, label)
      PROVE  /\ callers' \in [Callers -> {"idle", "wait", "create"}]
             /\ \A d \in Callers : callers'[d] = IF d = c THEN label ELSE callers[d]
  BY <1>1 DEF Goes, LazyTypeOK
<1>2. ASSUME NEW c \in Callers, Get(c)  PROVE LazyInv'
  <2>1. CASE cached # NoAuth
    <3>1. UNCHANGED <<lock, callers, cached>> /\ served' = served \cup {cached}
      BY <1>2, <2>1 DEF Get, Serve
    <3> QED
      BY <2>1, <3>1 DEF LazyTypeOK, LockInOrder, HoldsLock, OneAuth
  <2>2. CASE cached = NoAuth
    <3>1. /\ callers[c] = "idle" /\ Goes(c, "wait") /\ lock' = Append(lock, c)
          /\ UNCHANGED <<cached, served>>
      BY <1>2, <2>2 DEF Get
    <3>2. lock' \in Seq(Callers) /\ LockInOrder'
      BY <3>1, LockJoined
    <3> QED
      BY <1>1, <3>1, <3>2 DEF LazyTypeOK, OneAuth
  <2> QED
    BY <2>1, <2>2
<1>3. ASSUME NEW c \in Callers, EnterLock(c)  PROVE LazyInv'
  <2>1. CASE cached = NoAuth
    <3>1. /\ callers[c] = "wait" /\ HoldsLock(c) /\ Goes(c, "create")
          /\ UNCHANGED <<cached, lock, served>>
      BY <1>3, <2>1 DEF EnterLock
    <3>2. \A d \in Callers : callers'[d] = "create" => d = c
      BY <1>1, <3>1 DEF LockInOrder, HoldsLock
    <3>3. LockInOrder'
      <4>1. \A i \in DOMAIN lock : callers'[lock[i]] # "idle"
        BY <1>1, <3>1, LockIsSequence DEF LockInOrder
      <4> QED
        BY <3>1, <3>2, <4>1 DEF LockInOrder, HoldsLock
    <3> QED
      BY <1>1, <2>1, <3>1, <3>2, <3>3 DEF LazyTypeOK, OneAuth
  <2>2. CASE cached # NoAuth
    <3>1. /\ HoldsLock(c) /\ Goes(c, "idle") /\ lock' = Tail(lock)
          /\ served' = served \cup {cached}
          /\ UNCHANGED cached
      BY <1>3, <2>2 DEF EnterLock, Serve
    <3> QED
      BY <1>1, <2>2, <3>1, LockReleased DEF LazyTypeOK, OneAuth
  <2> QED
    BY <2>1, <2>2
<1>4. ASSUME NEW c \in Callers, Create(c)  PROVE LazyInv'
  <2>1. /\ HoldsLock(c) /\ cached = NoAuth
    BY <1>4 DEF Create, LockInOrder, OneAuth
  <2>2. served = {}
    BY <2>1, LazyAssumption DEF LazyTypeOK, OneAuth
  <2> QED
    BY <1>1, <1>4, <2>1, <2>2, LockReleased DEF Create, Serve, LazyTypeOK, OneAuth
<1>5. ASSUME NEW c \in Callers, CreateFails(c)  PROVE LazyInv'
  <2>1. HoldsLock(c)
    BY <1>5 DEF CreateFails, LockInOrder
  <2> QED
    BY <1>1, <1>5, <2>1, LockReleased DEF CreateFails, LazyTypeOK, OneAuth
<1>6. CASE UNCHANGED lazyVars
  BY <1>6 DEF lazyVars, LazyTypeOK, LockInOrder, HoldsLock, OneAuth
<1> QED
  BY <1>2, <1>3, <1>4, <1>5, <1>6 DEF LazyNext, Resume

\* The inductive invariant.
THEOREM LazyInvariant == LazySpec => []LazyInv
BY LazyStarts, LazyStays, PTL DEF LazySpec

\* The lock is a queue of callers, and what is cached or served is an Auth one of them made.
THEOREM LazyTypeCorrect == LazySpec => []LazyTypeOK
<1>1. LazyInv => LazyTypeOK
  BY DEF LazyInv
<1> QED
  BY <1>1, LazyInvariant, PTL

\* No two factory calls of LazyAuth._get run at once, none runs once an Auth is cached,
\* and every request is served by the Auth that is cached.
THEOREM OneAuthForAll == LazySpec => []OneAuth
<1>1. LazyInv => OneAuth
  BY DEF LazyInv
<1> QED
  BY <1>1, LazyInvariant, PTL

-----------------------------------------------------------------------------
(* The components side by side.                                            *)

\* What TLC runs is a behaviour of each component, so what is proved of the components
\* holds of the run: the composition adds no step to them.
THEOREM StoresRunTheComponents == StoresSpec => ReplaySpec /\ MetadataSpec /\ LazySpec
<1>1. StoresInit => ReplayInit /\ MetadataInit /\ LazyInit
  BY DEF StoresInit
<1>2. [StoresNext]_storesVars => [ReplayNext]_replayVars /\ [MetadataNext]_metadataVars /\ [LazyNext]_lazyVars
  BY DEF StoresNext, storesVars
<1> QED
  BY <1>1, <1>2, PTL DEF StoresSpec, ReplaySpec, MetadataSpec, LazySpec

\* Every reachable state of the composition is well typed.
THEOREM StoresTypeCorrect == StoresSpec => []StoresTypeOK
<1> DEFINE Moving == moving \in {"replay", "metadata", "lazy"}
<1>1. StoresInit => Moving
  BY DEF StoresInit
<1>2. Moving /\ [StoresNext]_storesVars => Moving'
  BY DEF StoresNext, storesVars
<1>3. Moving /\ ReplayTypeOK /\ MetadataTypeOK /\ LazyTypeOK => StoresTypeOK
  BY DEF StoresTypeOK
<1> HIDE DEF Moving
<1> QED
  BY <1>1, <1>2, <1>3, StoresRunTheComponents, ReplayTypeCorrect, MetadataTypeCorrect, LazyTypeCorrect, PTL
     DEF StoresSpec
=============================================================================
