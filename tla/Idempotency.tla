----------------------------- MODULE Idempotency -----------------------------
(***************************************************************************)
(* IdempotencyInterceptor: requests that carry one idempotency key.        *)
(*                                                                         *)
(* intercept awaits the promise of a request in flight, or awaits the      *)
(* cache; between the two awaits other requests run.  The handler commits  *)
(* before the answer is cached; the answer is in memory at once and in     *)
(* Redis a step later.  The process may end at any moment: a promise that  *)
(* is rejected while nobody awaits it ends it too (no unhandledRejection   *)
(* handler is installed, the images run Node 20).                          *)
(***************************************************************************)
EXTENDS Naturals, FiniteSets

CONSTANT Requests   \* requests sent with the key, repetitions by the client included

VARIABLES asked,     \* what a request is doing
          inFlight,  \* inFlightLocks: whose promise the key has, or Nobody
          promise,   \* the state of the promise of a request
          answer,    \* where the answer is kept: "memory" (memoryStore,
                     \* memoryFallback), "redis"
          executed,  \* commits of the handler
          odd        \* history: "raced" two requests looked for the answer at once, or
                     \* one that had waited did while another one executed,
                     \* "late" the handler failed after its commit, "expired" the
                     \* answer reached its time to live, "ended" the process ended
                     \* after a commit whose answer is not in Redis
idVars == <<asked, inFlight, promise, answer, executed, odd>>

Nobody == [at |-> "nobody"]
Settled == {"sent", "lost"}

IdInit ==
    /\ asked = [r \in Requests |-> [at |-> "away"]]
    /\ inFlight = Nobody
    /\ promise = [r \in Requests |-> "none"]
    /\ answer = {}
    /\ executed = 0
    /\ odd = {}

At(r) == asked[r].at
To(r, c) == asked' = [asked EXCEPT ![r] = c]

\* A request begins to look, which races with another one that does what is in others.
Looks(r, others) ==
    /\ To(r, [at |-> "look"])
    /\ odd' = odd \cup {"raced" : s \in {s \in Requests \ {r} : At(s) \in others}}

\* inFlightLocks.has and, in the same turn, either await.
Arrive(r) ==
    /\ At(r) = "away"
    /\ IF inFlight = Nobody THEN Looks(r, {"look"})
       ELSE To(r, [at |-> "wait", on |-> inFlight.of]) /\ UNCHANGED odd
    /\ UNCHANGED <<inFlight, promise, answer, executed>>

\* The promise awaited is resolved, of(result); or rejected, and the request goes on.
Awaited(r) ==
    /\ At(r) = "wait"
    /\ \/ promise[asked[r].on] = "resolved" /\ To(r, [at |-> "sent"]) /\ UNCHANGED odd
       \/ promise[asked[r].on] = "rejected" /\ Looks(r, {"look", "run", "done"})
    /\ UNCHANGED <<inFlight, promise, answer, executed>>

\* getFromCache: a hit.
Hit(r) ==
    /\ At(r) = "look"
    /\ answer # {}
    /\ To(r, [at |-> "sent"])
    /\ UNCHANGED <<inFlight, promise, answer, executed, odd>>

\* A miss: the promise replaces the one another request may have set meanwhile.
Execute(r) ==
    /\ At(r) = "look"
    /\ answer = {}
    /\ inFlight' = [at |-> "of", of |-> r]
    /\ promise' = [promise EXCEPT ![r] = "pending"]
    /\ To(r, [at |-> "run"])
    /\ UNCHANGED <<answer, executed, odd>>

\* Mutant: the key is deleted before the answer is kept.
CommitUnlocks(r) ==
    /\ At(r) = "run"
    /\ executed' = executed + 1
    /\ inFlight' = Nobody
    /\ To(r, [at |-> "done"])
    /\ UNCHANGED <<promise, answer, odd>>

\* next.handle(): the handler's transaction.
Commit(r) ==
    /\ At(r) = "run"
    /\ executed' = executed + 1
    /\ To(r, [at |-> "done"])
    /\ UNCHANGED <<inFlight, promise, answer, odd>>

\* tap.next up to the await of Redis; the answer is sent.
Answer(r) ==
    /\ At(r) = "done"
    /\ answer' = answer \cup {"memory"}
    /\ To(r, [at |-> "store"])
    /\ UNCHANGED <<inFlight, promise, executed, odd>>

\* Mutant: the key is taken out of the map and the promise left pending.
StoreForgotten(r) ==
    /\ At(r) = "store"
    /\ answer' \in {answer, answer \cup {"redis"}}
    /\ inFlight' = Nobody
    /\ To(r, [at |-> "sent"])
    /\ UNCHANGED <<promise, executed, odd>>

\* The rest of tap.next: Redis takes the value or fails (CacheService.set swallows
\* that); resolve; and the key is deleted, whoever's promise it has.
Store(r) ==
    /\ At(r) = "store"
    /\ answer' \in {answer, answer \cup {"redis"}}
    /\ promise' = [promise EXCEPT ![r] = "resolved"]
    /\ inFlight' = Nobody
    /\ To(r, [at |-> "sent"])
    /\ UNCHANGED <<executed, odd>>

\* The process ends: what it was doing and its memory are lost.
Ends ==
    /\ asked' = [r \in Requests |->
                   IF At(r) \in {"away"} \cup Settled THEN asked[r] ELSE [at |-> "lost"]]
    /\ inFlight' = Nobody
    /\ promise' = [r \in Requests |-> "none"]
    /\ answer' = answer \cap {"redis"}
    /\ odd' = odd \cup (IF executed > 0 /\ "redis" \notin answer THEN {"ended"} ELSE {})

\* tap.error: the handler threw, before or after its commit.
Fail(r) ==
    /\ At(r) \in {"run", "done"}
    /\ \/ /\ \E s \in Requests : At(s) = "wait" /\ asked[s].on = r
          /\ promise' = [promise EXCEPT ![r] = "rejected"]
          /\ inFlight' = Nobody
          /\ To(r, [at |-> "sent"])
          /\ odd' = odd \cup (IF At(r) = "done" THEN {"late"} ELSE {})
          /\ UNCHANGED answer
       \/ /\ ~\E s \in Requests : At(s) = "wait" /\ asked[s].on = r
          /\ Ends
    /\ UNCHANGED executed

Crash == (\E r \in Requests : At(r) \notin {"away"} \cup Settled) /\ Ends /\ UNCHANGED executed

\* 24 hours.
Expire ==
    /\ answer # {}
    /\ answer' = {}
    /\ odd' = odd \cup {"expired"}
    /\ UNCHANGED <<asked, inFlight, promise, executed>>

Serve(r) ==
    \/ Awaited(r) \/ Hit(r) \/ Execute(r) \/ Commit(r) \/ Answer(r) \/ Store(r)

IdNext ==
    \/ \E r \in Requests : Arrive(r) \/ Serve(r) \/ Fail(r)
    \/ Crash \/ Expire

\* The event loop serves every request; nothing obliges a client, a failure or the clock.
IdFairness == \A r \in Requests : WF_idVars(Serve(r))

-----------------------------------------------------------------------------
\* The handler of a key runs once, failures before its commit, waiting requests and
\* restarts included.  The exceptions are those of odd: two requests that look for
\* the answer at once, a failure after the commit, an expired answer, and a process
\* that ends before the answer is in Redis.
ExecutedOnce == odd = {} => executed <= 1

\* The claim of the release gate: simultaneous requests with one key execute once.
ExecutedOnceAtOnce == odd \subseteq {"raced"} => executed <= 1

\* A request that waits for another one, or executes, is answered or lost with the
\* process: no promise is left for ever pending.
RequestsSettle ==
    \A r \in Requests : At(r) # "away" ~> At(r) \in Settled
=============================================================================
