------------------------------- MODULE Services -------------------------------
(***************************************************************************)
(* The services every request passes, Idempotency, Cache and Sessions, and *)
(* the pages and permissions in front of them, Pages.  They share no       *)
(* state: a behaviour is one of them.                                      *)
(***************************************************************************)
CONSTANTS
    Requests,                                       \* Idempotency
    Readers, Writers, MaxVersion,                   \* Cache
    Tabs, Fetches, MaxPairs,                        \* Sessions
    MaxReceipts                                     \* Pages

VARIABLES
    service,
    asked, inFlight, promise, answer, executed, except,
    stored, redis, memory, redisUp, deletes, reader, writer, crossed,
    issued, live, expired, storage, refreshing, fetch, changing, root, changed, met,
    route, doc, receipts, drawer

Idem == INSTANCE Idempotency WITH odd <- except
Copies == INSTANCE Cache WITH row <- stored
Client == INSTANCE Sessions WITH call <- fetch, Calls <- Fetches
Work == INSTANCE Pages

idVars == <<asked, inFlight, promise, answer, executed, except>>
cacheVars == <<stored, redis, memory, redisUp, deletes, reader, writer, crossed>>
sessVars ==
    <<issued, live, expired, storage, refreshing, fetch, changing, root, changed, met>>
pageVars == <<route, doc, receipts, drawer>>

ServicesInit ==
    /\ Idem!IdInit /\ Copies!CacheInit /\ Client!SessInit /\ Work!PageInit
    /\ service \in {"idempotency", "cache", "sessions", "pages"}
    /\ service # "cache" => deletes
    /\ service # "pages" => doc.kind = "Payment" /\ doc.status = "none"

ServicesNext ==
    /\ \/ /\ service = "idempotency" /\ Idem!IdNext
          /\ UNCHANGED <<cacheVars, sessVars, pageVars>>
       \/ /\ service = "cache" /\ Copies!CacheNext
          /\ UNCHANGED <<idVars, sessVars, pageVars>>
       \/ /\ service = "sessions" /\ Client!SessNext
          /\ UNCHANGED <<idVars, cacheVars, pageVars>>
       \/ /\ service = "pages" /\ Work!PageNext
          /\ UNCHANGED <<idVars, cacheVars, sessVars>>
    /\ UNCHANGED service

servicesVars == <<service, idVars, cacheVars, sessVars, pageVars>>

\* The fairness of a service asks nothing where it is not the one chosen: none of its
\* steps is possible in its initial state.
ServicesSpec ==
    /\ ServicesInit /\ [][ServicesNext]_servicesVars
    /\ Idem!IdFairness /\ Copies!CacheFairness /\ Client!SessFairness

\* The properties of Idempotency, Cache, Sessions and Pages, see there.
ExecutedOnce == Idem!ExecutedOnce
RequestsSettle == Idem!RequestsSettle
CopiesAreCurrent == Copies!CopiesAreCurrent
OldCopiesGo == Copies!OldCopiesGo
SessionsHold == Client!SessionsHold
FetchesEnd == Client!RequestsEnd
WorkGoesOn == service = "pages" => Work!WorkGoesOn

\* What the release gate says of Idempotency, see there.
ExecutedOnceAtOnce == Idem!ExecutedOnceAtOnce
=============================================================================
