------------------------------ MODULE Sessions -------------------------------
(***************************************************************************)
(* The sessions of one user: AuthService (refreshTokens, logout,           *)
(* changePassword) and the client of the frontend, lib/api.ts, in several  *)
(* browser tabs that share localStorage.                                   *)
(*                                                                         *)
(* A pair of tokens is a number; auth:refresh:{user}:{jti} exists while    *)
(* the pair is live.  The client's request that gets 401 refreshes the     *)
(* pair, unless its tab is refreshing: then it waits in failedQueue.       *)
(* The controllers wrap what they answer in {success, data, message};      *)
(* login takes data.data, the refresh takes data (UnwrapRefresh).          *)
(***************************************************************************)
EXTENDS Naturals, FiniteSets

CONSTANTS Tabs, Calls,       \* requests of the application
          MaxPairs           \* bound on the pairs issued

NoToken == 0                 \* no item in localStorage
Undefined == MaxPairs + 1    \* the text "undefined"

VARIABLES issued,     \* pairs issued: 1..issued
          live,       \* refresh tokens in the cache
          expired,    \* access tokens past 15 minutes
          storage,    \* localStorage: access_token, refresh_token
          refreshing, \* isRefreshing of a tab
          call,       \* what a request is doing
          changing,   \* changePassword is between its commit and the deletes
          root,       \* history: the login a pair descends from, by its first pair
          changed,    \* history: the pairs issued before the last password change
          met         \* history: "twice" a token was exchanged by two refreshes at
                      \* once, "meanwhile" a refresh was under way in the change
sessVars ==
    <<issued, live, expired, storage, refreshing, call, changing, root, changed, met>>

Pairs == 1..issued
Over == {"answered", "rejected"}
SessInit ==
    /\ issued = 0 /\ live = {} /\ expired = {}
    /\ storage = [access |-> NoToken, refresh |-> NoToken]
    /\ refreshing = [t \in Tabs |-> FALSE]
    /\ call = [c \in Calls |-> [at |-> "none"]]
    /\ changing = FALSE
    /\ root = [p \in 1..MaxPairs |-> NoToken]
    /\ changed = 0
    /\ met = {}

ServerSame == UNCHANGED <<issued, live, expired, changing, root, changed, met>>
To(c, r) == call' = [call EXCEPT ![c] = r]

\* login, verifyMfa, confirmMfaSetup, with what their pages store.
Login ==
    /\ storage.access = NoToken
    /\ issued < MaxPairs
    /\ issued' = issued + 1
    /\ live' = live \cup {issued + 1}
    /\ storage' = [access |-> issued + 1, refresh |-> issued + 1]
    /\ root' = [root EXCEPT ![issued + 1] = issued + 1]
    /\ UNCHANGED <<expired, refreshing, call, changing, changed, met>>

\* A request is sent with the token of localStorage; so is one sent again.
Sent(t, retry) == [at |-> "sent", tab |-> t, with |-> storage.access, retry |-> retry]

Send(c, t) ==
    /\ call[c].at = "none"
    /\ To(c, Sent(t, FALSE))
    /\ ServerSame /\ UNCHANGED <<storage, refreshing>>

Valid(token) == token \in Pairs \ expired

Answer(c) ==
    /\ call[c].at = "sent" /\ Valid(call[c].with)
    /\ To(c, [at |-> "answered"])
    /\ ServerSame /\ UNCHANGED <<storage, refreshing>>

\* 401.
Refused(c) == call[c].at = "sent" /\ ~Valid(call[c].with)

RejectRetry(c) ==
    /\ Refused(c) /\ call[c].retry
    /\ To(c, [at |-> "rejected"])
    /\ ServerSame /\ UNCHANGED <<storage, refreshing>>

\* if (isRefreshing).
MayRefresh(c) == ~refreshing[call[c].tab]

\* failedQueue.push; the request is not marked as a retry.
Queue(c) ==
    /\ Refused(c) /\ ~call[c].retry
    /\ ~MayRefresh(c)
    /\ To(c, [at |-> "queued", tab |-> call[c].tab])
    /\ ServerSame /\ UNCHANGED <<storage, refreshing>>

\* Mutant: the queue is only emptied after a success.
RejectAlone(t, c) == [d \in Calls |-> IF d = c THEN [at |-> "rejected"] ELSE call[d]]

\* processQueue(err) and the rejection of the request that refreshed.
RejectQueue(t, c) ==
    [d \in Calls |-> IF d = c \/ (call[d].at = "queued" /\ call[d].tab = t)
                     THEN [at |-> "rejected"] ELSE call[d]]

\* catch: clearAuth, for all tabs; finally: the tab may refresh again.
RefreshFailed(c) ==
    LET t == call[c].tab IN
    /\ call' = RejectQueue(t, c)
    /\ storage' = [access |-> NoToken, refresh |-> NoToken]
    /\ refreshing' = [refreshing EXCEPT ![t] = FALSE]

\* isRefreshing = true and the post to /auth/refresh; no token is an error at once.
BeginRefresh(c) ==
    /\ Refused(c) /\ ~call[c].retry
    /\ MayRefresh(c)
    /\ \/ storage.refresh = NoToken /\ RefreshFailed(c)
       \/ /\ storage.refresh # NoToken
          /\ refreshing' = [refreshing EXCEPT ![call[c].tab] = TRUE]
          /\ To(c, [at |-> "refresh", tab |-> call[c].tab, token |-> storage.refresh])
          /\ UNCHANGED storage
    /\ ServerSame

\* refreshTokens: the token is looked up in the cache, ...
RefreshRead(c) ==
    /\ call[c].at = "refresh"
    /\ IF call[c].token \in live THEN To(c, [call[c] EXCEPT !.at = "rotate"])
                                 ELSE To(c, [call[c] EXCEPT !.at = "revoked"])
    /\ ServerSame /\ UNCHANGED <<storage, refreshing>>

\* Mutant: the old token stays.
RotateAdds(c) == live \cup {issued + 1}

\* ... deleted, whether it is still there or not, and a new one stored.
Rotate(c) == (live \ {call[c].token}) \cup {issued + 1}

RefreshRotate(c) ==
    /\ call[c].at = "rotate"
    /\ issued < MaxPairs
    /\ issued' = issued + 1
    /\ live' = Rotate(c)
    /\ To(c, [at |-> "renewed", tab |-> call[c].tab, pair |-> issued + 1])
    /\ root' = [root EXCEPT ![issued + 1] = root[call[c].token]]
    /\ met' = met \cup (IF call[c].token \in live THEN {} ELSE {"twice"})
    /\ UNCHANGED <<expired, storage, refreshing, changing, changed>>

\* data.accessToken of {success, data: {accessToken, ...}, message}.
UnwrapRefresh(pair) == Undefined

\* The answer: localStorage, processQueue(null, ...), and every request again.
RefreshDone(c) ==
    LET t == call[c].tab
        token == UnwrapRefresh(call[c].pair)
        again(retry) == [at |-> "sent", tab |-> t, with |-> token, retry |-> retry]
    IN
    /\ call[c].at = "renewed"
    /\ storage' = [access |-> token, refresh |-> token]
    /\ call' = [d \in Calls |->
                  IF d = c THEN again(TRUE)
                  ELSE IF call[d].at = "queued" /\ call[d].tab = t THEN again(FALSE)
                  ELSE call[d]]
    /\ refreshing' = [refreshing EXCEPT ![t] = FALSE]
    /\ ServerSame

RefreshRefused(c) ==
    /\ call[c].at = "revoked"
    /\ RefreshFailed(c)
    /\ ServerSame

\* The answer is lost, or 30 seconds are over before the server is done.
RefreshLost(c) ==
    /\ call[c].at \in {"refresh", "rotate", "renewed"}
    /\ RefreshFailed(c)
    /\ ServerSame

AccessExpires(p) ==
    /\ p \in Pairs \ expired
    /\ expired' = expired \cup {p}
    /\ UNCHANGED <<issued, live, storage, refreshing, call, changing, root, changed, met>>

\* AuthService.logout deletes auth:refresh:{user}:{jti} with the jti of the access
\* token, which no refresh token has; the client clears its storage.
Logout ==
    /\ storage.access # NoToken
    /\ storage' = [access |-> NoToken, refresh |-> NoToken]
    /\ ServerSame /\ UNCHANGED <<refreshing, call>>

\* changePassword: the transaction, ...
ChangePassword ==
    /\ ~changing
    /\ Valid(storage.access)
    /\ changing' = TRUE
    /\ UNCHANGED <<issued, live, expired, storage, refreshing, call, root, changed, met>>

\* delByPattern auth:refresh:{user}:*.
SessionsKept == {}

\* ... and invalidateAllSessions.
InvalidateAllSessions ==
    /\ changing
    /\ live' = SessionsKept
    /\ changed' = issued
    /\ met' = met \cup {"meanwhile" : c \in {c \in Calls : call[c].at = "rotate"}}
    /\ changing' = FALSE
    /\ UNCHANGED <<issued, expired, storage, refreshing, call, root>>

Serve(c) ==
    \/ Answer(c) \/ RejectRetry(c) \/ Queue(c) \/ BeginRefresh(c)
    \/ RefreshRead(c) \/ RefreshRotate(c) \/ RefreshDone(c) \/ RefreshRefused(c)

\* At the bound on the pairs the answer to a refresh is lost.
SessNext ==
    \/ Login \/ Logout \/ ChangePassword \/ InvalidateAllSessions
    \/ \E c \in Calls, t \in Tabs : Send(c, t)
    \/ \E c \in Calls : Serve(c) \/ RefreshLost(c)
    \/ \E p \in Pairs : AccessExpires(p)

\* Every request is answered, by the server or by the client's timeout.
SessFairness == \A c \in Calls : WF_sessVars(Serve(c) \/ RefreshLost(c))

-----------------------------------------------------------------------------
\* A tab refreshes at most once at a time, and only requests of a tab that is
\* refreshing wait: nobody waits for an answer that will not come.
OneRefreshPerTab ==
    \A t \in Tabs :
        LET of(states) == {c \in Calls : call[c].at \in states /\ call[c].tab = t}
        IN /\ Cardinality(of({"refresh", "rotate", "renewed", "revoked"})) = IF refreshing[t] THEN 1 ELSE 0
           /\ ~refreshing[t] => of({"queued"}) = {}

\* A login has at most one session at a time: refreshing exchanges the token.
\* Excepted are two tabs that refresh at once, which both pass the look-up.
OneSessionPerLogin ==
    met = {} => \A p, q \in live : root[p] = root[q] => p = q

\* A password change ends every session that descends from a login before it, unless
\* a refresh was exchanging its token meanwhile.
ChangeEndsSessions == met = {} => \A p \in live : root[p] > changed

\* Every request of the application is answered or rejected, whatever happens to the
\* refresh it waits for.
RequestsEnd == \A c \in Calls : call[c].at # "none" ~> call[c].at \in Over

\* One refresh per tab, one session per login, none from before a password change.
SessionsHold == OneRefreshPerTab /\ OneSessionPerLogin /\ ChangeEndsSessions
=============================================================================
