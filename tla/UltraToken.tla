----------------------------- MODULE UltraToken -----------------------------
(***************************************************************************)
(* The tokens of the HTTP client of the ERP (ultraFv3Client.ts): one for    *)
(* the global user, whose requests share one login, and one for each        *)
(* seller's credential, whose requests each log in for themselves.  Between *)
(* two awaits a request runs alone; at each of them any other may move, so  *)
(* the token a request was refused need not be the one the client holds.    *)
(* Outermost is the retry of the synchronisations' reads                    *)
(* (requestReadOnlyWithRetry).                                              *)
(***************************************************************************)
EXTENDS Integers

CONSTANTS
    Gets,       \* request(): GETs of the global user
    Reads,      \* requestWithCredentials: GETs of a seller
    Orders,     \* POST /orders of a seller, after authenticateWithCredentials
    Users, Global,
    UserOf,     \* whose token a request carries
    Tries,      \* how often its caller tries it
    MaxIssued   \* the bound on the tokens the ERP issues to a user

Requests == Gets \cup Reads \cup Orders

ASSUME TokenAssumption ==
    /\ Gets \cap (Reads \cup Orders) = {} /\ Reads \cap Orders = {}
    /\ Global \in Users
    /\ UserOf \in [Requests -> Users] /\ \A q \in Requests : q \in Gets <=> UserOf[q] = Global
    /\ Tries \in [Requests -> Nat \ {0}] /\ \A q \in Orders : Tries[q] = 1
    /\ MaxIssued \in Nat

VARIABLES
    held,          \* held[u]: this.token, or the cached token of a credential; 0 is none
    stale,         \* the users whose token is known to have expired
    issued,        \* issued[u]: how many tokens u has been given; they are numbered
    tokenPromise,  \* whether a login of the global user is in flight
    pc,            \* pc[q]: where the request q is
    carried,       \* carried[q]: the token q sent last
    refused,       \* refused[q]: the token q logged in again for
    sends,         \* sends[q]: how often this try of q was sent, up to 5
    try,           \* try[q]: which try it is
    timedOut,      \* the requests that have heard of a timeout
    heard          \* heard[u]: the tokens given up for having been refused

cache == <<held, stale, issued, tokenPromise>>
vars == <<cache, pc, carried, refused, sends, try, timedOut, heard>>

\* on the way: execute(1), execute(2) after a connection that failed or after
\* a status worth a retry, the one after a new login, a seller's only one
InFlight == {"first", "second", "third", "last", "once"}
Stages == InFlight \cup {"idle", "login", "relogin", "unreachable", "retriable", "ownLogin",
                         "authenticating", "ready", "backoff", "done", "failed"}
Ended == {"done", "failed"}

\* what only requests of the global user, and only those of a seller, come to
GetStages == {"first", "second", "third", "last", "login", "relogin", "unreachable", "retriable"}
SellerStages == {"once", "ownLogin", "authenticating", "ready"}

CacheTypeOK ==
    /\ held \in [Users -> Nat] /\ issued \in [Users -> 0..MaxIssued]
    /\ \A u \in Users : held[u] <= issued[u]
    /\ stale \subseteq Users /\ tokenPromise \in BOOLEAN
    /\ heard \in [Users -> SUBSET Nat]

RequestTypeOK ==
    /\ pc \in [Requests -> Stages]
    /\ \A q \in Requests : /\ q \in Gets => pc[q] \notin SellerStages
                           /\ q \notin Gets => pc[q] \notin GetStages
    /\ carried \in [Requests -> Nat] /\ refused \in [Requests -> Nat]
    /\ \A q \in Requests : carried[q] <= issued[UserOf[q]] /\ refused[q] <= issued[UserOf[q]]
    /\ sends \in [Requests -> 0..5]
    /\ try \in [Requests -> Nat] /\ \A q \in Requests : try[q] <= Tries[q]
    /\ timedOut \subseteq Requests

TokenTypeOK == CacheTypeOK /\ RequestTypeOK

Init ==
    /\ held = [u \in Users |-> 0] /\ stale = {}
    /\ issued = [u \in Users |-> 0] /\ tokenPromise = FALSE
    /\ pc = [q \in Requests |-> "idle"]
    /\ carried = [q \in Requests |-> 0] /\ refused = [q \in Requests |-> 0]
    /\ sends = [q \in Requests |-> 0] /\ try = [q \in Requests |-> 0]
    /\ timedOut = {} /\ heard = [u \in Users |-> {}]

-----------------------------------------------------------------------------
(* Defects the properties must tell from the code: here and below. *)

\* Missing without a look at the expiry
Absent(u) == held[u] = 0

\* Forget that only marks the token as expired
Doubt(u) == stale' = stale \cup {u} /\ UNCHANGED held

\* AfterError that always leaves the caller a try
AlwaysAgain(q) == "backoff"

Goto(q, from, to) == pc[q] \in from /\ pc' = [pc EXCEPT ![q] = to]
Waiting == {q \in Gets : pc[q] \in {"login", "relogin"}}

OneMore(n) == IF n < 5 THEN n + 1 ELSE 5

\* no token, or one known to have expired
Missing(u) == held[u] = 0 \/ u \in stale

\* what the caller does about an error other than a timeout
AfterError(q) == IF try[q] < Tries[q] THEN "backoff" ELSE "failed"

Send(q, from, stage, token) ==
    /\ Goto(q, from, stage)
    /\ carried' = [carried EXCEPT ![q] = token]
    /\ sends' = [sends EXCEPT ![q] = OneMore(@)]

Receive(u) ==
    /\ issued[u] < MaxIssued
    /\ issued' = [issued EXCEPT ![u] = @ + 1]
    /\ held' = [held EXCEPT ![u] = issued[u] + 1]
    /\ stale' = stale \ {u}

Forget(u) == held' = [held EXCEPT ![u] = 0] /\ stale' = stale \ {u}

(* More defects. *)

\* LoginFails with the requests that were logging in again forgotten
LeaveWaiting ==
    /\ tokenPromise /\ tokenPromise' = FALSE
    /\ pc' = [q \in Requests |-> IF pc[q] = "login" THEN AfterError(q) ELSE pc[q]]
    /\ UNCHANGED <<held, stale, issued, carried, refused, sends, try, timedOut, heard>>

\* Retriable without an end
RetryForEver(q) ==
    /\ Goto(q, {"first", "second", "third"}, "retriable")
    /\ UNCHANGED <<cache, carried, refused, sends, try, timedOut, heard>>

\* TimesOut like any other error
TimeoutIsError(q) ==
    /\ Goto(q, InFlight, AfterError(q))
    /\ timedOut' = timedOut \cup {q}
    /\ UNCHANGED <<cache, carried, refused, sends, try, heard>>

\* Again(q) with no login when the client holds a token
AgainHeld(q) ==
    /\ refused' = [refused EXCEPT ![q] = carried[q]]
    /\ IF held[Global] = 0
       THEN Goto(q, {"first", "second", "third"}, "relogin") /\ tokenPromise' = TRUE /\ UNCHANGED <<carried, sends>>
       ELSE Send(q, {"first", "second", "third"}, "last", held[Global]) /\ UNCHANGED tokenPromise
    /\ UNCHANGED <<held, stale, heard>>

-----------------------------------------------------------------------------
(* Requests of the global user. *)

\* a try begins
Ask(q) ==
    /\ pc[q] \in {"idle", "backoff"}
    /\ try' = [try EXCEPT ![q] = @ + 1]
    /\ refused' = [refused EXCEPT ![q] = 0]
    /\ UNCHANGED <<issued, timedOut, heard>>

\* request(): with its token at once, or after the login there is or a new one
Get(q) ==
    /\ q \in Gets /\ Ask(q)
    /\ IF Missing(Global)
       THEN /\ Forget(Global) /\ tokenPromise' = TRUE
            /\ Goto(q, {"idle", "backoff"}, "login")
            /\ sends' = [sends EXCEPT ![q] = 0] /\ UNCHANGED carried
       ELSE /\ pc' = [pc EXCEPT ![q] = "first"]
            /\ carried' = [carried EXCEPT ![q] = held[Global]]
            /\ sends' = [sends EXCEPT ![q] = 1]
            /\ UNCHANGED <<held, stale, tokenPromise>>

\* where a request goes on once the login it waited for has succeeded
Woken(q) == IF pc[q] = "login" THEN "first" ELSE IF pc[q] = "relogin" THEN "last" ELSE pc[q]

\* The token is set, and all who waited send it, before anything else runs.
LoginSucceeds ==
    /\ tokenPromise /\ tokenPromise' = FALSE
    /\ Receive(Global)
    /\ pc' = [q \in Requests |-> Woken(q)]
    /\ carried' = [q \in Requests |-> IF q \in Waiting THEN issued[Global] + 1 ELSE carried[q]]
    /\ sends' = [q \in Requests |-> IF q \in Waiting THEN OneMore(sends[q]) ELSE sends[q]]
    /\ UNCHANGED <<refused, try, timedOut, heard>>

\* all who waited hear of it
LoginFails ==
    /\ tokenPromise /\ tokenPromise' = FALSE
    /\ pc' = [q \in Requests |-> IF q \in Waiting THEN AfterError(q) ELSE pc[q]]
    /\ UNCHANGED <<held, stale, issued, carried, refused, sends, try, timedOut, heard>>

LoginTimesOut ==
    /\ tokenPromise /\ tokenPromise' = FALSE
    /\ pc' = [q \in Requests |-> IF q \in Waiting THEN "failed" ELSE pc[q]]
    /\ timedOut' = timedOut \cup Waiting
    /\ UNCHANGED <<held, stale, issued, carried, refused, sends, try, heard>>

\* half a second later, with the token of that moment, or none: "Bearer null"
Wake(q) ==
    /\ \/ Send(q, {"unreachable"}, "second", held[Global])
       \/ Send(q, {"retriable"}, "third", held[Global])
    /\ UNCHANGED <<cache, refused, try, timedOut, heard>>

\* a first 401: the token goes, whichever it is by now, and the request waits
\* for another one
Again(q) ==
    /\ Goto(q, {"first", "second", "third"}, "relogin")
    /\ Forget(Global) /\ tokenPromise' = TRUE
    /\ refused' = [refused EXCEPT ![q] = carried[q]]
    /\ heard' = [heard EXCEPT ![Global] = @ \cup {carried[q]}]
    /\ UNCHANGED <<carried, sends>>

-----------------------------------------------------------------------------
(* Requests of a seller. *)

\* authenticateWithCredentials, then, after the order is prepared, the POST
Authenticate(q) ==
    /\ q \in Orders /\ Ask(q) /\ pc[q] = "idle"
    /\ Goto(q, {"idle"}, IF Missing(UserOf[q]) THEN "authenticating" ELSE "ready")
    /\ UNCHANGED <<held, stale, tokenPromise, carried, sends>>

\* requestWithCredentials
SendOrLogIn(q, from, before) ==
    IF Missing(UserOf[q])
    THEN Goto(q, from, "ownLogin") /\ sends' = [sends EXCEPT ![q] = before] /\ UNCHANGED carried
    ELSE /\ Goto(q, from, "once")
         /\ carried' = [carried EXCEPT ![q] = held[UserOf[q]]]
         /\ sends' = [sends EXCEPT ![q] = OneMore(before)]

Request(q) ==
    /\ \/ q \in Reads /\ Ask(q) /\ SendOrLogIn(q, {"idle", "backoff"}, 0)
       \/ q \in Orders /\ SendOrLogIn(q, {"ready"}, sends[q]) /\ UNCHANGED <<try, refused, issued, timedOut, heard>>
    /\ UNCHANGED <<held, stale, tokenPromise>>

\* Logins of one credential overlap; the last to end leaves its token.
OwnLogin(q) ==
    /\ Receive(UserOf[q])
    /\ \/ Goto(q, {"authenticating"}, "ready") /\ UNCHANGED <<carried, sends>>
       \/ Send(q, {"ownLogin"}, "once", issued[UserOf[q]] + 1)
    /\ UNCHANGED <<tokenPromise, refused, try, timedOut, heard>>

\* 401 or 403: the credential's token goes, and the request with it
GiveUp(q) ==
    /\ Goto(q, {"once"}, AfterError(q))
    /\ Forget(UserOf[q])
    /\ heard' = [heard EXCEPT ![UserOf[q]] = @ \cup {carried[q]}]
    /\ UNCHANGED <<tokenPromise, carried, refused, sends>>

-----------------------------------------------------------------------------
(* Answers, or none. *)

Refuses(q) == (Again(q) \/ GiveUp(q)) /\ UNCHANGED <<issued, try, timedOut>>

\* the connection fails; the first time, a GET of the global user is repeated
Unreachable(q) ==
    /\ Goto(q, InFlight, IF pc[q] = "first" THEN "unreachable" ELSE AfterError(q))
    /\ UNCHANGED <<cache, carried, refused, sends, try, timedOut, heard>>

\* 408, 429, 500, 502, 503 or 504
Retriable(q) ==
    /\ Goto(q, InFlight, IF pc[q] \in {"first", "second"} THEN "retriable" ELSE AfterError(q))
    /\ UNCHANGED <<cache, carried, refused, sends, try, timedOut, heard>>

\* any other status, a second 401 among them, which leaves the token; or a
\* seller's login that fails
OtherError(q) ==
    /\ Goto(q, InFlight \cup {"ownLogin", "authenticating"}, AfterError(q))
    /\ UNCHANGED <<cache, carried, refused, sends, try, timedOut, heard>>

TimesOut(q) ==
    /\ Goto(q, InFlight \cup {"ownLogin", "authenticating"}, "failed")
    /\ timedOut' = timedOut \cup {q}
    /\ UNCHANGED <<cache, carried, refused, sends, try, heard>>

Answers(q) ==
    /\ Goto(q, InFlight, "done")
    /\ UNCHANGED <<cache, carried, refused, sends, try, timedOut, heard>>

\* the token comes within thirty seconds of its expiry
Expire(u) ==
    /\ held[u] # 0 /\ u \notin stale
    /\ stale' = stale \cup {u}
    /\ UNCHANGED <<held, issued, tokenPromise, pc, carried, refused, sends, try, timedOut, heard>>

-----------------------------------------------------------------------------
Begin(q) == Get(q) \/ Authenticate(q) \/ Request(q)
Hear(q) == Refuses(q) \/ Unreachable(q) \/ Retriable(q) \/ OtherError(q) \/ TimesOut(q) \/ Answers(q)
Login == LoginSucceeds \/ LoginFails \/ LoginTimesOut

Next ==
    \/ \E q \in Requests : Begin(q) \/ Wake(q) \/ OwnLogin(q) \/ Hear(q)
    \/ Login
    \/ \E u \in Users : Expire(u)

Spec == Init /\ [][Next]_vars

\* Every fetch has a time limit, and a timer fires; nobody must send a request.
Fairness ==
    /\ WF_vars(Login)
    /\ \A q \in Requests :
          WF_vars((pc[q] # "idle" /\ Begin(q)) \/ Wake(q) \/ OwnLogin(q) \/ Hear(q))

FairSpec == Spec /\ Fairness

-----------------------------------------------------------------------------
(* Properties *)

Sends(q) == sends'[q] = OneMore(sends[q]) /\ pc'[q] \in InFlight /\ pc'[q] # pc[q]

\* A token that has been given up for a refusal is never sent again, by
\* requests that slept or waited meanwhile neither.
NeverAgain ==
    [][\A q \in Requests : Sends(q) /\ carried'[q] # 0 => carried'[q] \notin heard[UserOf[q]]]_vars

\* Except after a pause, when the token of another request may just have been
\* refused, no request leaves without a token, or with one known to have expired.
FreshUnlessRetried ==
    [][\A q \in Requests : Sends(q) /\ pc[q] \notin {"unreachable", "retriable"} =>
          carried'[q] # 0 /\ UserOf[q] \notin stale']_vars

\* The one repetition after a 401 carries another token than the refused one,
\* although the client may hold a third by then.
RetryHasNewToken == \A q \in Gets : pc[q] = "last" => carried[q] # refused[q]

\* Nothing is repeated after a timeout, by the client or by its caller.
NothingAfterTimeout ==
    [][\A q \in timedOut : pc'[q] = pc[q] /\ sends'[q] = sends[q]]_vars

\* Whoever waits for a login waits for one that is in flight.
WaitersHaveLogin == Waiting # {} => tokenPromise

\* Every request that began ends, whatever the ERP answers.
EveryRequestEnds == \A q \in Requests : pc[q] # "idle" ~> pc[q] \in Ended
=============================================================================
