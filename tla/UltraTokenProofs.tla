-------------------------- MODULE UltraTokenProofs --------------------------
(***************************************************************************)
(* Proofs about UltraToken, for any requests, users, tries and number of    *)
(* tokens: types; a refused token is not sent again; a repetition after a   *)
(* 401 has another token; nothing follows a timeout; how often a request is *)
(* sent, and how many moves it has left.                                    *)
(***************************************************************************)
EXTENDS UltraToken, TLAPS

\* Who heard of a timeout has failed.
TimedOutInv == \A q \in timedOut : pc[q] = "failed"

\* A token given up was issued, and is not the one held.
HeardInv == \A u \in Users : \A t \in heard[u] : t <= issued[u] /\ (t # 0 => t # held[u])

\* A request that has not begun is at its first try; one that may begin again has one left.
TryInv == \A q \in Requests : /\ pc[q] = "idle" => try[q] = 0
                              /\ pc[q] = "backoff" => try[q] < Tries[q]

TokenInv == TokenTypeOK /\ TryInv /\ TimedOutInv /\ HeardInv /\ RetryHasNewToken /\ WaitersHaveLogin

-----------------------------------------------------------------------------
\* What the assumption says of each request.
LEMMA UsersOfRequests ==
  /\ Global \in Users /\ MaxIssued \in Nat
  /\ Requests = Gets \cup Reads \cup Orders
  /\ \A q \in Requests : /\ UserOf[q] \in Users /\ Tries[q] \in Nat /\ 1 <= Tries[q]
                         /\ q \in Gets <=> UserOf[q] = Global
  /\ \A q \in Orders : q \in Requests /\ q \notin Gets /\ Tries[q] = 1
  /\ \A q \in Reads : q \in Requests /\ q \notin Gets
  /\ \A q \in Gets : q \in Requests
  <1>1. \A q \in Requests : Tries[q] \in Nat \ {0}
    BY TokenAssumption
  <1> QED BY <1>1, TokenAssumption DEF Requests

\* The invariant holds at the start.
LEMMA InitInv == Init => TokenInv
  <1> SUFFICES ASSUME Init PROVE TokenInv OBVIOUS
  <1> USE UsersOfRequests DEF Init
  <1>1. CacheTypeOK
    <2>1. held \in [Users -> Nat] /\ issued \in [Users -> 0..MaxIssued]
      OBVIOUS
    <2>2. \A u \in Users : held[u] <= issued[u]
      OBVIOUS
    <2>3. stale \subseteq Users /\ tokenPromise \in BOOLEAN
      OBVIOUS
    <2>4. heard \in [Users -> SUBSET Nat]
      OBVIOUS
    <2> QED BY <2>1, <2>2, <2>3, <2>4 DEF CacheTypeOK
  <1>2. RequestTypeOK
    <2>1. pc \in [Requests -> Stages]
      BY DEF Stages
    <2>2. \A q \in Requests : pc[q] \notin SellerStages \cup GetStages
      BY DEF SellerStages, GetStages
    <2>3. \A q \in Requests : carried[q] <= issued[UserOf[q]] /\ refused[q] <= issued[UserOf[q]] /\ try[q] <= Tries[q]
      <3> TAKE q \in Requests
      <3>1. UserOf[q] \in Users /\ Tries[q] \in Nat
        OBVIOUS
      <3>2. issued[UserOf[q]] = 0 /\ carried[q] = 0 /\ refused[q] = 0 /\ try[q] = 0
        BY <3>1
      <3> QED BY <3>1, <3>2
    <2> QED BY <2>1, <2>2, <2>3, SMT DEF RequestTypeOK
  <1>3. TryInv /\ TimedOutInv /\ HeardInv /\ RetryHasNewToken /\ WaitersHaveLogin
    <2>1. \A q \in Gets : pc[q] = "idle"
      OBVIOUS
    <2> QED BY <2>1, SMT DEF TryInv, TimedOutInv, HeardInv, RetryHasNewToken, WaitersHaveLogin, Waiting
  <1> QED BY <1>1, <1>2, <1>3 DEF TokenInv, TokenTypeOK

LEMMA CacheTypeStep ==
  ASSUME TokenInv, NEW q \in Requests, Begin(q) \/ Wake(q) \/ OwnLogin(q) \/ Hear(q)
  PROVE  CacheTypeOK'
  <1> USE UsersOfRequests DEF TokenInv, TokenTypeOK, CacheTypeOK, RequestTypeOK
  <1>1. CASE Get(q)
    <2>1. issued' = issued /\ heard' = heard /\ tokenPromise' \in BOOLEAN
      BY <1>1 DEF Get, Ask
    <2>2. (held' = held /\ stale' = stale) \/ Forget(Global)
      BY <1>1 DEF Get
    <2> QED BY <2>1, <2>2, SMT DEF Forget
  <1>2. CASE Wake(q)
    BY <1>2, SMTT(30) DEF Wake, Send, Goto, cache, OneMore
  <1>3. CASE Again(q) /\ UNCHANGED <<issued, try, timedOut>>
    BY <1>3, SMTT(30) DEF Again, Goto, Forget
  <1>4. CASE Authenticate(q)
    BY <1>4, SMTT(30) DEF Authenticate, Ask, Goto
  <1>5. CASE Request(q)
    BY <1>5, SMTT(30) DEF Request, Ask, SendOrLogIn, Goto, OneMore
  <1>6. CASE OwnLogin(q)
    BY <1>6, SMTT(30) DEF OwnLogin, Receive, Goto, Send, OneMore
  <1>7. CASE GiveUp(q) /\ UNCHANGED <<issued, try, timedOut>>
    BY <1>7, SMTT(30) DEF GiveUp, Goto, Forget, AfterError
  <1>8. CASE Unreachable(q)
    BY <1>8, SMTT(30) DEF Unreachable, Goto, AfterError, cache
  <1>9. CASE Retriable(q)
    BY <1>9, SMTT(30) DEF Retriable, Goto, AfterError, cache
  <1>10. CASE OtherError(q)
    BY <1>10, SMTT(30) DEF OtherError, Goto, AfterError, cache
  <1>11. CASE TimesOut(q)
    BY <1>11, SMTT(30) DEF TimesOut, Goto, cache
  <1>12. CASE Answers(q)
    BY <1>12, SMTT(30) DEF Answers, Goto, cache
  <1> QED BY <1>1, <1>2, <1>3, <1>4, <1>5, <1>6, <1>7, <1>8, <1>9, <1>10, <1>11, <1>12 DEF Begin, Hear, Refuses

LEMMA AskTypes ==
  ASSUME TokenInv, NEW q \in Requests, Ask(q)
  PROVE  /\ try' \in [Requests -> Nat] /\ refused' \in [Requests -> Nat]
         /\ issued' = issued /\ timedOut' = timedOut
         /\ \A r \in Requests : try'[r] <= Tries[r] /\ refused'[r] <= issued[UserOf[r]]
  <1>1. try[q] < Tries[q]
    <2>1. try[q] \in Nat /\ Tries[q] \in Nat /\ 1 <= Tries[q]
      BY UsersOfRequests DEF TokenInv, TokenTypeOK, RequestTypeOK
    <2>2. pc[q] = "idle" \/ pc[q] = "backoff"
      BY DEF Ask
    <2>3. (pc[q] = "idle" => try[q] = 0) /\ (pc[q] = "backoff" => try[q] < Tries[q])
      BY Zenon DEF TokenInv, TryInv
    <2> QED BY <2>1, <2>2, <2>3, SMT
  <1> USE UsersOfRequests DEF TokenInv, TokenTypeOK, CacheTypeOK, RequestTypeOK, Ask
  <1>2. try' \in [Requests -> Nat] /\ refused' \in [Requests -> Nat]
    OBVIOUS
  <1>3. ASSUME NEW r \in Requests PROVE try'[r] <= Tries[r] /\ refused'[r] <= issued[UserOf[r]]
    <2>1. issued[UserOf[r]] \in Nat /\ try[q] \in Nat /\ Tries[q] \in Nat
      OBVIOUS
    <2>2. try'[r] = IF r = q THEN try[q] + 1 ELSE try[r]
      OBVIOUS
    <2>3. refused'[r] = IF r = q THEN 0 ELSE refused[r]
      OBVIOUS
    <2> QED BY <1>1, <2>1, <2>2, <2>3, SMT
  <1> QED BY <1>2, <1>3

LEMMA RequestTypeStep ==
  ASSUME TokenInv, NEW q \in Requests, Begin(q) \/ Wake(q) \/ OwnLogin(q) \/ Hear(q)
  PROVE  RequestTypeOK'
  <1> USE UsersOfRequests DEF TokenInv, TokenTypeOK, TryInv, CacheTypeOK, RequestTypeOK, Stages, InFlight, GetStages, SellerStages
  <1>1. CASE Get(q)
    <2>1. /\ pc' \in [Requests -> Stages] /\ carried' \in [Requests -> Nat] /\ sends' \in [Requests -> 0..5]
          /\ \A r \in Requests : /\ r \in Gets => pc'[r] \notin SellerStages
                                 /\ r \notin Gets => pc'[r] \notin GetStages
          /\ \A r \in Requests : carried'[r] <= issued[UserOf[r]]
      BY <1>1, SMTT(30) DEF Get, Goto
    <2> QED BY <1>1, <2>1, AskTypes DEF Get
  <1>2. CASE Wake(q)
    BY <1>2, SMTT(30) DEF Wake, Send, Goto, cache, OneMore
  <1>3. CASE Again(q) /\ UNCHANGED <<issued, try, timedOut>>
    BY <1>3, SMTT(30) DEF Again, Goto, Forget
  <1>4. CASE Authenticate(q)
    <2>1. /\ pc' \in [Requests -> Stages] /\ carried' = carried /\ sends' = sends
          /\ \A r \in Requests : /\ r \in Gets => pc'[r] \notin SellerStages
                                 /\ r \notin Gets => pc'[r] \notin GetStages
      BY <1>4, SMTT(30) DEF Authenticate, Goto
    <2> QED BY <1>4, <2>1, AskTypes DEF Authenticate
  <1>5. CASE Request(q)
    <2>1. /\ pc' \in [Requests -> Stages] /\ carried' \in [Requests -> Nat] /\ sends' \in [Requests -> 0..5]
          /\ \A r \in Requests : /\ r \in Gets => pc'[r] \notin SellerStages
                                 /\ r \notin Gets => pc'[r] \notin GetStages
          /\ \A r \in Requests : carried'[r] <= issued[UserOf[r]]
      BY <1>5, SMTT(30) DEF Request, SendOrLogIn, Goto, OneMore
    <2>2. CASE Ask(q)
      BY <2>1, <2>2, AskTypes
    <2>3. CASE UNCHANGED <<try, refused, issued, timedOut, heard>>
      BY <2>1, <2>3
    <2> QED BY <1>5, <2>2, <2>3 DEF Request
  <1>6. CASE OwnLogin(q)
    BY <1>6, SMTT(30) DEF OwnLogin, Receive, Goto, Send, OneMore
  <1>7. CASE GiveUp(q) /\ UNCHANGED <<issued, try, timedOut>>
    BY <1>7, SMTT(30) DEF GiveUp, Goto, Forget, AfterError
  <1>8. CASE Unreachable(q)
    BY <1>8, SMTT(30) DEF Unreachable, Goto, AfterError, cache
  <1>9. CASE Retriable(q)
    BY <1>9, SMTT(30) DEF Retriable, Goto, AfterError, cache
  <1>10. CASE OtherError(q)
    BY <1>10, SMTT(30) DEF OtherError, Goto, AfterError, cache
  <1>11. CASE TimesOut(q)
    BY <1>11, SMTT(30) DEF TimesOut, Goto, cache
  <1>12. CASE Answers(q)
    BY <1>12, SMTT(30) DEF Answers, Goto, cache
  <1> QED BY <1>1, <1>2, <1>3, <1>4, <1>5, <1>6, <1>7, <1>8, <1>9, <1>10, <1>11, <1>12 DEF Begin, Hear, Refuses

\* A try is begun only while one is left, and only its end leads to the next.
LEMMA TryStep ==
  ASSUME TokenInv, NEW q \in Requests, Begin(q) \/ Wake(q) \/ OwnLogin(q) \/ Hear(q)
  PROVE  TryInv'
  <1> USE UsersOfRequests DEF TokenInv, TokenTypeOK, CacheTypeOK, RequestTypeOK, InFlight, TryInv
  <1>1. CASE Get(q)
    BY <1>1, SMTT(30) DEF Get, Ask, Goto, Missing, Forget
  <1>2. CASE Wake(q)
    BY <1>2, SMTT(30) DEF Wake, Send, Goto, cache
  <1>3. CASE Again(q) /\ UNCHANGED <<issued, try, timedOut>>
    BY <1>3, SMTT(30) DEF Again, Goto, Forget
  <1>4. CASE Authenticate(q)
    BY <1>4, SMTT(30) DEF Authenticate, Ask, Goto
  <1>5. CASE Request(q)
    BY <1>5, SMTT(30) DEF Request, Ask, SendOrLogIn, Goto
  <1>6. CASE OwnLogin(q)
    BY <1>6, SMTT(30) DEF OwnLogin, Receive, Goto, Send
  <1>7. CASE GiveUp(q) /\ UNCHANGED <<issued, try, timedOut>>
    BY <1>7, SMTT(30) DEF GiveUp, Goto, Forget, AfterError
  <1>8. CASE Unreachable(q)
    BY <1>8, SMTT(30) DEF Unreachable, Goto, AfterError, cache
  <1>9. CASE Retriable(q)
    BY <1>9, SMTT(30) DEF Retriable, Goto, AfterError, cache
  <1>10. CASE OtherError(q)
    BY <1>10, SMTT(30) DEF OtherError, Goto, AfterError, cache
  <1>11. CASE TimesOut(q)
    BY <1>11, SMTT(30) DEF TimesOut, Goto, cache
  <1>12. CASE Answers(q)
    BY <1>12, SMTT(30) DEF Answers, Goto, cache
  <1> QED BY <1>1, <1>2, <1>3, <1>4, <1>5, <1>6, <1>7, <1>8, <1>9, <1>10, <1>11, <1>12 DEF Begin, Hear, Refuses

\* Whoever has failed stays so.
LEMMA TimedOutStep ==
  ASSUME TokenInv, NEW q \in Requests, Begin(q) \/ Wake(q) \/ OwnLogin(q) \/ Hear(q)
  PROVE  TimedOutInv'
  <1> USE UsersOfRequests DEF TokenInv, TokenTypeOK, CacheTypeOK, RequestTypeOK, InFlight, TimedOutInv
  <1>1. CASE Get(q)
    BY <1>1, SMTT(30) DEF Get, Ask, Goto, Missing, Forget
  <1>2. CASE Wake(q)
    BY <1>2, SMTT(30) DEF Wake, Send, Goto, cache
  <1>3. CASE Again(q) /\ UNCHANGED <<issued, try, timedOut>>
    BY <1>3, SMTT(30) DEF Again, Goto, Forget
  <1>4. CASE Authenticate(q)
    BY <1>4, SMTT(30) DEF Authenticate, Ask, Goto
  <1>5. CASE Request(q)
    BY <1>5, SMTT(30) DEF Request, Ask, SendOrLogIn, Goto
  <1>6. CASE OwnLogin(q)
    BY <1>6, SMTT(30) DEF OwnLogin, Receive, Goto, Send
  <1>7. CASE GiveUp(q) /\ UNCHANGED <<issued, try, timedOut>>
    BY <1>7, SMTT(30) DEF GiveUp, Goto, Forget, AfterError
  <1>8. CASE Unreachable(q)
    BY <1>8, SMTT(30) DEF Unreachable, Goto, AfterError, cache
  <1>9. CASE Retriable(q)
    BY <1>9, SMTT(30) DEF Retriable, Goto, AfterError, cache
  <1>10. CASE OtherError(q)
    BY <1>10, SMTT(30) DEF OtherError, Goto, AfterError, cache
  <1>11. CASE TimesOut(q)
    BY <1>11, SMTT(30) DEF TimesOut, Goto, cache
  <1>12. CASE Answers(q)
    BY <1>12, SMTT(30) DEF Answers, Goto, cache
  <1> QED BY <1>1, <1>2, <1>3, <1>4, <1>5, <1>6, <1>7, <1>8, <1>9, <1>10, <1>11, <1>12 DEF Begin, Hear, Refuses

\* A token given up leaves the client, and new ones are new.
LEMMA HeardStep ==
  ASSUME TokenInv, NEW q \in Requests, Begin(q) \/ Wake(q) \/ OwnLogin(q) \/ Hear(q)
  PROVE  HeardInv'
  <1> USE UsersOfRequests DEF TokenInv, TokenTypeOK, CacheTypeOK, RequestTypeOK, InFlight, HeardInv, SellerStages, GetStages
  <1>1. CASE Get(q)
    BY <1>1, SMTT(30) DEF Get, Ask, Goto, Missing, Forget
  <1>2. CASE Wake(q)
    BY <1>2, SMTT(30) DEF Wake, Send, Goto, cache
  <1>3. CASE Again(q) /\ UNCHANGED <<issued, try, timedOut>>
    BY <1>3, SMTT(30) DEF Again, Goto, Forget
  <1>4. CASE Authenticate(q)
    BY <1>4, SMTT(30) DEF Authenticate, Ask, Goto
  <1>5. CASE Request(q)
    BY <1>5, SMTT(30) DEF Request, Ask, SendOrLogIn, Goto
  <1>6. CASE OwnLogin(q)
    BY <1>6, SMTT(30) DEF OwnLogin, Receive, Goto, Send
  <1>7. CASE GiveUp(q) /\ UNCHANGED <<issued, try, timedOut>>
    BY <1>7, SMTT(30) DEF GiveUp, Goto, Forget, AfterError
  <1>8. CASE Unreachable(q)
    BY <1>8, SMTT(30) DEF Unreachable, Goto, AfterError, cache
  <1>9. CASE Retriable(q)
    BY <1>9, SMTT(30) DEF Retriable, Goto, AfterError, cache
  <1>10. CASE OtherError(q)
    BY <1>10, SMTT(30) DEF OtherError, Goto, AfterError, cache
  <1>11. CASE TimesOut(q)
    BY <1>11, SMTT(30) DEF TimesOut, Goto, cache
  <1>12. CASE Answers(q)
    BY <1>12, SMTT(30) DEF Answers, Goto, cache
  <1> QED BY <1>1, <1>2, <1>3, <1>4, <1>5, <1>6, <1>7, <1>8, <1>9, <1>10, <1>11, <1>12 DEF Begin, Hear, Refuses

\* A request that repeats keeps what it sent; whoever begins to wait finds a login.
LEMMA RetryStep ==
  ASSUME TokenInv, NEW q \in Requests, Begin(q) \/ Wake(q) \/ OwnLogin(q) \/ Hear(q)
  PROVE  RetryHasNewToken' /\ WaitersHaveLogin'
  <1> USE UsersOfRequests DEF TokenInv, TokenTypeOK, CacheTypeOK, RequestTypeOK, InFlight, RetryHasNewToken, WaitersHaveLogin, Waiting, SellerStages, GetStages
  <1>1. CASE Get(q)
    BY <1>1, SMTT(30) DEF Get, Ask, Goto, Missing, Forget
  <1>2. CASE Wake(q)
    BY <1>2, SMTT(30) DEF Wake, Send, Goto, cache
  <1>3. CASE Again(q) /\ UNCHANGED <<issued, try, timedOut>>
    BY <1>3, SMTT(30) DEF Again, Goto, Forget
  <1>4. CASE Authenticate(q)
    BY <1>4, SMTT(30) DEF Authenticate, Ask, Goto
  <1>5. CASE Request(q)
    BY <1>5, SMTT(30) DEF Request, Ask, SendOrLogIn, Goto
  <1>6. CASE OwnLogin(q)
    BY <1>6, SMTT(30) DEF OwnLogin, Receive, Goto, Send
  <1>7. CASE GiveUp(q) /\ UNCHANGED <<issued, try, timedOut>>
    BY <1>7, SMTT(30) DEF GiveUp, Goto, Forget, AfterError
  <1>8. CASE Unreachable(q)
    BY <1>8, SMTT(30) DEF Unreachable, Goto, AfterError, cache
  <1>9. CASE Retriable(q)
    BY <1>9, SMTT(30) DEF Retriable, Goto, AfterError, cache
  <1>10. CASE OtherError(q)
    BY <1>10, SMTT(30) DEF OtherError, Goto, AfterError, cache
  <1>11. CASE TimesOut(q)
    BY <1>11, SMTT(30) DEF TimesOut, Goto, cache
  <1>12. CASE Answers(q)
    BY <1>12, SMTT(30) DEF Answers, Goto, cache
  <1> QED BY <1>1, <1>2, <1>3, <1>4, <1>5, <1>6, <1>7, <1>8, <1>9, <1>10, <1>11, <1>12 DEF Begin, Hear, Refuses

\* The end of a login of the global user, which moves all who wait for it.
LEMMA LoginStep == TokenInv /\ Login => TokenInv'
  <1> SUFFICES ASSUME TokenInv, Login PROVE TokenInv'
    OBVIOUS
  <1> USE UsersOfRequests DEF TokenInv, TokenTypeOK
  <1>1. CASE LoginSucceeds
    <2> USE <1>1 DEF LoginSucceeds, Receive
    <2>1. CacheTypeOK'
      <3>1. issued[Global] \in Nat /\ issued[Global] < MaxIssued
        BY SMT DEF CacheTypeOK
      <3>2. held' \in [Users -> Nat] /\ issued' \in [Users -> 0..MaxIssued]
        BY <3>1, SMT DEF CacheTypeOK
      <3>3. ASSUME NEW u \in Users PROVE held'[u] <= issued'[u]
        BY <3>1, SMT DEF CacheTypeOK
      <3> QED BY <3>2, <3>3 DEF CacheTypeOK
    <2>2. RequestTypeOK'
      <3>1. pc' \in [Requests -> Stages]
        BY DEF RequestTypeOK, Woken, Stages, InFlight
      <3>2. \A q \in Requests : /\ q \in Gets => pc'[q] \notin SellerStages
                                /\ q \notin Gets => pc'[q] \notin GetStages
        BY DEF RequestTypeOK, Woken, SellerStages, GetStages
      <3>3. carried' \in [Requests -> Nat] /\ refused' \in [Requests -> Nat] /\ sends' \in [Requests -> 0..5]
        BY SMTT(30) DEF CacheTypeOK, RequestTypeOK, OneMore
      <3>4. ASSUME NEW q \in Requests
            PROVE  carried'[q] <= issued'[UserOf[q]] /\ refused'[q] <= issued'[UserOf[q]]
        <4>1. /\ UserOf[q] \in Users /\ issued[UserOf[q]] \in Nat
              /\ carried[q] \in Nat /\ carried[q] <= issued[UserOf[q]]
              /\ refused[q] \in Nat /\ refused[q] <= issued[UserOf[q]]
          BY SMT DEF CacheTypeOK, RequestTypeOK
        <4>2. issued'[UserOf[q]] = IF UserOf[q] = Global THEN issued[UserOf[q]] + 1 ELSE issued[UserOf[q]]
          BY <4>1 DEF CacheTypeOK
        <4>3. carried'[q] = carried[q] \/ (carried'[q] = issued[UserOf[q]] + 1 /\ UserOf[q] = Global)
          BY DEF Waiting
        <4> QED BY <4>1, <4>2, <4>3, SMT
      <3> QED BY <3>1, <3>2, <3>3, <3>4 DEF RequestTypeOK
    <2>3. \A q \in Requests : /\ pc'[q] \notin {"login", "relogin"}
                              /\ pc'[q] \in {"first", "last"} \/ pc'[q] = pc[q]
      BY DEF RequestTypeOK, Woken
    <2>6. \A q \in timedOut : q \in Requests /\ pc'[q] = "failed"
      BY DEF RequestTypeOK, TimedOutInv, Woken
    <2>7. TryInv' /\ TimedOutInv' /\ WaitersHaveLogin'
      BY <2>3, <2>6 DEF TryInv, TimedOutInv, WaitersHaveLogin, Waiting
    <2>4. HeardInv'
      BY SMTT(30) DEF CacheTypeOK, HeardInv
    <2>5. RetryHasNewToken'
      <3> SUFFICES ASSUME NEW q \in Gets, pc'[q] = "last" PROVE carried'[q] # refused[q]
        BY DEF RetryHasNewToken
      <3>1. CASE pc[q] = "relogin"
        BY <3>1, SMTT(30) DEF CacheTypeOK, RequestTypeOK, Waiting
      <3>2. CASE pc[q] = "last"
        BY <3>2 DEF RetryHasNewToken, Waiting
      <3> QED BY <3>1, <3>2 DEF Woken, RequestTypeOK
    <2> QED BY <2>1, <2>2, <2>7, <2>4, <2>5
  <1>2. CASE LoginFails
    <2> USE <1>2 DEF LoginFails, AfterError
    <2>1. CacheTypeOK' /\ HeardInv'
      BY DEF CacheTypeOK, HeardInv
    <2>2. RequestTypeOK'
      BY SMTT(30) DEF RequestTypeOK, Stages, Waiting, SellerStages, GetStages
    <2>3. TryInv' /\ TimedOutInv' /\ WaitersHaveLogin' /\ RetryHasNewToken'
      BY SMTT(30) DEF RequestTypeOK, TryInv, TimedOutInv, WaitersHaveLogin, RetryHasNewToken, Waiting
    <2> QED BY <2>1, <2>2, <2>3
  <1>3. CASE LoginTimesOut
    <2> USE <1>3 DEF LoginTimesOut
    <2>1. CacheTypeOK' /\ HeardInv'
      BY DEF CacheTypeOK, HeardInv
    <2>2. RequestTypeOK'
      BY SMTT(30) DEF RequestTypeOK, Stages, Waiting, SellerStages, GetStages
    <2>3. TryInv' /\ TimedOutInv' /\ WaitersHaveLogin' /\ RetryHasNewToken'
      BY SMTT(30) DEF RequestTypeOK, TryInv, TimedOutInv, WaitersHaveLogin, RetryHasNewToken, Waiting
    <2> QED BY <2>1, <2>2, <2>3
  <1> QED BY <1>1, <1>2, <1>3 DEF Login

\* A token that expires, and a step of nobody.
LEMMA QuietStep ==
  TokenInv /\ (UNCHANGED vars \/ \E u \in Users : Expire(u)) => TokenInv'
  <1> SUFFICES ASSUME TokenInv, UNCHANGED vars \/ \E u \in Users : Expire(u) PROVE TokenInv'
    OBVIOUS
  <1>1. /\ UNCHANGED <<held, issued, tokenPromise, pc, carried, refused, sends, try, timedOut, heard>>
        /\ stale' \subseteq Users
    BY DEF vars, cache, Expire, TokenInv, TokenTypeOK, CacheTypeOK
  <1> QED BY <1>1 DEF TokenInv, TokenTypeOK, CacheTypeOK, RequestTypeOK, TryInv, TimedOutInv, HeardInv,
        RetryHasNewToken, WaitersHaveLogin, Waiting

\* The invariant is inductive.
LEMMA StepInv == TokenInv /\ [Next]_vars => TokenInv'
  <1> SUFFICES ASSUME TokenInv, [Next]_vars PROVE TokenInv'
    OBVIOUS
  <1>1. ASSUME NEW q \in Requests, Begin(q) \/ Wake(q) \/ OwnLogin(q) \/ Hear(q)
        PROVE  TokenInv'
    <2>1. CacheTypeOK' /\ RequestTypeOK'
      BY <1>1, CacheTypeStep, RequestTypeStep
    <2>2. TryInv' /\ TimedOutInv' /\ HeardInv' /\ RetryHasNewToken' /\ WaitersHaveLogin'
      BY <1>1, TryStep, TimedOutStep, HeardStep, RetryStep
    <2> QED BY <2>1, <2>2 DEF TokenInv, TokenTypeOK
  <1> QED BY <1>1, LoginStep, QuietStep DEF Next

LEMMA AlwaysInv == Spec => []TokenInv
  BY InitInv, StepInv, PTL DEF Spec

-----------------------------------------------------------------------------
\* The client's tokens and its requests are well typed, and no try is begun
\* beyond the caller's limit.
THEOREM TokenTypeCorrect == Spec => []TokenTypeOK
  <1>1. TokenInv => TokenTypeOK
    BY DEF TokenInv
  <1> QED BY <1>1, AlwaysInv, PTL

\* The repetition after a 401 carries a token other than the refused one.
THEOREM RetryCorrect == Spec => []RetryHasNewToken
  <1>1. TokenInv => RetryHasNewToken
    BY DEF TokenInv
  <1> QED BY <1>1, AlwaysInv, PTL

\* Whoever waits for a login waits for one in flight.
THEOREM WaitersCorrect == Spec => []WaitersHaveLogin
  <1>1. TokenInv => WaitersHaveLogin
    BY DEF TokenInv
  <1> QED BY <1>1, AlwaysInv, PTL

-----------------------------------------------------------------------------
\* What one step of a request q does to the one that moves: it sends the token
\* held, or a new one, or nothing.
SendStep(q) ==
    Sends(q) =>
      \/ carried'[q] = held[UserOf[q]]
         /\ (pc[q] \in {"unreachable", "retriable"} \/ (~Missing(UserOf[q]) /\ stale' = stale))
      \/ carried'[q] = issued[UserOf[q]] + 1 /\ UserOf[q] \notin stale'

LEMMA RequestSends ==
  ASSUME TokenInv, NEW p \in Requests, Begin(p) \/ Wake(p) \/ OwnLogin(p) \/ Hear(p),
         NEW q \in Requests
  PROVE  SendStep(q)
  <1> USE UsersOfRequests DEF TokenInv, TokenTypeOK, CacheTypeOK, RequestTypeOK, SendStep, Sends, InFlight,
        SellerStages, GetStages
  <1>1. CASE Get(p)
    BY <1>1, SMTT(30) DEF Get, Ask, Goto, Forget
  <1>2. CASE Wake(p)
    BY <1>2, SMTT(30) DEF Wake, Send, Goto, cache
  <1>3. CASE Again(p) /\ UNCHANGED <<issued, try, timedOut>>
    BY <1>3, SMTT(30) DEF Again, Goto
  <1>4. CASE Authenticate(p)
    BY <1>4, SMTT(30) DEF Authenticate, Ask, Goto
  <1>5. CASE Request(p)
    BY <1>5, SMTT(30) DEF Request, Ask, SendOrLogIn, Goto
  <1>6. CASE OwnLogin(p)
    BY <1>6, SMTT(30) DEF OwnLogin, Receive, Goto, Send
  <1>7. CASE GiveUp(p) /\ UNCHANGED <<issued, try, timedOut>>
    BY <1>7, SMTT(30) DEF GiveUp, Goto, AfterError
  <1>8. CASE Unreachable(p)
    BY <1>8, SMTT(30) DEF Unreachable, Goto, AfterError
  <1>9. CASE Retriable(p)
    BY <1>9, SMTT(30) DEF Retriable, Goto, AfterError
  <1>10. CASE OtherError(p)
    BY <1>10, SMTT(30) DEF OtherError, Goto, AfterError
  <1>11. CASE TimesOut(p)
    BY <1>11, SMTT(30) DEF TimesOut, Goto
  <1>12. CASE Answers(p)
    BY <1>12, SMTT(30) DEF Answers, Goto
  <1> QED BY <1>1, <1>2, <1>3, <1>4, <1>5, <1>6, <1>7, <1>8, <1>9, <1>10, <1>11, <1>12 DEF Begin, Hear, Refuses

LEMMA LoginSends ==
  ASSUME TokenInv, Login, NEW q \in Requests
  PROVE  SendStep(q)
  <1> USE UsersOfRequests DEF TokenInv, TokenTypeOK, CacheTypeOK, RequestTypeOK, SendStep, Sends, InFlight,
        Waiting
  <1>1. CASE LoginSucceeds
    BY <1>1, SMTT(30) DEF LoginSucceeds, Receive, Woken, GetStages
  <1>2. CASE LoginFails \/ LoginTimesOut
    BY <1>2, SMTT(30) DEF LoginFails, LoginTimesOut, AfterError
  <1> QED BY <1>1, <1>2 DEF Login

LEMMA EveryStepSends ==
  ASSUME TokenInv, [Next]_vars, NEW q \in Requests
  PROVE  SendStep(q)
  <1>1. CASE UNCHANGED vars \/ \E u \in Users : Expire(u)
    BY <1>1 DEF vars, cache, Expire, SendStep, Sends
  <1> QED BY <1>1, RequestSends, LoginSends DEF Next

\* A token given up for a refusal is never sent again.
THEOREM NeverAgainCorrect == Spec => NeverAgain
  <1>1. TokenInv /\ [Next]_vars => (\A q \in Requests : Sends(q) /\ carried'[q] # 0 => carried'[q] \notin heard[UserOf[q]])
    <2> SUFFICES ASSUME TokenInv, [Next]_vars, NEW q \in Requests, Sends(q), carried'[q] # 0
                 PROVE  carried'[q] \notin heard[UserOf[q]]
      OBVIOUS
    <2>1. UserOf[q] \in Users /\ issued[UserOf[q]] \in Nat /\ heard[UserOf[q]] \subseteq Nat
      BY UsersOfRequests DEF TokenInv, TokenTypeOK, CacheTypeOK
    <2>2. \A t \in heard[UserOf[q]] : t <= issued[UserOf[q]] /\ (t # 0 => t # held[UserOf[q]])
      BY <2>1 DEF TokenInv, HeardInv
    <2>3. carried'[q] = held[UserOf[q]] \/ carried'[q] = issued[UserOf[q]] + 1
      BY EveryStepSends DEF SendStep
    <2> QED BY <2>1, <2>2, <2>3, SMT
  <1> QED BY <1>1, AlwaysInv, PTL DEF Spec, NeverAgain

\* Except after a pause, no request leaves without a token or with an expired one.
THEOREM FreshCorrect == Spec => FreshUnlessRetried
  <1>1. TokenInv /\ [Next]_vars => (\A q \in Requests : Sends(q) /\ pc[q] \notin {"unreachable", "retriable"} =>
          carried'[q] # 0 /\ UserOf[q] \notin stale')
    <2> SUFFICES ASSUME TokenInv, [Next]_vars, NEW q \in Requests, Sends(q), pc[q] \notin {"unreachable", "retriable"}
                 PROVE  carried'[q] # 0 /\ UserOf[q] \notin stale'
      OBVIOUS
    <2>1. UserOf[q] \in Users /\ issued[UserOf[q]] \in Nat
      BY UsersOfRequests DEF TokenInv, TokenTypeOK, CacheTypeOK
    <2> QED BY <2>1, EveryStepSends, SMT DEF SendStep, Missing
  <1> QED BY <1>1, AlwaysInv, PTL DEF Spec, FreshUnlessRetried

\* Nothing is repeated after a timeout.
THEOREM TimeoutCorrect == Spec => NothingAfterTimeout
  <1>1. TokenInv /\ [Next]_vars => (\A q \in timedOut : pc'[q] = pc[q] /\ sends'[q] = sends[q])
    <2> SUFFICES ASSUME TokenInv, [Next]_vars, NEW q \in timedOut
                 PROVE  pc'[q] = pc[q] /\ sends'[q] = sends[q]
      OBVIOUS
    <2>1. q \in Requests /\ pc[q] = "failed"
      BY DEF TokenInv, TokenTypeOK, RequestTypeOK, TimedOutInv
    <2>2. CASE UNCHANGED vars \/ \E u \in Users : Expire(u)
      BY <2>2 DEF vars, cache, Expire
    <2>3. CASE Login
      BY <2>1, <2>3 DEF Login, LoginSucceeds, LoginFails, LoginTimesOut, Waiting, Woken
    <2>4. ASSUME NEW p \in Requests, Begin(p) \/ Wake(p) \/ OwnLogin(p) \/ Hear(p)
          PROVE  pc'[q] = pc[q] /\ sends'[q] = sends[q]
      <3> USE <2>1 DEF TokenInv, TokenTypeOK, RequestTypeOK, Goto
      <3>1. CASE Begin(p) \/ Wake(p) \/ OwnLogin(p)
        BY <3>1, SMTT(30) DEF Begin, Get, Authenticate, Request, SendOrLogIn, Ask, Wake, OwnLogin, Send
      <3>2. CASE Hear(p)
        BY <3>2, SMTT(30) DEF Hear, Refuses, Again, GiveUp, Unreachable, Retriable, OtherError, TimesOut,
          Answers, InFlight
      <3> QED BY <2>4, <3>1, <3>2
    <2> QED BY <2>2, <2>3, <2>4 DEF Next
  <1> QED BY <1>1, AlwaysInv, PTL DEF Spec, NothingAfterTimeout

-----------------------------------------------------------------------------
(* How often a request is sent. *)

\* How often a try has been sent by the time it is where it is.
SendsBy(stage) ==
    IF stage \in {"idle", "login", "ownLogin", "authenticating", "ready"} THEN 0
    ELSE IF stage \in {"first", "unreachable", "once"} THEN 1
    ELSE IF stage \in {"second", "retriable"} THEN 2
    ELSE IF stage \in {"third", "relogin"} THEN 3
    ELSE 4

SendsInv == \A q \in Requests : sends[q] <= SendsBy(pc[q]) /\ (q \notin Gets => sends[q] <= 1)

\* A try of a GET of the global user is sent four times at most, a try of a
\* seller's read once, an order once in all.
SendsBounded == \A q \in Requests : sends[q] <= IF q \in Gets THEN 4 ELSE 1

\* Nothing is sent but by a step of its request, or at the end of a login.
LEMMA SendsStep ==
  ASSUME TokenInv, SendsInv, NEW q \in Requests, Begin(q) \/ Wake(q) \/ OwnLogin(q) \/ Hear(q)
  PROVE  SendsInv'
  <1> USE UsersOfRequests DEF TokenInv, TokenTypeOK, RequestTypeOK, InFlight, GetStages, SellerStages,
        SendsInv, SendsBy, OneMore, cache
  <1>1. CASE Get(q)
    BY <1>1, SMTT(30) DEF Get, Ask, Goto, Forget
  <1>2. CASE Wake(q)
    BY <1>2, SMTT(30) DEF Wake, Send, Goto
  <1>3. CASE Again(q) /\ UNCHANGED <<issued, try, timedOut>>
    BY <1>3, SMTT(30) DEF Again, Goto
  <1>4. CASE Authenticate(q)
    BY <1>4, SMTT(30) DEF Authenticate, Ask, Goto
  <1>5. CASE Request(q)
    BY <1>5, SMTT(30) DEF Request, Ask, SendOrLogIn, Goto
  <1>6. CASE OwnLogin(q)
    BY <1>6, SMTT(30) DEF OwnLogin, Goto, Send
  <1>7. CASE GiveUp(q) /\ UNCHANGED <<issued, try, timedOut>>
    BY <1>7, SMTT(30) DEF GiveUp, Goto, AfterError
  <1>8. CASE Unreachable(q) \/ Retriable(q)
    BY <1>8, SMTT(30) DEF Unreachable, Retriable, Goto, AfterError
  <1>9. CASE OtherError(q) \/ TimesOut(q) \/ Answers(q)
    BY <1>9, SMTT(30) DEF OtherError, TimesOut, Answers, Goto, AfterError
  <1> QED BY <1>1, <1>2, <1>3, <1>4, <1>5, <1>6, <1>7, <1>8, <1>9 DEF Begin, Hear, Refuses

\* The end of a login sends what waited for it.
LEMMA LoginSendsOnce == TokenInv /\ SendsInv /\ Login => SendsInv'
  <1> SUFFICES ASSUME TokenInv, SendsInv, Login, NEW q \in Requests
               PROVE  sends'[q] <= SendsBy(pc'[q]) /\ (q \notin Gets => sends'[q] <= 1)
    BY DEF SendsInv
  <1>1. /\ pc[q] \in Stages /\ sends[q] \in 0..5
        /\ sends[q] <= SendsBy(pc[q]) /\ (q \notin Gets => sends[q] <= 1)
    BY DEF TokenInv, TokenTypeOK, RequestTypeOK, SendsInv
  <1>2. CASE q \notin Waiting
    <2>1. q \notin Gets => pc[q] \notin GetStages
      BY DEF TokenInv, TokenTypeOK, RequestTypeOK
    <2>2. pc'[q] = pc[q] /\ sends'[q] = sends[q]
      BY <1>2, <2>1 DEF Login, LoginSucceeds, LoginFails, LoginTimesOut, Woken, Waiting, GetStages
    <2> QED BY <1>1, <2>2
  <1>3. CASE q \in Waiting
    <2>1. q \in Gets /\ pc[q] \in {"login", "relogin"}
      BY <1>3 DEF Waiting
    <2>2. \/ pc'[q] = Woken(q) /\ sends'[q] = OneMore(sends[q])
          \/ pc'[q] \in {"backoff", "failed"} /\ sends'[q] = sends[q]
      BY <1>3 DEF Login, LoginSucceeds, LoginFails, LoginTimesOut, AfterError
    <2> QED BY <1>1, <2>1, <2>2 DEF Woken, OneMore, SendsBy
  <1> QED BY <1>2, <1>3

\* No answer, failure or loss of a token makes the client send an order a second
\* time, or a read more often than its retries allow.
THEOREM SendsCorrect == Spec => []SendsBounded
  <1>1. Init => SendsInv
    BY DEF Init, SendsInv, SendsBy
  <1>2. TokenInv /\ SendsInv /\ [Next]_vars => SendsInv'
    <2>1. TokenInv /\ SendsInv /\ (UNCHANGED vars \/ \E u \in Users : Expire(u)) => SendsInv'
      BY DEF vars, Expire, SendsInv
    <2> QED BY <2>1, SendsStep, LoginSendsOnce DEF Next
  <1>3. TokenInv /\ SendsInv => SendsBounded
    BY DEF TokenInv, TokenTypeOK, RequestTypeOK, Stages, InFlight, SendsInv, SendsBy, SendsBounded
  <1> QED BY <1>1, <1>2, <1>3, AlwaysInv, PTL DEF Spec

-----------------------------------------------------------------------------
(* How long a request goes on. *)

\* The stages of a try, counted from its end; before it, and in the pause after
\* it, the tries left count.
Rank == [idle |-> 0,
         login |-> 9, first |-> 8, unreachable |-> 7, second |-> 6, retriable |-> 5,
         third |-> 4, relogin |-> 3, last |-> 2,
         authenticating |-> 5, ready |-> 4, ownLogin |-> 3, once |-> 2,
         backoff |-> 1, done |-> 0, failed |-> 0]

\* A try takes fewer than ten moves.
Left(q) == 10 * (Tries[q] - try[q]) + Rank[pc[q]]

\* Every move of a request, by a step of its own or by the end of the login it
\* shares with others, leaves it fewer.
EveryMoveIsProgress == [][\A q \in Requests : pc'[q] # pc[q] => Left(q)' < Left(q)]_vars

LEMMA RankType == \A stage \in Stages : Rank[stage] \in 0..9
  BY DEF Stages, InFlight, Rank

\* A move within a try goes down the stages; a new try has been one of those left.
LEMMA MoveStep ==
  ASSUME TokenInv, NEW q \in Requests, Begin(q) \/ Wake(q) \/ OwnLogin(q) \/ Hear(q), pc'[q] # pc[q]
  PROVE  \/ try'[q] = try[q] /\ Rank[pc'[q]] < Rank[pc[q]]
         \/ try'[q] = try[q] + 1
  <1> USE UsersOfRequests DEF TokenInv, TokenTypeOK, RequestTypeOK, InFlight, Stages, Rank, cache
  <1>1. CASE Get(q)
    BY <1>1, SMTT(30) DEF Get, Ask, Goto, Forget
  <1>2. CASE Wake(q)
    BY <1>2, SMTT(30) DEF Wake, Send, Goto
  <1>3. CASE Again(q) /\ UNCHANGED <<issued, try, timedOut>>
    BY <1>3, SMTT(30) DEF Again, Goto
  <1>4. CASE Authenticate(q)
    BY <1>4, SMTT(30) DEF Authenticate, Ask, Goto
  <1>5. CASE Request(q)
    BY <1>5, SMTT(30) DEF Request, Ask, SendOrLogIn, Goto
  <1>6. CASE OwnLogin(q)
    BY <1>6, SMTT(30) DEF OwnLogin, Goto, Send
  <1>7. CASE GiveUp(q) /\ UNCHANGED <<issued, try, timedOut>>
    BY <1>7, SMTT(30) DEF GiveUp, Goto, AfterError
  <1>8. CASE Unreachable(q) \/ Retriable(q)
    BY <1>8, SMTT(30) DEF Unreachable, Retriable, Goto, AfterError
  <1>9. CASE OtherError(q) \/ TimesOut(q) \/ Answers(q)
    BY <1>9, SMTT(30) DEF OtherError, TimesOut, Answers, Goto, AfterError
  <1> QED BY <1>1, <1>2, <1>3, <1>4, <1>5, <1>6, <1>7, <1>8, <1>9 DEF Begin, Hear, Refuses

LEMMA OthersStay ==
  ASSUME TokenInv, NEW p \in Requests, NEW q \in Requests, p # q,
         Begin(p) \/ Wake(p) \/ OwnLogin(p) \/ Hear(p)
  PROVE  pc'[q] = pc[q]
  <1> USE DEF TokenInv, TokenTypeOK, RequestTypeOK, Goto
  <1>1. CASE Begin(p)
    BY <1>1 DEF Begin, Get, Authenticate, Request, SendOrLogIn
  <1>2. CASE Wake(p) \/ OwnLogin(p)
    BY <1>2 DEF Wake, OwnLogin, Send
  <1>3. CASE Hear(p)
    BY <1>3 DEF Hear, Refuses, Again, GiveUp, Unreachable, Retriable, OtherError, TimesOut, Answers
  <1> QED BY <1>1, <1>2, <1>3

LEMMA LoginMoves ==
  ASSUME TokenInv, Login, NEW q \in Requests, pc'[q] # pc[q]
  PROVE  try'[q] = try[q] /\ Rank[pc'[q]] < Rank[pc[q]]
  <1>1. q \notin Gets => pc[q] \notin {"login", "relogin"}
    BY DEF TokenInv, TokenTypeOK, RequestTypeOK, GetStages
  <1>2. /\ pc[q] \in {"login", "relogin"} /\ UNCHANGED try
        /\ pc'[q] \in {"backoff", "failed", Woken(q)}
    BY <1>1 DEF Login, LoginSucceeds, LoginFails, LoginTimesOut, Waiting, Woken, AfterError
  <1> QED BY <1>2 DEF Woken, Rank

\* A request ends after at most ten moves for each of its tries: no order of
\* refusals, pauses, lost tokens and logins makes the client go round.  That it
\* makes the next of them is the fairness of the run.
THEOREM ProgressCorrect == Spec => EveryMoveIsProgress
  <1>1. TokenInv /\ [Next]_vars => (\A q \in Requests : pc'[q] # pc[q] => Left(q)' < Left(q))
    <2> SUFFICES ASSUME TokenInv, [Next]_vars, NEW q \in Requests, pc'[q] # pc[q]
                 PROVE  Left(q)' < Left(q)
      OBVIOUS
    <2>1. ~(UNCHANGED vars \/ \E u \in Users : Expire(u))
      BY DEF vars, Expire
    <2>2. \/ try'[q] = try[q] /\ Rank[pc'[q]] < Rank[pc[q]]
          \/ try'[q] = try[q] + 1
      BY <2>1, MoveStep, OthersStay, LoginMoves DEF Next
    <2>3. try[q] \in Nat /\ Tries[q] \in Nat /\ pc[q] \in Stages /\ pc'[q] \in Stages
      BY StepInv, UsersOfRequests DEF TokenInv, TokenTypeOK, RequestTypeOK
    <2>4. Rank[pc[q]] \in 0..9 /\ Rank[pc'[q]] \in 0..9
      BY <2>3, RankType
    <2> HIDE DEF Rank
    <2> QED BY <2>2, <2>3, <2>4 DEF Left
  <1> QED BY <1>1, AlwaysInv, PTL DEF Spec, EveryMoveIsProgress
=============================================================================
