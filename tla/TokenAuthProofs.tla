--------------------------- MODULE TokenAuthProofs ---------------------------
(***************************************************************************)
(* TokenAuth keeps its types, never puts an older token back into the      *)
(* cache and never hands out an expired one: for any number of coroutines, *)
(* any clock and any margin that covers the time an answer takes.          *)
(***************************************************************************)
EXTENDS TokenAuth, TLAPS

USE DEF cache, sso, Tokens

\* The actions of the clients leave the types alone.
LEMMA TypeStep == TypeOK /\ [Next]_vars => TypeOK'
<1> SUFFICES ASSUME TypeOK, [Next]_vars PROVE TypeOK'
  OBVIOUS
<1> USE ConstantsAssumption DEF TypeOK
<1>1. ASSUME NEW c \in Clients, Request(c) PROVE TypeOK'
  BY <1>1 DEF Request, Use
<1>2. ASSUME NEW c \in Clients, Locked(c) PROVE TypeOK'
  <2>1. CASE Use(c, token) /\ UNCHANGED lock
    BY <1>2, <2>1 DEF Locked, Use
  <2>2. CASE Post(c)
    BY <1>2, <2>2 DEF Locked, Post
  <2> QED
    BY <1>2, <2>1, <2>2 DEF Locked
<1>3. ASSUME NEW c \in Clients, SsoIssues(c) PROVE TypeOK'
  BY <1>3 DEF SsoIssues
<1>4. ASSUME NEW c \in Clients, FetchReturns(c) PROVE TypeOK'
  BY <1>4 DEF FetchReturns, Use
<1>5. ASSUME NEW c \in Clients, ExpiryMalformed(c) PROVE TypeOK'
  BY <1>5 DEF ExpiryMalformed, Over
<1>6. ASSUME NEW c \in Clients, RequestFails(c) PROVE TypeOK'
  BY <1>6 DEF RequestFails, Failed, Over
<1>7. ASSUME NEW c \in Clients, RadarAccepts(c) PROVE TypeOK'
  BY <1>7 DEF RadarAccepts, Over
<1>8. ASSUME NEW c \in Clients, RadarRefuses(c) PROVE TypeOK'
  <2>1. CASE attempt[c] = 1 /\ Over(c)
    BY <1>8, <2>1 DEF RadarRefuses, Over
  <2>2. CASE attempt' = [attempt EXCEPT ![c] = 1] /\ pc' = [pc EXCEPT ![c] = "wait"] /\ UNCHANGED using
    BY <1>8, <2>2 DEF RadarRefuses
  <2> QED
    BY <1>8, <2>1, <2>2 DEF RadarRefuses
<1>9. CASE Tick
  BY <1>9 DEF Tick
<1>10. CASE Revoke
  BY <1>10 DEF Revoke
<1>11. CASE UNCHANGED vars
  BY <1>11 DEF vars
<1> QED
  BY <1>1, <1>2, <1>3, <1>4, <1>5, <1>6, <1>7, <1>8, <1>9, <1>10, <1>11
  DEF Next, Fetched, Answered

\* Every variable keeps its type: in particular no request is retried twice
\* (attempt), and only a client holds the lock.
THEOREM TypeCorrect == Spec => []TypeOK
<1>1. Init => TypeOK
  BY ConstantsAssumption DEF Init, TypeOK
<1> QED
  BY <1>1, TypeStep, PTL DEF Spec

-----------------------------------------------------------------------------
\* Only the holder of the lock fetches.
FetchLocked == \A c \in Clients : pc[c] = "fetch" => lock = c

\* An answer on its way is newer than the cache, its token has been issued, and
\* it is read in time to be used.
ReplyFresh ==
    \A c \in Clients : reply[c] # 0 =>
        /\ pc[c] = "fetch"
        /\ reply[c] <= issued
        /\ reply[c] > token
        /\ now + Life <= ends[reply[c]] + MaxLatency
        /\ expires <= ends[reply[c]] + MaxLatency

\* The agent's idea of the expiry exceeds the SSO's by MaxLatency at most.
CacheAlive ==
    /\ token <= issued
    /\ expires <= now + Life
    /\ token # 0 => expires <= ends[token] + MaxLatency

Inv == TypeOK /\ FetchLocked /\ ReplyFresh /\ CacheAlive

\* Nothing is issued or cached at first.
LEMMA InvInit == Init => Inv
  BY ConstantsAssumption DEF Init, Inv, TypeOK, FetchLocked, ReplyFresh, CacheAlive

\* Only the holder of the lock touches the cache, with the newest token.
LEMMA InvStep == Inv /\ [Next]_vars => Inv'
<1> SUFFICES ASSUME Inv, [Next]_vars PROVE FetchLocked' /\ ReplyFresh' /\ CacheAlive'
  BY TypeStep DEF Inv
<1>t. TypeOK /\ TypeOK'
  BY TypeStep DEF Inv
<1>a. /\ now \in Nat /\ token \in Nat /\ expires \in Nat /\ issued \in Nat
      /\ Life \in Nat /\ MaxLatency \in Nat /\ MaxTokens \in Nat
      /\ token <= MaxTokens /\ issued <= MaxTokens
      /\ \A c \in Clients : reply[c] \in Nat /\ reply[c] <= MaxTokens
      /\ \A t \in 1..MaxTokens : ends[t] \in Nat
  <2>1. \A c \in Clients : reply[c] \in 0..MaxTokens
    BY <1>t DEF TypeOK
  <2>2. \A t \in 1..MaxTokens : ends[t] \in Nat
    BY <1>t DEF TypeOK
  <2>3. token \in 0..MaxTokens /\ issued \in 0..MaxTokens /\ now \in Nat /\ expires \in Nat
    BY <1>t DEF TypeOK
  <2> QED
    BY <2>1, <2>2, <2>3, ConstantsAssumption
<1>f. /\ pc \in [Clients -> {"idle", "wait", "fetch", "send"}]
      /\ reply \in [Clients -> 0..MaxTokens]
      /\ ends \in [1..MaxTokens -> Nat]
      /\ lock \in Clients \cup {Nobody}
  BY <1>t DEF TypeOK
<1>i. FetchLocked /\ ReplyFresh /\ CacheAlive
  BY DEF Inv
<1> USE DEF FetchLocked, ReplyFresh, CacheAlive
\* Actions that leave the cache, the answers and the clock alone.
<1>1. ASSUME NEW c \in Clients, Request(c) PROVE FetchLocked' /\ ReplyFresh' /\ CacheAlive'
  BY ONLY <1>1, <1>i, <1>a, <1>f DEF Request, Use, FetchLocked, ReplyFresh, CacheAlive, cache, sso
<1>2. ASSUME NEW c \in Clients, Locked(c) PROVE FetchLocked' /\ ReplyFresh' /\ CacheAlive'
  BY ONLY <1>2, <1>i, <1>a, <1>f, ConstantsAssumption DEF Locked, Post, Use, FetchLocked, ReplyFresh, CacheAlive, cache, sso
<1>3. ASSUME NEW c \in Clients, SsoIssues(c) PROVE FetchLocked' /\ ReplyFresh' /\ CacheAlive'
  BY ONLY <1>3, <1>i, <1>a, <1>f DEF SsoIssues, FetchLocked, ReplyFresh, CacheAlive, cache
<1>4. ASSUME NEW c \in Clients, FetchReturns(c) PROVE FetchLocked' /\ ReplyFresh' /\ CacheAlive'
  BY ONLY <1>4, <1>i, <1>a, <1>f DEF FetchReturns, Use, FetchLocked, ReplyFresh, CacheAlive
<1>5. ASSUME NEW c \in Clients, ExpiryMalformed(c) PROVE FetchLocked' /\ ReplyFresh' /\ CacheAlive'
  BY ONLY <1>5, <1>i, <1>a, <1>f DEF ExpiryMalformed, Over, FetchLocked, ReplyFresh, CacheAlive
<1>6. ASSUME NEW c \in Clients, RequestFails(c) PROVE FetchLocked' /\ ReplyFresh' /\ CacheAlive'
  BY ONLY <1>6, <1>i, <1>a, <1>f DEF RequestFails, Failed, Over, FetchLocked, ReplyFresh, CacheAlive
<1>7. ASSUME NEW c \in Clients, Answered(c) PROVE FetchLocked' /\ ReplyFresh' /\ CacheAlive'
  <2>1. /\ UNCHANGED <<now, token, expires, lock, reply, ends, issued>>
        /\ pc[c] = "send" /\ pc' \in {[pc EXCEPT ![c] = "wait"], [pc EXCEPT ![c] = "idle"]}
    <3>1. CASE RadarAccepts(c)
      BY ONLY <3>1 DEF RadarAccepts, Over, cache, sso
    <3>2. CASE RadarRefuses(c)
      BY ONLY <3>2 DEF RadarRefuses, Over, cache, sso
    <3> QED
      BY <1>7, <3>1, <3>2 DEF Answered
  <2> QED
    BY ONLY <2>1, <1>i, <1>a, <1>f DEF FetchLocked, ReplyFresh, CacheAlive
<1>9. CASE Tick
  BY ONLY <1>9, <1>i, <1>a, <1>f DEF Tick, FetchLocked, ReplyFresh, CacheAlive, cache, sso
<1>10. CASE Revoke
  BY ONLY <1>10, <1>i, <1>a, <1>f DEF Revoke, FetchLocked, ReplyFresh, CacheAlive, cache
<1>11. CASE UNCHANGED vars
  BY ONLY <1>11, <1>i DEF vars, FetchLocked, ReplyFresh, CacheAlive, cache, sso
<1> QED
  BY <1>1, <1>2, <1>3, <1>4, <1>5, <1>6, <1>7, <1>9, <1>10, <1>11 DEF Next, Fetched

\* The inductive invariant holds of every behaviour.
LEMMA InvHolds == Spec => []Inv
  BY InvInit, InvStep, PTL DEF Spec

-----------------------------------------------------------------------------
\* Refreshes one after the other: the shared cache only ever moves to a newer
\* token, whatever retries, failures and revocations interleave.
THEOREM CacheMonotoneHolds == Spec => CacheMonotone
<1>1. Inv /\ [Next]_vars => token' >= token
  <2> SUFFICES ASSUME Inv, [Next]_vars PROVE token' >= token
    OBVIOUS
  <2>1. token \in Nat /\ ReplyFresh /\ \A c \in Clients : reply[c] \in Nat
    BY ConstantsAssumption DEF Inv, TypeOK
  <2>2. ASSUME NEW c \in Clients, Fetched(c) PROVE token' >= token
    BY <2>1, <2>2 DEF Fetched, FetchReturns, ExpiryMalformed, ReplyFresh
  <2>3. CASE token' = token
    BY <2>1, <2>3
  <2>4. \/ token' = token
        \/ \E c \in Clients : Fetched(c)
    BY DEF Next, vars, Request, Locked, SsoIssues, RequestFails, Failed,
           Answered, RadarAccepts, RadarRefuses, Tick, Revoke
  <2> QED
    BY <2>2, <2>3, <2>4
<1> QED
  BY <1>1, InvHolds, PTL DEF Spec, CacheMonotone

\* A token is alive when get_token hands it out: fresh by the cache's expiry, which
\* exceeds the true one by less than the margin, or straight from the SSO.
THEOREM ReturnedAliveHolds == Spec => ReturnedAlive
<1> DEFINE Alive == \A c \in Clients :
                        pc[c] # "send" /\ pc'[c] = "send" => now < ends[using'[c]]
<1>1. Inv /\ [Next]_vars => Alive
  <2> SUFFICES ASSUME Inv, [Next]_vars, NEW d \in Clients, pc[d] # "send", pc'[d] = "send"
               PROVE now < ends[using'[d]]
    OBVIOUS
  <2>1. /\ now \in Nat /\ expires \in Nat /\ token \in 0..MaxTokens
        /\ \A t \in 1..MaxTokens : ends[t] \in Nat
        /\ \A c \in Clients : reply[c] \in 0..MaxTokens
        /\ MaxTokens \in Nat /\ Margin \in Nat /\ MaxLatency \in Nat /\ Life \in Nat
    BY ConstantsAssumption DEF Inv, TypeOK
  <2>2. /\ pc \in [Clients -> {"idle", "wait", "fetch", "send"}]
        /\ using \in [Clients -> 0..MaxTokens]
    BY DEF Inv, TypeOK
  <2>3. ReplyFresh /\ CacheAlive
    BY DEF Inv
  <2>4. ASSUME Fresh PROVE now < ends[token]
    BY ONLY <2>1, <2>3, <2>4, LatencyAssumption DEF Fresh, CacheAlive
  <2>5. ASSUME reply[d] # 0 PROVE now < ends[reply[d]]
    BY ONLY <2>1, <2>3, <2>5, LatencyAssumption DEF ReplyFresh
  <2>6. ASSUME NEW c \in Clients, NEW t, Use(c, t) PROVE c = d /\ using'[d] = t
    BY <2>2, <2>6 DEF Use
  <2>7. ASSUME NEW c \in Clients, Request(c) PROVE now < ends[using'[d]]
    <3>1. Fresh /\ Use(c, token)
      BY <2>2, <2>7 DEF Request
    <3> QED
      BY <3>1, <2>4, <2>6
  <2>8. ASSUME NEW c \in Clients, Locked(c) PROVE now < ends[using'[d]]
    <3>1. Fresh /\ Use(c, token)
      BY <2>2, <2>8 DEF Locked, Post
    <3> QED
      BY <3>1, <2>4, <2>6
  <2>9. ASSUME NEW c \in Clients, FetchReturns(c) PROVE now < ends[using'[d]]
    <3>1. Use(c, reply[c]) /\ reply[c] # 0
      BY <2>9 DEF FetchReturns
    <3> QED
      BY <3>1, <2>5, <2>6
  <2>10. \E c \in Clients : Request(c) \/ Locked(c) \/ FetchReturns(c)
    BY <2>2 DEF Next, vars, SsoIssues, Fetched, ExpiryMalformed, RequestFails, Failed,
           Answered, RadarAccepts, RadarRefuses, Over, Tick, Revoke
  <2> QED
    BY <2>7, <2>8, <2>9, <2>10
<1> QED
  BY <1>1, InvHolds, PTL DEF Spec, ReturnedAlive

-----------------------------------------------------------------------------
\* What a client sends has been issued, what it is about to read is newer still,
\* and a retry belongs to a request under way.
RetryInv ==
    \A c \in Clients :
        /\ using[c] <= issued
        /\ reply[c] # 0 => using[c] < reply[c]
        /\ pc[c] = "idle" => attempt[c] = 0

\* Nobody retries at first.
LEMMA RetryInit == Init => RetryInv
<1> SUFFICES ASSUME Init, NEW c \in Clients
             PROVE  /\ using[c] <= issued
                    /\ reply[c] # 0 => using[c] < reply[c]
                    /\ pc[c] = "idle" => attempt[c] = 0
  BY DEF RetryInv
<1>1. issued = 0 /\ using[c] = 0 /\ reply[c] = 0 /\ attempt[c] = 0
  BY DEF Init
<1>2. using[c] <= issued
  BY <1>1
<1> QED
  BY <1>1, <1>2

\* What a retry sends was issued after what was refused.
LEMMA RetryStep == Inv /\ RetryInv /\ [Next]_vars => RetryInv'
<1> SUFFICES ASSUME Inv, RetryInv, [Next]_vars PROVE RetryInv'
  OBVIOUS
<1>a. /\ token \in Nat /\ token <= issued /\ issued \in Nat /\ MaxTokens \in Nat
      /\ \A c \in Clients : reply[c] \in Nat /\ using[c] \in Nat
      /\ \A c \in Clients : reply[c] # 0 => pc[c] = "fetch" /\ reply[c] <= issued
  BY ConstantsAssumption DEF Inv, TypeOK, CacheAlive, ReplyFresh
<1>f. /\ pc \in [Clients -> {"idle", "wait", "fetch", "send"}]
      /\ attempt \in [Clients -> {0, 1}]
      /\ using \in [Clients -> 0..MaxTokens]
      /\ reply \in [Clients -> 0..MaxTokens]
  BY DEF Inv, TypeOK
<1>1. ASSUME NEW c \in Clients, Request(c) PROVE RetryInv'
  BY ONLY <1>1, <1>a, <1>f, RetryInv DEF Request, Use, RetryInv, sso
<1>2. ASSUME NEW c \in Clients, Locked(c) PROVE RetryInv'
  <2>1. CASE Use(c, token)
    BY ONLY <1>2, <2>1, <1>a, <1>f, RetryInv DEF Locked, Use, RetryInv, sso
  <2>2. CASE Post(c)
    BY ONLY <1>2, <2>2, <1>a, <1>f, RetryInv DEF Locked, Post, RetryInv, sso
  <2> QED
    BY <1>2, <2>1, <2>2 DEF Locked
<1>3. ASSUME NEW c \in Clients, SsoIssues(c) PROVE RetryInv'
  BY ONLY <1>3, <1>a, <1>f, RetryInv DEF SsoIssues, RetryInv
<1>4. ASSUME NEW c \in Clients, FetchReturns(c) PROVE RetryInv'
  BY ONLY <1>4, <1>a, <1>f, RetryInv DEF FetchReturns, Use, RetryInv
<1>5. ASSUME NEW c \in Clients, Over(c), UNCHANGED issued,
             reply' \in {reply, [reply EXCEPT ![c] = 0]}
      PROVE RetryInv'
  BY ONLY <1>5, <1>a, <1>f, RetryInv DEF Over, RetryInv
<1>6. ASSUME NEW c \in Clients, ExpiryMalformed(c) \/ RequestFails(c) \/ RadarAccepts(c)
      PROVE RetryInv'
  BY <1>5, <1>6 DEF ExpiryMalformed, RequestFails, Failed, RadarAccepts
<1>7. ASSUME NEW c \in Clients, RadarRefuses(c) PROVE RetryInv'
  <2>1. CASE Over(c)
    BY <1>5, <1>7, <2>1 DEF RadarRefuses
  <2>2. CASE /\ attempt' = [attempt EXCEPT ![c] = 1]
             /\ pc' = [pc EXCEPT ![c] = "wait"]
             /\ UNCHANGED using
    BY ONLY <1>7, <2>2, <1>a, <1>f, RetryInv DEF RadarRefuses, RetryInv, sso
  <2> QED
    BY <1>7, <2>1, <2>2 DEF RadarRefuses
<1>8. CASE UNCHANGED <<pc, attempt, using, reply, issued>>
  BY ONLY <1>8, RetryInv DEF RetryInv
<1> QED
  BY <1>1, <1>2, <1>3, <1>4, <1>6, <1>7, <1>8
  DEF Next, Fetched, Answered, Tick, Revoke, vars

\* The token of a retry is newer than the one RADAR refused: a retry never takes
\* the cache, so it reads an answer issued behind everything it ever sent.
THEOREM RetryFreshHolds == Spec => RetryFresh
<1> DEFINE Newer == \A c \in Clients :
                        attempt[c] = 1 /\ pc[c] # "send" /\ pc'[c] = "send"
                            => using'[c] > using[c]
<1>1. Inv /\ RetryInv /\ [Next]_vars => Newer
  <2> SUFFICES ASSUME Inv, RetryInv, [Next]_vars, NEW d \in Clients,
                      attempt[d] = 1, pc[d] # "send", pc'[d] = "send"
               PROVE using'[d] > using[d]
    OBVIOUS
  <2>1. /\ pc \in [Clients -> {"idle", "wait", "fetch", "send"}]
        /\ using \in [Clients -> 0..MaxTokens]
        /\ \A c \in Clients : reply[c] \in Nat /\ using[c] \in Nat
    BY ConstantsAssumption DEF Inv, TypeOK
  <2>2. ASSUME NEW c \in Clients, Request(c) PROVE FALSE
    BY <2>1, <2>2 DEF Request, Use, RetryInv
  <2>3. ASSUME NEW c \in Clients, Locked(c) PROVE FALSE
    BY <2>1, <2>3 DEF Locked, Use, Post
  <2>4. ASSUME NEW c \in Clients, FetchReturns(c) PROVE using'[d] > using[d]
    <3>1. c = d /\ using'[d] = reply[d] /\ reply[d] # 0
      BY <2>1, <2>4 DEF FetchReturns, Use
    <3> QED
      BY <3>1, <2>1 DEF RetryInv
  <2>5. \E c \in Clients : Request(c) \/ Locked(c) \/ FetchReturns(c)
    BY <2>1 DEF Next, vars, SsoIssues, Fetched, ExpiryMalformed, RequestFails, Failed,
           Answered, RadarAccepts, RadarRefuses, Over, Tick, Revoke
  <2> QED
    BY <2>2, <2>3, <2>4, <2>5
<1> QED
  BY <1>1, RetryInit, RetryStep, InvHolds, PTL DEF Spec, RetryFresh

-----------------------------------------------------------------------------
(* Single flight.                                                          *)

\* The lock is held by the client that fetches, and by nobody when none does.
LockExact == \A c \in Clients : pc[c] = "fetch" <=> lock = c

\* A fetch begins by taking the free lock and gives it back however it ends.
LEMMA LockStep == TypeOK /\ LockExact /\ [Next]_vars => LockExact'
<1> SUFFICES ASSUME TypeOK, LockExact, [Next]_vars PROVE LockExact'
  OBVIOUS
<1>f. /\ pc \in [Clients -> {"idle", "wait", "fetch", "send"}]
      /\ Nobody \notin Clients
  BY ConstantsAssumption DEF TypeOK
<1>1. ASSUME NEW c \in Clients, NEW p \in {"idle", "wait", "send"}, pc[c] # "fetch",
             pc' = [pc EXCEPT ![c] = p], lock' = lock
      PROVE  LockExact'
  BY <1>1, <1>f DEF LockExact
<1>2. ASSUME NEW c \in Clients, NEW p \in {"idle", "send"}, pc[c] = "fetch",
             pc' = [pc EXCEPT ![c] = p], lock' = Nobody
      PROVE  LockExact'
  BY <1>2, <1>f DEF LockExact
<1>3. ASSUME NEW c \in Clients, Request(c) PROVE LockExact'
  BY <1>1, <1>3 DEF Request, Use, cache
<1>4. ASSUME NEW c \in Clients, Locked(c) PROVE LockExact'
  <2>1. CASE Use(c, token) /\ UNCHANGED lock
    BY <1>1, <1>4, <2>1 DEF Locked, Use
  <2>2. CASE Post(c)
    BY <1>4, <1>f, <2>2 DEF Locked, Post, LockExact
  <2> QED
    BY <1>4, <2>1, <2>2 DEF Locked
<1>5. ASSUME NEW c \in Clients, Fetched(c) PROVE LockExact'
  BY <1>2, <1>5 DEF Fetched, FetchReturns, ExpiryMalformed, Use, Over
<1>6. ASSUME NEW c \in Clients, RequestFails(c) PROVE LockExact'
  BY <1>1, <1>2, <1>6 DEF RequestFails, Failed, Over, LockExact
<1>7. ASSUME NEW c \in Clients, Answered(c) PROVE LockExact'
  BY <1>1, <1>7 DEF Answered, RadarAccepts, RadarRefuses, Over, cache
<1>8. CASE UNCHANGED <<pc, lock>>
  BY <1>8 DEF LockExact
<1> QED
  BY <1>3, <1>4, <1>5, <1>6, <1>7, <1>8 DEF Next, SsoIssues, Tick, Revoke, vars, cache

\* With any coroutines, failures and cancellations, at most one request for a token is
\* under way and the lock is held exactly while it is: none leaves the lock behind, so
\* who waits for it waits for a request that ends (async with, token_provider.py).
THEOREM LockHandedOn == Spec => []LockExact
<1>1. Init => LockExact
  BY ConstantsAssumption DEF Init, LockExact
<1> QED
  BY <1>1, LockStep, TypeCorrect, PTL DEF Spec

=============================================================================
