------------------------------ MODULE TokenAuth ------------------------------
(***************************************************************************)
(* The OAuth access token the coroutines of the agent share: workers,      *)
(* heartbeats and lease renewals all send their RADAR requests with the    *)
(* token of one TokenProvider (token_provider.py) and refresh it once when *)
(* RADAR answers 401 (RadarClient._request, radar_client.py).              *)
(*                                                                         *)
(* Tokens are numbered in the order the SSO (external) issues them.  Time  *)
(* counts in units in which the 30 s safety margin is Margin.              *)
(***************************************************************************)
EXTENDS Naturals

CONSTANTS
    Clients,     \* coroutines that send requests
    Nobody,      \* the lock is free
    Margin,      \* the cache gives a token up this long before it expires
    MaxLatency,  \* an answer of the SSO is read within this time
    Life,        \* expires_in, the same for every token of the service account
    MaxTime,     \* bound: the clock
    MaxTokens    \* bound: tokens issued

ASSUME ConstantsAssumption ==
    /\ Nobody \notin Clients
    /\ Margin \in Nat
    /\ MaxLatency \in Nat
    /\ Life \in Nat
    /\ MaxTime \in Nat
    /\ MaxTokens \in Nat

\* The read time-out, 30 s as the margin (service.py 63): a token outlives it.
ASSUME LatencyAssumption ==
    /\ MaxLatency <= Margin
    /\ MaxLatency < Life

VARIABLES
    now,       \* time.monotonic()
    token,     \* _access_token (0: none yet)
    expires,   \* _expires_at
    lock,      \* _lock: the client that holds it
    pc,        \* where each client's request is
    attempt,   \* attempt of _request: 0, or 1 after a 401
    using,     \* the token a client sends
    reply,     \* the token the SSO issued to a client and it has not read
    ends,      \* SSO: when each token expires
    issued,    \* SSO: tokens issued so far
    revoked    \* SSO: tokens up to this one are revoked

cache == <<token, expires, lock>>
sso   == <<reply, ends, issued, revoked>>
vars  == <<now, cache, pc, attempt, using, sso>>

Tokens == 1..MaxTokens

TypeOK ==
    /\ now \in Nat
    /\ token \in 0..MaxTokens
    /\ expires \in Nat
    /\ lock \in Clients \cup {Nobody}
    /\ pc \in [Clients -> {"idle", "wait", "fetch", "send"}]
    /\ attempt \in [Clients -> {0, 1}]
    /\ using \in [Clients -> 0..MaxTokens]
    /\ reply \in [Clients -> 0..MaxTokens]
    /\ ends \in [Tokens -> Nat]
    /\ issued \in 0..MaxTokens
    /\ revoked \in 0..MaxTokens

Init ==
    /\ now = 0
    /\ token = 0
    /\ expires = 0
    /\ lock = Nobody
    /\ pc = [c \in Clients |-> "idle"]
    /\ attempt = [c \in Clients |-> 0]
    /\ using = [c \in Clients |-> 0]
    /\ reply = [c \in Clients |-> 0]
    /\ ends = [t \in Tokens |-> 0]
    /\ issued = 0
    /\ revoked = 0

-----------------------------------------------------------------------------
(* TokenProvider.get_token.                                                *)

\* Mutant: a token counts as fresh until it expires.
Fresh_NoMargin == token # 0 /\ now < expires

Fresh ==
    /\ token # 0
    /\ now + Margin < expires

Use(c, t) ==
    /\ using' = [using EXCEPT ![c] = t]
    /\ pc' = [pc EXCEPT ![c] = "send"]

\* The request of c is over, with its local variables.
Over(c) ==
    /\ pc' = [pc EXCEPT ![c] = "idle"]
    /\ attempt' = [attempt EXCEPT ![c] = 0]
    /\ using' = [using EXCEPT ![c] = 0]

\* A request starts; a fresh token is taken without the lock.
Request(c) ==
    /\ pc[c] = "idle"
    /\ \/ Fresh /\ Use(c, token)
       \/ ~Fresh /\ pc' = [pc EXCEPT ![c] = "wait"] /\ UNCHANGED using
    /\ UNCHANGED <<now, cache, attempt, sso>>

Post(c) ==
    /\ pc' = [pc EXCEPT ![c] = "fetch"]
    /\ lock' = c
    /\ UNCHANGED using

\* Mutant: a retry takes the cached token, too.
Locked_CacheOnRetry(c) ==
    /\ pc[c] = "wait"
    /\ lock = Nobody
    /\ \/ Fresh /\ Use(c, token) /\ UNCHANGED lock
       \/ ~Fresh /\ Post(c)
    /\ UNCHANGED <<now, token, expires, attempt, sso>>

\* Mutant: no lock, every client posts.
Locked_NoLock(c) ==
    /\ pc[c] = "wait"
    /\ Post(c)
    /\ UNCHANGED <<now, token, expires, attempt, sso>>

\* Inside the lock: another client may have refreshed the token meanwhile, which
\* serves a first attempt but not a retry (force_refresh).
Locked(c) ==
    /\ pc[c] = "wait"
    /\ lock = Nobody
    /\ \/ attempt[c] = 0 /\ Fresh /\ Use(c, token) /\ UNCHANGED lock
       \/ ~(attempt[c] = 0 /\ Fresh) /\ Post(c)
    /\ UNCHANGED <<now, token, expires, attempt, sso>>

\* The token endpoint answers; expires_in counts from here.
SsoIssues(c) ==
    /\ pc[c] = "fetch"
    /\ reply[c] = 0
    /\ issued < MaxTokens
    /\ issued' = issued + 1
    /\ ends' = [ends EXCEPT ![issued + 1] = now + Life]
    /\ reply' = [reply EXCEPT ![c] = issued + 1]
    /\ UNCHANGED <<now, cache, pc, attempt, using, revoked>>

\* The answer is read; the agent counts expires_in from now.
FetchReturns(c) ==
    /\ pc[c] = "fetch"
    /\ reply[c] # 0
    /\ token' = reply[c]
    /\ expires' = now + Life
    /\ lock' = Nobody
    /\ Use(c, reply[c])
    /\ reply' = [reply EXCEPT ![c] = 0]
    /\ UNCHANGED <<now, attempt, ends, issued, revoked>>

\* expires_in is no number: the token is stored before int() raises, with the
\* expiry of the token before it.
ExpiryMalformed(c) ==
    /\ pc[c] = "fetch"
    /\ reply[c] # 0
    /\ token' = reply[c]
    /\ lock' = Nobody
    /\ Over(c)
    /\ reply' = [reply EXCEPT ![c] = 0]
    /\ UNCHANGED <<now, expires, ends, issued, revoked>>

Failed(c) ==
    /\ pc[c] # "idle"
    /\ Over(c)
    /\ reply' = [reply EXCEPT ![c] = 0]
    /\ UNCHANGED <<now, token, expires, ends, issued, revoked>>

\* Mutant: the lock stays with a fetch that failed.
RequestFails_KeepsLock(c) == Failed(c) /\ UNCHANGED lock

\* An HTTP error or time-out of either server, or the coroutine is cancelled (a
\* renewal when its scan ends): async with releases the lock.
RequestFails(c) ==
    /\ Failed(c)
    /\ lock' = IF lock = c THEN Nobody ELSE lock

-----------------------------------------------------------------------------
(* RadarClient._request: RADAR's answer.                                   *)

Accepted(t) == now < ends[t] /\ t > revoked

RadarAccepts(c) ==
    /\ pc[c] = "send"
    /\ Accepted(using[c])
    /\ Over(c)
    /\ UNCHANGED <<now, cache, sso>>

\* 401: the first is retried with a token of its own, the second is raised.
RadarRefuses(c) ==
    /\ pc[c] = "send"
    /\ ~Accepted(using[c])
    /\ \/ /\ attempt[c] = 0
          /\ attempt' = [attempt EXCEPT ![c] = 1]
          /\ pc' = [pc EXCEPT ![c] = "wait"]
          /\ UNCHANGED using
       \/ attempt[c] = 1 /\ Over(c)
    /\ UNCHANGED <<now, cache, sso>>

-----------------------------------------------------------------------------
\* An issued token is read, or given up, within MaxLatency.
Tick ==
    /\ now < MaxTime
    /\ \A c \in Clients : reply[c] # 0 => now + Life < ends[reply[c]] + MaxLatency
    /\ now' = now + 1
    /\ UNCHANGED <<cache, pc, attempt, using, sso>>

\* An operator revokes every token issued so far.
Revoke ==
    /\ revoked < issued
    /\ revoked' = issued
    /\ UNCHANGED <<now, cache, pc, attempt, using, reply, ends, issued>>

Fetched(c) == FetchReturns(c) \/ ExpiryMalformed(c)

Answered(c) == RadarAccepts(c) \/ RadarRefuses(c)

Next ==
    \/ \E c \in Clients : \/ Request(c) \/ Locked(c) \/ SsoIssues(c) \/ Fetched(c)
                          \/ RequestFails(c) \/ Answered(c)
    \/ Tick
    \/ Revoke

Spec == Init /\ [][Next]_vars

FetchEnds(c) == pc[c] = "fetch" /\ (Fetched(c) \/ RequestFails(c))
SendEnds(c)  == pc[c] = "send" /\ (Answered(c) \/ RequestFails(c))

\* Requests end by an answer or a time-out, and asyncio.Lock is FIFO.
Fairness == \A c \in Clients : SF_vars(Locked(c)) /\ WF_vars(FetchEnds(c)) /\ WF_vars(SendEnds(c))

FairSpec == Spec /\ Fairness

-----------------------------------------------------------------------------
(* Properties.                                                             *)

\* Once a newer token is in the shared cache no slower refresh puts an older one
\* back (the lock around the fetch, token_provider.py 21-41).
CacheMonotone == [][token' >= token]_vars

\* get_token never hands out a token that has expired at the SSO, although the
\* agent counts expires_in from the arrival of the answer (lines 18-27, 40).
ReturnedAlive ==
    [][\A c \in Clients : pc[c] # "send" /\ pc'[c] = "send" => now < ends[using'[c]]]_vars

\* The retry after a 401 sends a token issued after the refused one, whoever
\* refreshed the cache in between (radar_client.py 23-24).
RetryFresh ==
    [][\A c \in Clients : attempt[c] = 1 /\ pc[c] # "send" /\ pc'[c] = "send"
                              => using'[c] > using[c]]_vars

\* A request ends: the lock is always handed on and a 401 is retried only once.
RequestsEnd == \A c \in Clients : []<>(pc[c] = "idle")

=============================================================================
