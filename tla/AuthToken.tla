----------------------------- MODULE AuthToken -----------------------------
(***************************************************************************)
(* The authentication-token cache of auth/token.go in one process: the     *)
(* globals currentToken and expiration guarded by cond.L, callers blocked  *)
(* in AuthToken on the condition variable, unlocked AuthTokenNonBlocking   *)
(* readers, and the one goroutine that feeds the cache, either TokenLoop   *)
(* (Source = "loop": fetch, updateToken, sleep until one minute before     *)
(* expiry, retry after 10s on error) or WatchTokenFile (Source = "file":   *)
(* loadToken at start, then NotifyOnChange registers the file watch, then  *)
(* loadToken on every change event of the token file, which another        *)
(* process rewrites with ioutil.WriteFile: truncate, then write).          *)
(*                                                                         *)
(* Time is counted in units of 10 seconds: expirationDelta is 1 unit, the  *)
(* refresh margin of TokenLoop 6 units.                                    *)
(***************************************************************************)
EXTENDS Integers

CONSTANTS
    Tokens,          \* token strings a TokenFunc or the token file can hold
    Callers,         \* goroutines calling AuthToken
    Peekers,         \* goroutines calling AuthTokenNonBlocking
    Source,          \* "loop" (TokenLoop) or "file" (WatchTokenFile)
    Lifetimes,       \* expires - now of the tokens TokenFunc returns
    MaxTime,         \* bound on the clock
    MaxWrites,       \* bound on rewrites of the token file
    FetchFaults,     \* may TokenFunc fail?
    ReadFaults,      \* may ioutil.ReadFile fail?
    WatchFaults,     \* may NotifyOnChange fail?
    IdReaders,       \* goroutines calling CurrentIdentity
    IdentityOf       \* ParseJWTIdentity: the identity of a token, or
                     \* NoIdentity when it does not parse

ASSUME /\ Source \in {"loop", "file"}
       /\ Lifetimes \subseteq Nat \ {0}
       /\ MaxTime \in Nat /\ MaxWrites \in Nat
       /\ {FetchFaults, ReadFaults, WatchFaults} \subseteq BOOLEAN

Empty    == "empty"      \* the empty token string ""
ZeroTime == -1           \* zerotime: expiration.IsZero()
Delta    == 1            \* expirationDelta = 10 * time.Second
Margin   == 6            \* time.Duration(1*time.Minute) in TokenLoop
Retry    == 1            \* time.After(10 * time.Second) after an error
NoIdentity == "nilIdentity"  \* a nil Identity

VARIABLES
    now,                       \* the clock
    currentToken, expiration,  \* the cache
    updating,                  \* cond.L held by updateToken
    waiting,                   \* callers parked in cond.Wait
    cpc, got,                  \* AuthToken callers: control, returned token
    ppc, pres,                 \* AuthTokenNonBlocking: control, result
    dpc, utok, uexp, wake,     \* feeding goroutine: control, the token and
                               \* expiry being stored, timer deadline
    file, fev, wpend, writes,  \* token file, pending fsnotify event, token
                               \* the writer is writing, writes so far
    watching,                  \* NotifyOnChange has registered the watch
    notified,                  \* (history) the last write to the file came
                               \* before the initial read or while watching
    currentIdentity,           \* the identity of the cached token
    ipc, gotId                 \* CurrentIdentity callers: control, the
                               \* identity returned

cache  == <<currentToken, expiration, updating, waiting>>
users  == <<cpc, got, ppc, pres>>
feeder == <<dpc, utok, uexp, wake>>
disk   == <<file, fev, wpend, writes, watching, notified>>
ident  == <<currentIdentity, ipc, gotId>>
vars   == <<now, cache, users, feeder, disk, ident>>

-----------------------------------------------------------------------------

\* expired(): an empty token is expired; a zero expiration never expires;
\* otherwise expiration - expirationDelta is before now
Expired ==
    \/ currentToken = Empty
    \/ expiration # ZeroTime /\ expiration - Delta < now

-----------------------------------------------------------------------------
(* updateToken(token, expires, filename), shared by both feeders           *)

\* getIdentityFromToken(token): nil when ParseJWTIdentity fails
GetIdentityFromToken(t) == IdentityOf[t]

\* cond.L.Lock(); currentToken = token;
\* currentIdentity = getIdentityFromToken(token)
UpdateToken1 ==
    /\ dpc = "u1"
    /\ updating' = TRUE
    /\ currentToken' = utok
    /\ currentIdentity' = GetIdentityFromToken(utok)
    /\ dpc' = "u2"
    /\ UNCHANGED <<ipc, gotId, now, expiration, waiting, users, utok, uexp, wake, disk>>

\* mutant: updateToken returns without cond.L.Unlock()
UpdateToken2KeepLock ==
    /\ dpc = "u2"
    /\ expiration' = uexp
    /\ dpc' = "u3"
    /\ UNCHANGED <<ident, now, currentToken, updating, waiting, users, utok, uexp,
                   wake, disk>>

\* expiration = expires; WriteFile(filename) in loop mode; cond.L.Unlock()
UpdateToken2 ==
    /\ dpc = "u2"
    /\ expiration' = uexp
    /\ updating' = FALSE
    /\ dpc' = "u3"
    /\ UNCHANGED <<ident, now, currentToken, waiting, users, utok, uexp, wake, disk>>

\* mutant: cond.Signal() wakes a single waiter
Signal ==
    \/ waiting = {} /\ UNCHANGED <<ident, waiting, cpc>>
    \/ \E c \in waiting : /\ waiting' = waiting \ {c}
                         /\ cpc' = [cpc EXCEPT ![c] = "woken"]

\* cond.Broadcast(): every waiter goes back to re-acquire cond.L
Broadcast ==
    /\ waiting' = {}
    /\ cpc' = [c \in Callers |-> IF c \in waiting THEN "woken" ELSE cpc[c]]

\* mutant: TokenLoop sleeps until the expiry itself, without the minute
UpdateToken3NoMargin ==
    /\ dpc = "u3"
    /\ Broadcast
    /\ \/ Source = "loop" /\ dpc' = "sleep" /\ wake' = uexp
       \/ Source = "file" /\ dpc' = (IF watching THEN "idle" ELSE "watch")
          /\ UNCHANGED wake
    /\ UNCHANGED <<ident, now, currentToken, expiration, updating, got, ppc, pres,
                   utok, uexp, disk>>

\* cond.Broadcast(), then back to the feeder: TokenLoop computes
\* refresh := time.Unix(expires, 0).Sub(now()) - 1 minute and sleeps on it;
\* WatchTokenFile registers the watch after the initial load, and otherwise
\* waits for the next file event
UpdateToken3 ==
    /\ dpc = "u3"
    /\ Broadcast
    /\ \/ Source = "loop" /\ dpc' = "sleep" /\ wake' = uexp - Margin
       \/ Source = "file" /\ dpc' = (IF watching THEN "idle" ELSE "watch")
          /\ UNCHANGED wake
    /\ UNCHANGED <<ident, now, currentToken, expiration, updating, got, ppc, pres,
                   utok, uexp, disk>>

-----------------------------------------------------------------------------
(* TokenLoop(f, tokenfile, done)                                           *)

\* RefreshToken: f() returns a token that expires Lifetime units from now
FetchOk ==
    /\ dpc = "fetch"
    /\ \E t \in Tokens, l \in Lifetimes :
          /\ utok' = t
          /\ uexp' = now + l
    /\ dpc' = "u1"
    /\ UNCHANGED <<ident, now, cache, users, wake, disk>>

\* f() failed: wait 10s and retry
FetchFail ==
    /\ dpc = "fetch"
    /\ FetchFaults
    /\ dpc' = "retry"
    /\ wake' = now + Retry
    /\ UNCHANGED <<ident, now, cache, users, utok, uexp, disk>>

\* the time.After of the refresh or of the retry fires
TimerFires ==
    /\ dpc \in {"sleep", "retry"}
    /\ wake <= now
    /\ dpc' = "fetch"
    /\ UNCHANGED <<ident, now, cache, users, utok, uexp, wake, disk>>

-----------------------------------------------------------------------------
(* WatchTokenFile(tokenfile, done)                                         *)

\* loadToken: ReadFile, then updateToken(string(data), zerotime, "") even
\* when the read failed and data is empty
LoadToken ==
    /\ dpc = "read"
    /\ \/ utok' = file
       \/ ReadFaults /\ utok' = Empty
    /\ uexp' = ZeroTime
    /\ dpc' = "u1"
    /\ UNCHANGED <<ident, now, cache, users, wake, disk>>

\* NotifyOnChange(tokenfile, Write|Create, done); on error WatchTokenFile
\* returns it and the file is never loaded again
WatchStart ==
    /\ dpc = "watch"
    /\ \/ watching' = TRUE /\ dpc' = "idle"
       \/ WatchFaults /\ dpc' = "exit" /\ UNCHANGED watching
    /\ UNCHANGED <<ident, now, cache, users, utok, uexp, wake, file, fev,
                   wpend, writes, notified>>

\* for _ = range filechangechan: a Write or Create event arrives
FileEvent ==
    /\ dpc = "idle"
    /\ fev
    /\ fev' = FALSE
    /\ dpc' = "read"
    /\ UNCHANGED <<ident, now, cache, users, utok, uexp, wake, file, wpend,
                   writes, watching, notified>>

\* another process rewrites the file: ioutil.WriteFile truncates it ...
\* (fsnotify reports a change only once the watch is registered)
WriterTruncate ==
    /\ Source = "file"
    /\ wpend = Empty
    /\ writes < MaxWrites
    /\ \E t \in Tokens : wpend' = t
    /\ file' = Empty
    /\ fev' = (fev \/ watching)
    /\ writes' = writes + 1
    /\ UNCHANGED <<ident, now, cache, users, feeder, watching, notified>>

\* ... and then writes the new token
WriterWrite ==
    /\ wpend # Empty
    /\ file' = wpend
    /\ wpend' = Empty
    /\ fev' = (fev \/ watching)
    /\ notified' = (watching \/ dpc = "read")
    /\ UNCHANGED <<ident, now, cache, users, feeder, writes, watching>>

-----------------------------------------------------------------------------
(* AuthToken and AuthTokenNonBlocking                                      *)

\* mutant: `if expired() { cond.Wait() }` returns without re-checking
AuthTokenIf(c) ==
    /\ \/ cpc[c] = "call" /\ ~updating
          /\ \/ Expired /\ waiting' = waiting \cup {c}
                /\ cpc' = [cpc EXCEPT ![c] = "wait"] /\ UNCHANGED got
             \/ ~Expired /\ got' = [got EXCEPT ![c] = currentToken]
                /\ cpc' = [cpc EXCEPT ![c] = "done"] /\ UNCHANGED waiting
       \/ cpc[c] = "woken" /\ ~updating
          /\ got' = [got EXCEPT ![c] = currentToken]
          /\ cpc' = [cpc EXCEPT ![c] = "done"] /\ UNCHANGED waiting
    /\ UNCHANGED <<ident, now, currentToken, expiration, updating, ppc, pres,
                   feeder, disk>>

\* with cond.L held: for expired() { cond.Wait() }; return currentToken
AuthToken(c) ==
    /\ cpc[c] \in {"call", "woken"}
    /\ ~updating
    /\ \/ Expired /\ waiting' = waiting \cup {c}
          /\ cpc' = [cpc EXCEPT ![c] = "wait"] /\ UNCHANGED got
       \/ ~Expired /\ got' = [got EXCEPT ![c] = currentToken]
          /\ cpc' = [cpc EXCEPT ![c] = "done"] /\ UNCHANGED waiting
    /\ UNCHANGED <<ident, now, currentToken, expiration, updating, ppc, pres,
                   feeder, disk>>

\* no lock: if currentToken == "" { return "", ErrNotAuthenticated }
Peek1(p) ==
    /\ ppc[p] = "p1"
    /\ \/ currentToken = Empty /\ ppc' = [ppc EXCEPT ![p] = "done"]
          /\ pres' = [pres EXCEPT ![p] = "ErrNotAuthenticated"]
       \/ currentToken # Empty /\ ppc' = [ppc EXCEPT ![p] = "p2"]
          /\ UNCHANGED pres
    /\ UNCHANGED <<ident, now, cache, cpc, got, feeder, disk>>

\* no lock: if expired() { return "", ErrIdentityTokenExpired }
Peek2(p) ==
    /\ ppc[p] = "p2"
    /\ \/ Expired /\ ppc' = [ppc EXCEPT ![p] = "done"]
          /\ pres' = [pres EXCEPT ![p] = "ErrIdentityTokenExpired"]
       \/ ~Expired /\ ppc' = [ppc EXCEPT ![p] = "p3"]
          /\ UNCHANGED pres
    /\ UNCHANGED <<ident, now, cache, cpc, got, feeder, disk>>

\* no lock: return currentToken, nil
Peek3(p) ==
    /\ ppc[p] = "p3"
    /\ ppc' = [ppc EXCEPT ![p] = "done"]
    /\ pres' = [pres EXCEPT ![p] = currentToken]
    /\ UNCHANGED <<ident, now, cache, cpc, got, feeder, disk>>

\* CurrentIdentity: with cond.L held, return currentIdentity
CurrentIdentity(i) ==
    /\ ipc[i] = "call"
    /\ ~updating
    /\ gotId' = [gotId EXCEPT ![i] = currentIdentity]
    /\ ipc' = [ipc EXCEPT ![i] = "done"]
    /\ UNCHANGED <<now, cache, currentIdentity, users, feeder, disk>>

-----------------------------------------------------------------------------

\* the feeder's steps take no time; the clock stops at a due timer
Tick ==
    /\ Source = "loop"
    /\ now < MaxTime
    /\ dpc \in {"sleep", "retry"}
    /\ wake > now
    /\ now' = now + 1
    /\ UNCHANGED <<ident, cache, users, feeder, disk>>

Init ==
    /\ now = 0
    /\ currentToken = Empty
    /\ expiration = ZeroTime
    /\ updating = FALSE
    /\ waiting = {}
    /\ cpc = [c \in Callers |-> "call"]
    /\ got = [c \in Callers |-> Empty]
    /\ ppc = [p \in Peekers |-> "p1"]
    /\ pres = [p \in Peekers |-> "none"]
    /\ dpc = IF Source = "loop" THEN "fetch" ELSE "read"
    /\ utok = Empty /\ uexp = ZeroTime /\ wake = 0
    /\ file \in Tokens \cup {Empty}
    /\ fev = FALSE /\ wpend = Empty /\ writes = 0
    /\ watching = FALSE /\ notified = TRUE
    /\ currentIdentity = NoIdentity
    /\ ipc = [i \in IdReaders |-> "call"]
    /\ gotId = [i \in IdReaders |-> NoIdentity]

Feeder ==
    \/ FetchOk \/ FetchFail \/ TimerFires \/ LoadToken \/ WatchStart
    \/ FileEvent
    \/ UpdateToken1 \/ UpdateToken2 \/ UpdateToken3

Next ==
    \/ Feeder \/ Tick \/ WriterTruncate \/ WriterWrite
    \/ \E c \in Callers : AuthToken(c)
    \/ \E p \in Peekers : Peek1(p) \/ Peek2(p) \/ Peek3(p)
    \/ \E i \in IdReaders : CurrentIdentity(i)

\* Goroutines run; a caller contends for cond.L with updateToken and gets
\* it eventually (strong fairness); timers fire and the writer finishes.
Fairness ==
    /\ WF_vars(Feeder) /\ WF_vars(Tick) /\ WF_vars(WriterWrite)
    /\ \A c \in Callers : SF_vars(AuthToken(c))
    /\ \A p \in Peekers : WF_vars(Peek1(p) \/ Peek2(p) \/ Peek3(p))
    /\ \A i \in IdReaders : WF_vars(CurrentIdentity(i))

Spec == Init /\ [][Next]_vars /\ Fairness

-----------------------------------------------------------------------------
(* Properties                                                              *)

\* Every variable has its type, and updateToken holds cond.L exactly
\* while it stores the token and its expiration.
TypeOK ==
    /\ now \in 0..MaxTime
    /\ currentToken \in Tokens \cup {Empty}
    /\ expiration \in Int
    /\ updating \in BOOLEAN
    /\ waiting \subseteq Callers
    /\ cpc \in [Callers -> {"call", "wait", "woken", "done"}]
    /\ ppc \in [Peekers -> {"p1", "p2", "p3", "done"}]
    /\ dpc \in {"fetch", "retry", "sleep", "u1", "u2", "u3", "read", "watch",
                "idle", "exit"}
    /\ file \in Tokens \cup {Empty}
    /\ ipc \in [IdReaders -> {"call", "done"}]
    \* and cond.L is held exactly between the two halves of updateToken
    /\ updating = (dpc = "u2")

\* TokenLoop refreshes one minute before expiry, retries every ten seconds
\* after a failed fetch, and expired() allows ten seconds of skew: an
\* expired token is only ever seen in the cache (cond.L free) while the loop
\* is fetching, waiting to retry after a failure, or about to lock cond.L
\* to store a fetched token, never while it sleeps towards the next
\* refresh, whatever the lifetimes
\* TokenFunc hands out.
TokenNeverStale ==
    (~updating /\ currentToken # Empty /\ Expired) => dpc \in {"fetch", "retry", "u1"}

\* AuthToken never hands out the empty token: a caller woken by an
\* updateToken that stored "" (a failed read of the token file) re-checks
\* expired() under cond.L and parks again.
AuthTokenNonEmpty == \A c \in Callers : cpc[c] = "done" => got[c] # Empty

\* If the token file ends up holding a token that WatchTokenFile can see
\* (written before the initial read or after NotifyOnChange registered the
\* watch), every AuthToken caller returns: the initial load and each file
\* event run updateToken, whose Broadcast wakes every parked caller, not
\* just one, and a caller woken by an intermediate "" parks again.
CallersReturnOnceWritten ==
    <>[](file # Empty /\ notified) => \A c \in Callers : <>(cpc[c] = "done")

\* "Watch a token file for changes. Load the token when those changes
\* occur" (WatchTokenFile): once the file keeps a token, the cache ends up
\* holding that token.
FileChangesLoaded == <>[](file # Empty) => <>[](currentToken = file)

\* AuthTokenNonBlocking returns a nil error only with a non-empty token.
NonBlockingTokenOrError ==
    \A p \in Peekers : pres[p] \in Tokens \cup
                        {"none", "ErrNotAuthenticated", "ErrIdentityTokenExpired"}

\* TokenLoop refreshes "periodically": after storing a fetched token it
\* sleeps for a positive time before fetching again.  refresh :=
\* expiration - 1 minute is zero or negative for a token that lives a
\* minute or less, and time.After then fires at once.
RefreshSleeps ==
    [][Source = "loop" /\ dpc = "u3" => wake' > now]_vars

=============================================================================
