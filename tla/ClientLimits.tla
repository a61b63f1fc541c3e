---------------------------- MODULE ClientLimits ----------------------------
(***************************************************************************)
(* ClientRateLimiter: the sliding window per client of the audit routes,   *)
(* and the 429 with Retry-After that enforce_client_limit makes of it.     *)
(* check() has no await, so a call of it is one step.                      *)
(*                                                                         *)
(* The clock counts ticks, Second of them in a second, so that a wait that *)
(* is not a whole number of seconds exists and the rounding matters.       *)
(***************************************************************************)
EXTENDS Integers, Sequences, FiniteSets

CONSTANTS
    Clients,      \* client addresses
    MaxRequests,  \* settings.client_requests_per_hour
    Window,       \* window_seconds, in ticks
    Second,       \* ticks in a second
    MaxTracked,   \* MAX_TRACKED_CLIENTS
    Horizon       \* bound: the clock stops there

ASSUME PositiveLimits ==
    /\ MaxRequests \in Nat \ {0}
    /\ Window \in Nat \ {0}
    /\ Second \in Nat \ {0}
    /\ MaxTracked \in Nat /\ Horizon \in Nat

VARIABLES
    now,       \* the monotonic clock
    hits,      \* tracked client -> the times of its recent requests
    accepted,  \* history: client -> the times of all its accepted requests
    retryAt    \* history: client -> when its last refusal said to come back,
               \* 0 once a request of its was accepted since

vars == <<now, hits, accepted, retryAt>>

TypeOK ==
    /\ now \in 0 .. Horizon
    /\ DOMAIN hits \subseteq Clients
    /\ \A c \in DOMAIN hits : hits[c] \in Seq(0 .. Horizon) /\ Len(hits[c]) <= MaxRequests
    /\ accepted \in [Clients -> Seq(0 .. Horizon)]
    /\ retryAt \in [Clients -> Nat]

Init ==
    /\ now = 0
    /\ hits = << >>
    /\ accepted = [c \in Clients |-> << >>]
    /\ retryAt = [c \in Clients |-> 0]

-----------------------------------------------------------------------------
(* A plausible bug: requests leave the window a tick early.                *)
MutantInWindow(t) == now - t < Window - 1

InWindow(t) == now - t < Window

(* _forget_idle: clients whose last request left the window are dropped.   *)
Busy(h) == h # << >> /\ InWindow(h[Len(h)])

(* A plausible bug: nothing is ever dropped.                               *)
MutantNeverSwept(tracked) == tracked

Swept(tracked) ==
    IF Cardinality(DOMAIN tracked) > MaxTracked
    THEN [c \in {x \in DOMAIN tracked : Busy(tracked[x])} |-> tracked[c]]
    ELSE tracked

(* setdefault.                                                             *)
Hits(tracked, c) == IF c \in DOMAIN tracked THEN tracked[c] ELSE << >>

(* A plausible bug: nobody pops the requests that left the window.         *)
MutantRecent(tracked, c) == Hits(tracked, c)

(* popleft while the oldest is out of the window.                          *)
Recent(tracked, c) ==
    LET h == Hits(tracked, c)
        stays == {i \in 1 .. Len(h) + 1 : i <= Len(h) => InWindow(h[i])}
        oldest == CHOOSE i \in stays : \A j \in stays : i <= j
    IN  SubSeq(h, oldest, Len(h))

Put(tracked, c, h) ==
    [x \in DOMAIN tracked \cup {c} |-> IF x = c THEN h ELSE tracked[x]]

(* A plausible bug: the wait is rounded down.                              *)
MutantWaitSeconds(h) ==
    LET left == (Window - (now - h[1])) \div Second IN IF left > 1 THEN left ELSE 1

(* max(1, ceil(window - (now - hits[0])))                                  *)
WaitSeconds(h) ==
    LET left == (Window - (now - h[1]) + Second - 1) \div Second
    IN  IF left > 1 THEN left ELSE 1

(* A plausible bug: one request too many.                                  *)
MutantAllow(c) ==
    LET tracked == Swept(hits)
        h == Recent(tracked, c)
    IN  /\ Len(h) <= MaxRequests
        /\ hits' = Put(tracked, c, Append(h, now))
        /\ accepted' = [accepted EXCEPT ![c] = Append(@, now)]
        /\ retryAt' = [retryAt EXCEPT ![c] = 0]
        /\ UNCHANGED now

Allow(c) ==
    LET tracked == Swept(hits)
        h == Recent(tracked, c)
    IN  /\ Len(h) < MaxRequests
        /\ hits' = Put(tracked, c, Append(h, now))
        /\ accepted' = [accepted EXCEPT ![c] = Append(@, now)]
        /\ retryAt' = [retryAt EXCEPT ![c] = 0]
        /\ UNCHANGED now

Refuse(c) ==
    LET tracked == Swept(hits)
        h == Recent(tracked, c)
    IN  /\ Len(h) >= MaxRequests
        /\ hits' = Put(tracked, c, h)
        /\ retryAt' = [retryAt EXCEPT ![c] = now + Second * WaitSeconds(h)]
        /\ UNCHANGED <<now, accepted>>

Tick ==
    /\ now < Horizon
    /\ now' = now + 1
    /\ UNCHANGED <<hits, accepted, retryAt>>

Next == Tick \/ \E c \in Clients : Allow(c) \/ Refuse(c)

Spec == Init /\ [][Next]_vars

-----------------------------------------------------------------------------
(* Properties.                                                             *)

(* No client gets more than max_requests accepted in any window, wherever  *)
(* the window starts and whatever was forgotten in between.                *)
AtMostMaxPerWindow ==
    \A c \in Clients : \A i \in 1 .. Len(accepted[c]) - MaxRequests :
        accepted[c][i + MaxRequests] - accepted[c][i] >= Window

(* Retry-After is enough: a client that was refused and has had nothing    *)
(* accepted since is not refused again once the time it was told is over.  *)
RetryAfterSuffices ==
    [][\A c \in Clients :
          Refuse(c) /\ retryAt[c] # 0 => now < retryAt[c]]_vars

(* Nothing is refused without cause: at a refusal, max_requests accepted   *)
(* requests of that same client lie in the window.                         *)
RefusedOnlyAtTheLimit ==
    [][\A c \in Clients : Refuse(c) =>
          Cardinality({i \in DOMAIN accepted[c] : now - accepted[c][i] < Window})
              >= MaxRequests]_vars

(* What the sweep bounds: called with more clients tracked than the limit, *)
(* check keeps none but those with a request in the window, and the one it *)
(* serves.                                                                 *)
SweepForgetsTheIdle ==
    [][\A c \in Clients :
          (Allow(c) \/ Refuse(c)) /\ Cardinality(DOMAIN hits) > MaxTracked =>
              \A x \in DOMAIN hits' \ {c} :
                  \E i \in DOMAIN accepted[x] : now - accepted[x][i] < Window]_vars

(* The inductive strengthening: a client's log is in order, what the table *)
(* holds is the end of it, all that is not there left the window, and the  *)
(* last refusal told when the oldest of the last max_requests will have.   *)
LogOf(log, h) ==
    /\ \A i, j \in DOMAIN log : i <= j => log[i] <= log[j]
    /\ \A i \in DOMAIN log : log[i] <= now
    /\ Len(h) <= Len(log)
    /\ \A i \in DOMAIN h : h[i] = log[Len(log) - Len(h) + i]
    /\ \A i \in 1 .. Len(log) - Len(h) : ~InWindow(log[i])

RetryOf(log, retry) ==
    retry # 0 =>
        /\ Len(log) >= MaxRequests
        /\ retry >= log[Len(log) - MaxRequests + 1] + Window

LogInv ==
    \A c \in Clients :
        LogOf(accepted[c], Hits(hits, c)) /\ RetryOf(accepted[c], retryAt[c])
=============================================================================
