--------------------------- MODULE RequestPacing ----------------------------
(***************************************************************************)
(* MinIntervalRateLimiter: every request to the provider first gets a slot *)
(* here, under an asyncio.Lock that is held while the slot is awaited.     *)
(*                                                                         *)
(* The lock serves its waiters in order of arrival.  A caller whose slot   *)
(* is already due has no await inside the lock, so for it taking the lock, *)
(* reading the clock and starting its request are one step.  A sleep ends  *)
(* at its time or later: the event loop may be busy when it is due.        *)
(***************************************************************************)
EXTENDS Integers, Sequences

CONSTANTS
    Callers,    \* tasks that call acquire
    Interval,   \* 60 / requests_per_minute, in ticks
    Nobody,     \* not a caller: the lock is free
    Horizon     \* bound: nobody calls acquire after that time

ASSUME IntervalIsNat == Interval \in Nat /\ Horizon \in Nat
ASSUME NobodyIsNoCaller == Nobody \notin Callers

VARIABLES
    now,      \* the monotonic clock
    nextSlot, \* _next_slot
    queue,    \* the lock's waiters, in order
    holder,   \* who sleeps holding the lock
    slot,     \* the slot the holder sleeps for
    starts    \* history: when each request started

vars == <<now, nextSlot, queue, holder, slot, starts>>

TypeOK ==
    /\ now \in Nat
    /\ nextSlot \in Nat
    /\ queue \in Seq(Callers)
    /\ \A i, j \in 1 .. Len(queue) : queue[i] = queue[j] => i = j
    /\ \A i \in 1 .. Len(queue) : queue[i] # holder
    /\ holder \in Callers \cup {Nobody}
    /\ slot \in Nat
    /\ starts \in Seq(Nat)

Init ==
    /\ now = 0
    /\ nextSlot = 0
    /\ queue = << >>
    /\ holder = Nobody
    /\ slot = 0
    /\ starts = << >>

-----------------------------------------------------------------------------
Waits(c) == holder = c \/ \E i \in 1 .. Len(queue) : queue[i] = c

(* A caller reaches the lock.                                              *)
Call(c) ==
    /\ ~Waits(c)
    /\ now <= Horizon
    /\ queue' = Append(queue, c)
    /\ UNCHANGED <<now, nextSlot, holder, slot, starts>>

(* A plausible bug: the slot is computed from the clock alone.             *)
MutantNewSlot == now

(* slot = max(now, self._next_slot)                                        *)
NewSlot == IF now > nextSlot THEN now ELSE nextSlot

(* The first waiter gets the lock and a slot that is due: it goes on.      *)
Pass ==
    /\ holder = Nobody
    /\ queue # << >>
    /\ NewSlot = now
    /\ nextSlot' = NewSlot + Interval
    /\ queue' = Tail(queue)
    /\ starts' = Append(starts, now)
    /\ UNCHANGED <<now, holder, slot>>

(* A plausible bug: the waiter is not taken out of the queue.              *)
MutantSleep ==
    /\ holder = Nobody
    /\ queue # << >>
    /\ NewSlot > now
    /\ nextSlot' = NewSlot + Interval
    /\ slot' = NewSlot
    /\ holder' = Head(queue)
    /\ UNCHANGED <<now, queue, starts>>

(* The first waiter gets the lock and a slot in the future: it sleeps.     *)
Sleep ==
    /\ holder = Nobody
    /\ queue # << >>
    /\ NewSlot > now
    /\ nextSlot' = NewSlot + Interval
    /\ slot' = NewSlot
    /\ holder' = Head(queue)
    /\ queue' = Tail(queue)
    /\ UNCHANGED <<now, starts>>

(* A plausible bug: the lock is not released after the sleep.              *)
MutantWake ==
    /\ holder # Nobody
    /\ now >= slot
    /\ Len(starts) = 0 \/ starts[Len(starts)] # now
    /\ starts' = Append(starts, now)
    /\ UNCHANGED <<now, nextSlot, queue, slot, holder>>

(* The sleep is over: the lock is released and the request starts.         *)
Wake ==
    /\ holder # Nobody
    /\ now >= slot
    /\ holder' = Nobody
    /\ starts' = Append(starts, now)
    /\ UNCHANGED <<now, nextSlot, queue, slot>>

(* Time passes up to the horizon, and after it while somebody sleeps.      *)
Tick ==
    /\ now < Horizon \/ (holder # Nobody /\ now < slot)
    /\ now' = now + 1
    /\ UNCHANGED <<nextSlot, queue, holder, slot, starts>>

Next == (\E c \in Callers : Call(c)) \/ Pass \/ Sleep \/ Wake \/ Tick

(* Time passes and the event loop runs what is ready.                      *)
Spec == Init /\ [][Next]_vars /\ WF_vars(Pass \/ Sleep \/ Wake) /\ WF_vars(Tick)

-----------------------------------------------------------------------------
(* Properties.                                                             *)

(* The rate is kept however late the sleeps end (rate_limit.py:9): n + 2    *)
(* requests in a row span at least n intervals.  A late start may bring    *)
(* the next one close, never the next two, and lateness never adds up to   *)
(* more than one extra request.                                            *)
RateIsKept ==
    \A i, j \in 1 .. Len(starts) :
        j >= i + 2 => starts[j] - starts[i] >= (j - i - 1) * Interval

(* The inductive strengthening of RateIsKept, n requests after the start:  *)
(* the next slot is, or the sleeper's slot is, as many intervals after any *)
(* start but the last as there were requests since; a late wake-up leaves  *)
(* the last start out of it while the lock is free.                        *)
PacingInv ==
    /\ \A i \in 1 .. Len(starts) : starts[i] <= now
    /\ holder = Nobody =>
          \A i \in 1 .. (Len(starts) - 1) :
              nextSlot >= starts[i] + (Len(starts) - i) * Interval
    /\ holder # Nobody =>
          /\ nextSlot = slot + Interval
          /\ \A i \in 1 .. Len(starts) :
                slot >= starts[i] + (Len(starts) - i) * Interval

(* Every caller gets its turn: no lock is left taken, no waiter forgotten. *)
EveryoneStarts == \A c \in Callers : Waits(c) ~> ~Waits(c)
=============================================================================
