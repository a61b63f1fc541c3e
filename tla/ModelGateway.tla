---------------------------- MODULE ModelGateway ----------------------------
(***************************************************************************)
(* The way to the paid language model: DailyCallBudget wrapped around      *)
(* GeminiLanguageModel (bootstrap.build_language_model and                 *)
(* build_fact_source build exactly that chain), with the usage counter the *)
(* budget increments and the provider at the far end.                      *)
(*                                                                         *)
(* A member of Calls is one execution of DailyCallBudget.generate.  The    *)
(* executions interleave at their awaits: the counter's transaction, the   *)
(* wait of the pacer, the request itself and the sleeps between attempts.  *)
(* Those waits have no exact length here: a sleep of some seconds may or   *)
(* may not straddle a midnight, and both are behaviours of the model.      *)
(*                                                                         *)
(* Time is counted in ticks, TicksPerDay of them in a UTC day.  The        *)
(* provider's quota renews when a date begins in Los Angeles: Midnights is *)
(* that calendar, the sequence of the instants its dates begin at.  They   *)
(* keep no hour of the UTC day (07:00 in summer, 08:00 in winter) and no   *)
(* distance (a date on which the clocks change lasts 23 or 25 hours), so   *)
(* nothing is assumed of them but that they follow each other and that the *)
(* clock runs between the first and the last.                              *)
(***************************************************************************)
EXTENDS Integers, Sequences, FiniteSets

CONSTANTS
    Calls,          \* executions of DailyCallBudget.generate
    DailyLimit,     \* settings.llm_daily_call_budget
    MaxAttempts,    \* RetryPolicy.max_attempts
    TicksPerDay,    \* resolution of the clock
    Midnights,      \* the instants at which the dates of Los Angeles begin
    Start,          \* bound: the clock starts there
    Horizon,        \* bound: the clock stops there
    MaxCrashes      \* bound: restarts of the process

ASSUME CallsFinite == IsFiniteSet(Calls)
ASSUME LimitsAreNat == DailyLimit \in Nat /\ MaxAttempts \in Nat \ {0}
ASSUME ClockShape ==
    /\ TicksPerDay \in Nat \ {0}
    /\ Start \in Nat
    /\ Horizon \in Nat
    /\ Start <= Horizon
    /\ MaxCrashes \in Nat
ASSUME CalendarShape ==
    /\ Midnights \in Seq(Nat)
    /\ \A d, e \in 1 .. Len(Midnights) : d < e => Midnights[d] < Midnights[e]
    /\ Len(Midnights) > 1
    /\ Midnights[1] <= Start
    /\ Horizon < Midnights[Len(Midnights)]

VARIABLES
    durable,      \* there is a database: PostgresUsageCounter, else InMemoryUsageCounter
    now,          \* the clock
    usage,        \* llm_daily_usage: day -> calls
    blockedUntil, \* GeminiLanguageModel._blocked_until, 0 for None
    pc,           \* where each call waits
    day,          \* the day each call is charged to, read when it started
    ticket,       \* what the counter returned to each call, 0 before
    attempt,      \* the retry loop's attempt, 0 before the loop
    sent,         \* history: every request put on the wire and its UTC day
    spent,        \* history: Pacific dates this process was told had no quota left
    barred,       \* history: calls outside the loop when the block was last set
    born,         \* history: restarts before each call began
    crashes       \* restarts so far

vars == <<durable, now, usage, blockedUntil, pc, day, ticket, attempt, sent,
          spent, barred, born, crashes>>

-----------------------------------------------------------------------------
UtcDay(t) == t \div TicksPerDay

Days == 0 .. Horizon

Dates == 1 .. (Len(Midnights) - 1)

(* now.astimezone(QUOTA_RESET_TIMEZONE).date()                             *)
PacificDate(t) == CHOOSE d \in Dates : Midnights[d] <= t /\ t < Midnights[d + 1]

(* A plausible bug: the quota is taken to renew 24 hours after it last     *)
(* did, whether or not the clocks change in between.                       *)
MutantNextQuotaReset(t) == Midnights[PacificDate(t)] + TicksPerDay

(* The beginning of the next date: the first Pacific midnight after t.     *)
NextQuotaReset(t) == Midnights[PacificDate(t) + 1]

Waiting == {"counting", "counted", "pacing", "sending", "sleeping"}

Requests == [call : Calls, attempt : 1 .. MaxAttempts, on : Days]

TypeOK ==
    /\ durable \in BOOLEAN
    /\ now \in Start .. Horizon
    /\ usage \in [Days -> Nat]
    /\ blockedUntil \in Nat
    /\ pc \in [Calls -> Waiting \cup {"new", "done"}]
    /\ day \in [Calls -> Days]
    /\ ticket \in [Calls -> Nat]
    /\ attempt \in [Calls -> 0 .. MaxAttempts]
    /\ sent \subseteq Requests
    /\ spent \subseteq Dates
    /\ barred \subseteq Calls
    /\ crashes \in 0 .. MaxCrashes
    /\ born \in [Calls -> 0 .. crashes]

Init ==
    /\ durable \in BOOLEAN
    /\ now = Start
    /\ usage = [d \in Days |-> 0]
    /\ blockedUntil = 0
    /\ pc = [c \in Calls |-> "new"]
    /\ day = [c \in Calls |-> 0]
    /\ ticket = [c \in Calls |-> 0]
    /\ attempt = [c \in Calls |-> 0]
    /\ sent = {}
    /\ spent = {}
    /\ barred = {}
    /\ born = [c \in Calls |-> 0]
    /\ crashes = 0

-----------------------------------------------------------------------------
(* The budget: one increment of the day's row, then the limit.             *)

(* generate() comes back: with an answer of the provider, LanguageModelError *)
(* or QuotaExhaustedError.  What its caller does of each is FactPipeline's. *)
End(c) == pc' = [pc EXCEPT ![c] = "done"]

(* generate() reads today() and hands it to the counter.                   *)
Begin(c) ==
    /\ pc[c] = "new"
    /\ pc' = [pc EXCEPT ![c] = "counting"]
    /\ day' = [day EXCEPT ![c] = UtcDay(now)]
    /\ born' = [born EXCEPT ![c] = crashes]
    /\ UNCHANGED <<durable, now, usage, blockedUntil, ticket, attempt, sent,
                   spent, barred, crashes>>

(* A plausible bug: the upsert returns what it read, not what it wrote.    *)
MutantCountReturnsOld(c) ==
    /\ pc[c] = "counting"
    /\ usage' = [usage EXCEPT ![day[c]] = @ + 1]
    /\ ticket' = [ticket EXCEPT ![c] = usage[day[c]]]
    /\ pc' = [pc EXCEPT ![c] = "counted"]
    /\ UNCHANGED <<durable, now, blockedUntil, day, attempt, sent, spent, barred,
                   born, crashes>>

(* The upsert commits and its value reaches the caller.                    *)
Count(c) ==
    /\ pc[c] = "counting"
    /\ usage' = [usage EXCEPT ![day[c]] = @ + 1]
    /\ ticket' = [ticket EXCEPT ![c] = usage[day[c]] + 1]
    /\ pc' = [pc EXCEPT ![c] = "counted"]
    /\ UNCHANGED <<durable, now, blockedUntil, day, attempt, sent, spent, barred,
                   born, crashes>>

(* A plausible bug: an unreachable counter lets the call through.          *)
MutantFailOpen(c) ==
    /\ pc[c] = "counting"
    /\ pc' = [pc EXCEPT ![c] = "pacing"]
    /\ attempt' = [attempt EXCEPT ![c] = 1]
    /\ UNCHANGED <<durable, now, usage, blockedUntil, day, ticket, sent, spent,
                   barred, born, crashes>>

(* The increment raises.  The transaction may nevertheless have committed  *)
(* (the acknowledgement was lost, the command timed out), when the counter *)
(* is the database's.  Either way the model is not called.                 *)
CountFails(c) ==
    /\ pc[c] = "counting"
    /\ durable
    /\ \/ usage' = usage
       \/ usage' = [usage EXCEPT ![day[c]] = @ + 1]
    /\ End(c)
    /\ UNCHANGED <<durable, now, blockedUntil, day, ticket, attempt, sent, spent,
                   barred, born, crashes>>

(* used > daily_limit.                                                     *)
Refuse(c) ==
    /\ pc[c] = "counted"
    /\ ticket[c] > DailyLimit
    /\ End(c)
    /\ UNCHANGED <<durable, now, usage, blockedUntil, day, ticket, attempt, sent,
                   spent, barred, born, crashes>>

-----------------------------------------------------------------------------
(* The adapter: the block, then the retry loop.                            *)

Blocked == blockedUntil # 0 /\ now < blockedUntil

FailFast(c) ==
    /\ pc[c] = "counted"
    /\ ticket[c] <= DailyLimit
    /\ Blocked
    /\ End(c)
    /\ UNCHANGED <<durable, now, usage, blockedUntil, day, ticket, attempt, sent,
                   spent, barred, born, crashes>>

(* A plausible bug: the stored block is cleared without looking at it.     *)
MutantEnterLoopUnblocks(c) ==
    /\ pc[c] = "counted"
    /\ ticket[c] <= DailyLimit
    /\ blockedUntil' = 0
    /\ pc' = [pc EXCEPT ![c] = "pacing"]
    /\ attempt' = [attempt EXCEPT ![c] = 1]
    /\ UNCHANGED <<durable, now, usage, day, ticket, sent, spent, barred, born,
                   crashes>>

(* No block, or one that is over and is cleared here.                      *)
EnterLoop(c) ==
    /\ pc[c] = "counted"
    /\ ticket[c] <= DailyLimit
    /\ ~Blocked
    /\ blockedUntil' = 0
    /\ pc' = [pc EXCEPT ![c] = "pacing"]
    /\ attempt' = [attempt EXCEPT ![c] = 1]
    /\ UNCHANGED <<durable, now, usage, day, ticket, sent, spent, barred, born,
                   crashes>>

(* acquire() returned: the request starts.                                 *)
Send(c) ==
    /\ pc[c] = "pacing"
    /\ sent' = sent \cup {[call |-> c, attempt |-> attempt[c], on |-> UtcDay(now)]}
    /\ pc' = [pc EXCEPT ![c] = "sending"]
    /\ UNCHANGED <<durable, now, usage, blockedUntil, day, ticket, attempt, spent,
                   barred, born, crashes>>

(* The loop is left for good: an answer (facts, nothing, or something that *)
(* does not fit the schema), or a status that asking again cannot improve. *)
Settle(c) ==
    /\ pc[c] = "sending"
    /\ End(c)
    /\ UNCHANGED <<durable, now, usage, blockedUntil, day, ticket, attempt, sent,
                   spent, barred, born, crashes>>

(* A 429 whose details name a PerDay quota.                                *)
DailyQuotaSpent(c) ==
    /\ pc[c] = "sending"
    /\ blockedUntil' = NextQuotaReset(now)
    /\ spent' = spent \cup {PacificDate(now)}
    /\ barred' = {x \in Calls : attempt[x] = 0}
    /\ End(c)
    /\ UNCHANGED <<durable, now, usage, day, ticket, attempt, sent, born,
                   crashes>>

(* A plausible bug: the loop never gives up.                               *)
MutantRetryAlways(c) ==
    /\ pc[c] = "sending"
    /\ pc' = [pc EXCEPT ![c] = "sleeping"]
    /\ UNCHANGED <<durable, now, usage, blockedUntil, day, ticket, attempt, sent,
                   spent, barred, born, crashes>>

(* A transient status, the timeout of wait_for or a transport error, with  *)
(* attempts left: the call sleeps, the suggested delay or the backoff.     *)
RetryLater(c) ==
    /\ pc[c] = "sending"
    /\ attempt[c] < MaxAttempts
    /\ pc' = [pc EXCEPT ![c] = "sleeping"]
    /\ UNCHANGED <<durable, now, usage, blockedUntil, day, ticket, attempt, sent,
                   spent, barred, born, crashes>>

GiveUp(c) ==
    /\ pc[c] = "sending"
    /\ attempt[c] = MaxAttempts
    /\ End(c)
    /\ UNCHANGED <<durable, now, usage, blockedUntil, day, ticket, attempt, sent,
                   spent, barred, born, crashes>>

(* A plausible bug: the attempt is not counted.                            *)
MutantResumeSameAttempt(c) ==
    /\ pc[c] = "sleeping"
    /\ pc' = [pc EXCEPT ![c] = "pacing"]
    /\ UNCHANGED <<durable, now, usage, blockedUntil, day, ticket, attempt, sent,
                   spent, barred, born, crashes>>

(* The sleep is over: the next attempt asks the pacer again.  The block is *)
(* not read again.                                                         *)
Resume(c) ==
    /\ pc[c] = "sleeping"
    /\ pc' = [pc EXCEPT ![c] = "pacing"]
    /\ attempt' = [attempt EXCEPT ![c] = @ + 1]
    /\ UNCHANGED <<durable, now, usage, blockedUntil, day, ticket, sent, spent,
                   barred, born, crashes>>

-----------------------------------------------------------------------------
Tick ==
    /\ now < Horizon
    /\ now' = now + 1
    /\ UNCHANGED <<durable, usage, blockedUntil, pc, day, ticket, attempt, sent,
                   spent, barred, born, crashes>>

(* The process dies.  The calls under way die with it, and so do the block *)
(* and an in-memory counter; the database's row stays.                     *)
Restart ==
    /\ crashes < MaxCrashes
    /\ crashes' = crashes + 1
    /\ pc' = [c \in Calls |-> IF pc[c] \in Waiting THEN "done" ELSE pc[c]]
    /\ blockedUntil' = 0
    /\ spent' = {}
    /\ usage' = IF durable THEN usage ELSE [d \in Days |-> 0]
    /\ UNCHANGED <<durable, now, day, ticket, attempt, sent, barred, born>>

CallStep(c) ==
    \/ Begin(c) \/ Count(c) \/ CountFails(c) \/ Refuse(c)
    \/ FailFast(c) \/ EnterLoop(c) \/ Send(c) \/ Settle(c)
    \/ DailyQuotaSpent(c) \/ RetryLater(c) \/ GiveUp(c) \/ Resume(c)

Next == (\E c \in Calls : CallStep(c)) \/ Tick \/ Restart

(* Every wait inside a call ends: transactions and requests carry timeouts *)
(* and a sleep returns.  Nothing makes a call begin, nor a restart happen. *)
(* It is enough that the event loop keeps running some call that can go on. *)
Fairness == WF_vars(\E c \in Calls : pc[c] # "new" /\ CallStep(c))

Spec == Init /\ [][Next]_vars /\ Fairness

-----------------------------------------------------------------------------
(* Properties.                                                             *)

(* The calls charged to day d that put at least one request on the wire.   *)
Admitted(d) == {c \in Calls : day[c] = d /\ \E r \in sent : r.call = c}

RequestsCharged(d) == {r \in sent : day[r.call] = d}

(* The counters a day may have been charged to: the row of the database,   *)
(* or one per life of the process (bootstrap.py:62-67).                    *)
Counters == IF durable THEN 1 ELSE crashes + 1

(* Over any interleaving of concurrent calls, lost acknowledgements and    *)
(* restarts, no more calls of a day reach the provider than the budget     *)
(* allows: what DailyCallBudget.generate promises with a durable counter.  *)
(* Without one, every restart gives the day a new budget, and no more.     *)
AdmittedWithinLimit ==
    \A d \in Days : Cardinality(Admitted(d)) <= DailyLimit * Counters

(* What a day's budget can really spend: the limit bounds calls, and each  *)
(* call bounds its own requests, so a day is charged with at most          *)
(* limit * max_attempts requests a counter.                                *)
RequestsWithinBudget ==
    \A d \in Days :
        Cardinality(RequestsCharged(d)) <= (DailyLimit * Counters) * MaxAttempts

(* DailyCallBudget fails closed: the row of the day (the counter of this   *)
(* life of the process) never shows fewer calls than have reached the      *)
(* provider, whatever fails in between.                                    *)
NeverSpentUncounted ==
    \A d \in Days :
        Cardinality({c \in Admitted(d) : durable \/ born[c] = crashes}) <= usage[d]

(* Once the provider has reported the day's quota spent, no call that was  *)
(* not yet in its retry loop sends a request before the date changes in    *)
(* Los Angeles: _blocked_until bars the calls of every caller.             *)
NewCallsBarred ==
    [][\A r \in sent' \ sent :
          PacificDate(now) \in spent => r.call \notin barred]_vars

(* The adapter is blocked on exactly the Pacific dates on which it was     *)
(* told that the quota is spent: never an hour short of the midnight nor   *)
(* past it, also when the clocks change, when a 429 arrives after the      *)
(* midnight or when a later one sets a block again (gemini.py:91-94,       *)
(* 153-156, 172); only a restart forgets.                                  *)
BlockedOnSpentDays == Blocked <=> PacificDate(now) \in spent

(* generate() always comes back: with facts, an invalid answer or an error *)
(* the caller can turn into a warning, whatever the provider does.         *)
EveryCallEnds == <>[](\A c \in Calls : pc[c] \notin Waiting)

(* Where the retry loop's counter stands at its awaits.                    *)
LoopInv ==
    \A c \in Calls :
        /\ pc[c] \in {"pacing", "sending", "sleeping"} => attempt[c] # 0
        /\ pc[c] = "sleeping" => attempt[c] < MaxAttempts

(* The tickets of two calls came from the same counter.                    *)
SameCounter(c, e) == day[c] = day[e] /\ (durable \/ born[c] = born[e])

(* The inductive strengthening of the three bounds above: the tickets a    *)
(* counter gives are distinct values it has shown, the calls under way     *)
(* belong to this life of the process, a call enters the retry loop with a *)
(* ticket within the limit, and a request belongs to a call in (or past)   *)
(* the loop, once per attempt.                                             *)
LedgerInv ==
    /\ \A c \in Calls : durable \/ born[c] = crashes => ticket[c] <= usage[day[c]]
    /\ \A c, e \in Calls :
          c # e /\ SameCounter(c, e) /\ ticket[c] # 0 => ticket[c] # ticket[e]
    /\ \A c \in Calls : pc[c] \in Waiting => born[c] = crashes
    /\ \A c \in Calls : pc[c] \in {"new", "counting"} => ticket[c] = 0
    /\ \A c \in Calls : pc[c] = "counted" => ticket[c] # 0
    /\ \A c \in Calls : pc[c] \in {"new", "counting", "counted"} => attempt[c] = 0
    /\ \A c \in Calls : attempt[c] # 0 => ticket[c] # 0 /\ ticket[c] <= DailyLimit
    /\ \A r \in sent : r.attempt <= attempt[r.call]
    /\ \A r \in sent : pc[r.call] = "pacing" => r.attempt # attempt[r.call]
    /\ \A r, q \in sent : r.call = q.call /\ r.attempt = q.attempt => r = q

(* What budget.py:4-5 says: a maximum number of model calls per UTC day.   *)
RequestsPerDayWithinLimit ==
    \A d \in Days : Cardinality({r \in sent : r.on = d}) <= DailyLimit

(* What gemini.py:115-116 says: until the reset every call fails fast,     *)
(* without sending requests that Google still counts.                      *)
NothingSentWhileBlocked == [][sent' # sent => ~Blocked]_vars
=============================================================================
