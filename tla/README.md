# Verification of the call audit service

TLA+ models of `callaudit`, the service that audits debt collection calls of a
voice agent against a rubric of 21 criteria: what is modelled, what TLC checks
on small instances, and what the TLA+ proof system proves for every value of the
constants. Source paths are relative to `src/callaudit/` unless they begin with
`docs/`.

## 1. The system and its parts

A request brings one conversation or a dataset of them. For each conversation
the service obtains *facts* (pointers to turns, found by a language model),
runs the rubric over them, and saves and returns an audit. A model that fails
degrades the audit to a *partial* one; a database that fails leaves it unsaved.

| Part | Code | State | Operations | Depends on |
|---|---|---|---|---|
| Routes | `adapters/http/routes.py`, `schemas.py`, `errors.py` | none | four POST routes, two reads, refusals 413, 422, 429 | client limit, audit service |
| Client rate limit | `adapters/http/client_limits.py`, `routes.py` | recent request times per client | `check`, the sweep of idle clients | monotonic clock |
| Audit service | `application/audit_service.py` | semaphore; a task per conversation | `audit_conversation`, `audit_dataset`, `get_audit`, `get_run` | fact source, engine, repository |
| Audit repository | `adapters/persistence/postgres.py`, `null.py` | tables `conversation_audits`, `audit_runs` | `save_audit`, `save_run`, reads | Postgres |
| Fact cache | `application/fact_cache.py`, `postgres.py` | table `fact_cache` | `obtain`, `get`, `put` | fact extractor |
| Fact extraction | `application/fact_extraction.py` | attempt, feedback | `obtain`, `extract` | language model, `domain/facts.py` |
| Daily budget | `application/budget.py`, `postgres.py`, `null.py` | row of the day | `generate`, `increment` | UTC clock, Gemini adapter |
| Gemini adapter | `adapters/llm/gemini.py` | `_blocked_until`, attempt | `generate`, retry loop | pacer, provider |
| Request pacing | `adapters/llm/rate_limit.py` | `_next_slot`, a lock | `acquire` | monotonic clock |
| Rubric and engine | `domain/criteria/`, `engine.py`, `scoring.py`, `audit.py`, `facts.py` | none | 21 criteria, evidence, score, severity | text detectors |
| Text detectors | `domain/text/` | none | dates, amounts, digits, patterns | date of the call, customer record |
| Report | `domain/report.py` | none | counts, rates, ranking, average over the audits of a run | |
| Evaluation | `evaluation.py`, `scripts/` | none | a run compared with an annotator's verdicts | report's run |
| The rest | `bootstrap.py`, `config.py`, `prompts.py`, `disabled.py`, `replay.py`, docs pages | none | wiring, templates, local tooling | |

Everything runs on one asyncio event loop. Executions interleave at awaits
only, so the models make one action of what the code does between two awaits.
Several processes may share the database, and the process may be restarted at
any time. What is hard here:

* **Shared state read before an await and used after it**: the block of the
  Gemini adapter, the day a call is charged to, the cache row, the pacer's slot.
* **Calls that fail after they took effect**: an increment, an insert or a save
  that commits while its acknowledgement is lost.
* **Retries at two levels**: the adapter retries transient errors, the extractor
  asks again after a wrong answer.
* **Restarts**: the block, the semaphore, the client table and an in-memory
  counter are lost, tables are kept.
* **Two clocks**: the budget's day ends at midnight UTC, the provider's at
  midnight in Los Angeles, at 07:00 or 08:00 UTC, after a day of 23, 24 or 25
  hours.
* **A read in two statements**: a run and then its audits, while others commit.
* **Criteria that read the same turns**: 21 functions must agree on what was
  disclosed, punished and cited, also when the facts are missing.
* **Numbers and dates as people say them**: an amount in words, a weekday and a
  day around the end of a month or a year.

`PROJECT.json` lists the hazards line by line with the properties that cover them.

What makes each part correct:

| Part | Must hold |
|---|---|
| Budget and adapter | a day's calls and requests stay within bounds that survive failures; nothing is sent uncounted; the block lasts as long as the provider's day and bars; every call ends |
| Pacing | the rate is kept over any stretch; everybody gets a turn |
| Cache and extraction | delivered facts fit the conversation; a row is written once; an identical conversation costs no second call; `obtain` ends |
| Service, repository and routes | what clients are told is true and stays true; runs are stored and read whole; slots are never lost |
| Client limit | never too many in a window, no refusal without cause, an honest `Retry-After`, idle clients forgotten |
| Text detectors | an amount or a date is heard as it was said |
| Report and evaluation | every failure is counted once and ranked by its gravity; every conversation is compared, skipped or missing once |
| Rubric and engine | a partial audit accuses of nothing a complete one does not; every violation has evidence; no double punishment; every disclosure is judged |

## 2. Modules

| Module | Models | Notes |
|---|---|---|
| `ModelGateway` | budget, counters, Gemini adapter | one member of `Calls` is one `DailyCallBudget.generate`; its `pc` is the await it stands at |
| `RequestPacing` | the pacer | the FIFO lock is `queue` and `holder` |
| `FactPipeline` | cache and extractor | one member of `Requests` is one `CachedFactSource.obtain` |
| `AuditService` | service, repository, error handler | a task per conversation, a handler per request |
| `AuditPromise` | | what clients may rely on; `AuditService` implements it |
| `AuditApi` | routes and reads | `AuditService` behind its refusals, with a reader |
| `ClientLimits` | client rate limit | one action per outcome of `check` |
| `Rubric` | criteria, engine, score | operators only, no state |
| `CallDates` | `domain/text/dates.py` | mentions of dates resolved against the call, and a calendar to compare with |
| `SpokenNumbers` | `domain/text/numbers.py` | amounts and digits in words, and how an amount is said |
| `Transcript` | detectors as the rubric sees them | makes of a transcript the turns `Rubric` judges |
| `DatasetReport` | `domain/report.py` | operators over the audits of a run |
| `Evaluation` | `evaluation.py` | a run against the verdicts of an annotator |
| `AuditEngine` | the engine at work | audits one conversation repeatedly, with and without facts |
| `*Proofs` | | the theorems about the module they are named after (`AuditApiProofs`: about `AuditService` too) |
| `Foundations` | | lemmas on numbers and finite sets: extrema, induction, recursion, folds, sums, ranks |
| `MC*` | | instances for TLC |

How they fit together: `AuditApi` extends `AuditService` with what comes before
it (a request is refused or enters) and after it (what was stored is read);
`ClientLimits` is the inside of its refusal 429. `ModelGateway` is what happens
inside one step of `FactPipeline`, from "asking" to its end (an answer, a wrong
answer or an error); `FactPipeline` is what happens while a task of
`AuditService` is "extracting"; `RequestPacing` is the wait "pacing" of
`ModelGateway`. `AuditEngine` extends `Transcript` (itself `Rubric`, `CallDates`
and `SpokenNumbers`) and `Evaluation` (itself `DatasetReport`), so that a
property can follow one turn from its words to the report.
`Rubric!EngineRaises` says when the engine raises, which `AuditService` takes as
the constant `Breaks`; `Rubric!Fits` is the relation that `FactPipeline` takes as
the constant `Fitting`, and `FactPipeline!DeliveredFactsFit` is the assumption
`FactsFit` of `AuditEngine`. Each boundary is modelled from both sides with all
outcomes the other side can produce.

### State and code

`ModelGateway`. `durable` is the deployment: with a database (`usage` is
`llm_daily_usage`) or without (`usage` is the memory of `InMemoryUsageCounter`,
which `Restart` empties and whose increment cannot fail); `blockedUntil` is `_blocked_until`
(0 for `None`); `day` and `ticket` are the argument and the result of
`increment`; `attempt` is the loop variable. `Begin`, `Count`, `CountFails`,
`Refuse` are `budget.py:47-70`; `FailFast`, `EnterLoop`, `Send`, `Settle`,
`DailyQuotaSpent`, `RetryLater`, `GiveUp`, `Resume` are the branches of
`_call_with_retries`. `sent`, `spent` (the dates on which this process was told
that the quota is spent), `barred` and `born` (the restarts before a call began)
are histories that only properties read. What `generate` comes back with is left
to `FactPipeline`.

Time is counted in ticks. UTC days all have the same length; the dates of Los
Angeles, where the quota renews, do not: `Midnights` is the sequence of the
instants at which they begin, `PacificDate` is `now.astimezone(...).date()` and
`NextQuotaReset` the beginning of the next date (`gemini.py:91-94`). Nothing is
assumed of that sequence but its order, so the hour of the midnight and the
length of a date may change as daylight saving changes them. How long a sleep
takes is left open, so that every order of sleeps and midnights is a behaviour.

`FactPipeline`. `store` is the table, `answer` and `origin` are the
`Extraction`. `WriteFails` and `ReadFails` are failing transactions, and a
failed write may have inserted the row. Rows present at the start stand for
older deployments: unreadable, or facts that do not fit. A request of another
process is just another member of `Requests`.

`AuditService`. `task` is where one `_audit` stands, `pc` where the handler
stands; "committed" is the time between the commit and the handler's next step,
in which a failure or a restart may fall. `Fail` leaves the other tasks of the
batch running, as `asyncio.gather` does. `enabled` is chosen at the start: with
or without a database.

`AuditApi`. `gate` is the status a request was refused with, `read` the read
under way. `Problem` is the order of the checks in `routes.py`: the size and the
JSON of an upload, the schema, a single audit that brings several conversations,
the number of conversations. `Refuse` may also be the client limit, at any time.
`GetRun` and `ListAudits` are the two statements of `PostgresAuditRepository.get_run`,
so every step of the service can fall between them; `Unavailable` is a database
that fails at either, or none at all.

`ClientLimits`. `hits` is `_hits`, with the clients themselves coming and going;
`check` has no await, so each call is one step, sweep included. `accepted` and
`retryAt` (when the last refusal said to come back) are histories.

`RequestPacing`. A caller whose slot is due has no await inside the lock and
takes one step (`Pass`); otherwise it sleeps holding the lock (`Sleep`, `Wake`).
`Wake` may come later than its slot, since an event loop only promises "not before".

`CallDates`. A mention is a weekday, a day, a month, a year or a number of days
ahead, each perhaps `Unsaid`. `Ordinal` is `date.toordinal`; `NearestYear` and
`NearestMonth` are the choices `min(candidates, key=...)` makes. A date that
raises (`Unreadable`: a weekday followed by a zero) makes the engine raise where
a criterion looks for a date. `Meant` walks the calendar day by day instead and
keeps the days that agree with all that was said: it is written independently of
the code, as the reference the resolution is checked against.

`SpokenNumbers`. `SpokenRuns`, `WordsToInt`, `ExtractAmounts` and `SpokenDigits`
take the tokens of a turn; `Said` is the reference, the words of an amount.

`Transcript`. A turn brings its words, its amounts in figures, its mentions of
dates and the patterns of the lexicon it matches; `Heard` makes of it a turn of
`Rubric`, with the amount, the due date and the digits compared with the record
of the customer.

`Rubric`. A turn is its speaker, the set of signals the detectors find in its
text, and the first date it states in days from the call. Turns count from 1 and
0 is `None`, so `turn > since` with an absent `since` needs no case. A criterion
is an operator of the call and the facts, a `Finding` a status and the turns cited.

`DatasetReport`, `Evaluation`. A run is a sequence of audits with identifiers
that need not differ. Rates, ratios and scores are whole numbers of the last
digit the code keeps, rounded as the code rounds them. The dictionary by
identifier of `compare_run` is `AuditOf`: the later audit stays.

## 3. Runs

| Run | What it shows | Instance |
|---|---|---|
| `gateway` | bounds of a day's spending, the block and the provider's dates, termination | 3 calls, limit 2, 2 attempts, 3 instants of a date of 23 hours and the next one, 1 restart, with and without a database |
| `facts` | facts fit, rows written once, no second call, termination | 3 requests, 2 conversations, 2 facts, failing cache, leftovers |
| `service` | replies are true, runs stored and read whole, slots kept, refinement of `AuditPromise` | 1 single by upload, a batch of 2 and one too large, 2 slots, a reader, 1 restart, with and without a database, 2 conversations on which the engine raises |
| `clients` | window, refusals, `Retry-After`, sweep | 2 clients, 2 per window of 3 half-second ticks, sweep above 1, 8 instants |
| `pacing` | rate and progress with late sleeps | 3 callers, interval 2, calls up to time 5 |
| `rubric` | what was said is heard, the criteria agree, report and comparison add up | about 1,900 calls in eight families, audited twice |

The bounds are the smallest at which the interesting cases occur. Three calls
over a limit of two is one call too many, with one spare to race; two attempts
make a retry. The ticks of a UTC day are 00:00, 07:00 and 08:00, the instants at
which one of the two dates may change. The clock of `gateway` runs over the date on
which the clocks of Los Angeles go forward: its midnight at 08:00, the UTC one,
and the next at 07:00, an hour short of a day later. The runs
`budget_counts_calls` and `retry_ignores_block` run over the one on which they go
back. A second restart finds nothing a first did not. Two conversations and two facts, one of
which fits one conversation only, are enough for a row that is good for one and
bad for the other; the third request reads what the first two raced for, or failed to store. Three
tasks on two slots make tasks wait across requests, and one reader sees every
commit, since a read changes nothing that another read could. A window that is
not a whole number of seconds makes rounding matter.

The families of `MCAuditEngine` each vary the turns and facts one group of
criteria reads, so every branch of every criterion is taken; criteria of
different groups share only the sensitive turn and the third-party guard, and
those vary together in `Identity` and `ThirdParty`. `DatesSaid` says days up to
thirteen from the call in five forms, on calls at the end of a month and of a
year, at its start, and before 29 February; `DebtsTold` says fifteen amounts in
words, each with and without "mil", "y" and "millones", against three registered
ones, and due dates on both sides of the new year and half a year from the call. Two audits of a call make a
run of the report, with both labelings of its identifiers and three ground
truths for the comparison.

Every passing run has a mutant per property: a definition of the module changed
the way a plausible bug would (named `Mutant...`, next to the definition), under
which TLC finds that property violated.

### Where the code and its documents differ

Six further runs check a sentence of the documentation against the model and
find it violated:

| Run | Sentence | What happens |
|---|---|---|
| `budget_counts_calls` | "a maximum number of model calls per UTC day" (`application/budget.py:4`) | one counted call sends up to `max_attempts` requests. What does hold is `RequestsWithinBudget`: limit times attempts |
| `retry_ignores_block` | "until then every call fails fast, without sending requests that Google still counts" (`gemini.py:115`) | a call inside the loop does not read the block again. What does hold is `NewCallsBarred` |
| `racing_extractions` | "An identical conversation costs no model call and yields the same facts" (`fact_cache.py:11`) | two simultaneous misses deliver two answers. What does hold is `CacheAnswersAgree`, and of the cost `IdenticalCostsNoCall` |
| `engine_error_in_batch` | "Solo esa conversación se degrada; el resto del lote continúa" (`docs/decisiones-tecnicas.md:69`) | an exception of the engine answers the batch with 500. `RaisesOnlyWithoutEvidence` says on which conversations that happens |
| `unsaved_run` | "con `persisted: false` ... y la causa en `warnings`" (`docs/api.md:199`) | a batch that was not saved carries no warning |
| `digits_after_disclosure` | "Solo revela la deuda si los dígitos coinciden con el registro" (`docs/rubrica.md:42`) | a debt told between the question and a wrong answer fails neither R2.b nor R2.c |

Seen while modelling, without a run:

* Spending. Calls refused by the limit or failed by the block still count in the
  day's row, so it shows more calls than were made. `rate_limit.py:9` says "never
  in bursts", yet a sleep that ends late lets the next request start soon after
  it (`RateIsKept` is what holds).
* Service. A warning that an audit was not saved may be untrue (the commit
  happened and its acknowledgement was lost); no document excludes it. A stored
  row that no longer validates makes a read answer 500, where `docs/api.md` knows
  404 and 503. Requests answered 413 or 422 use up the
  client's quota, except a body that is no JSON at all, which FastAPI refuses
  before the limiter runs.
* Dates. A due date more than half a year before the call, said without its year,
  is read in the future. "29 de febrero" without a year, when none of the three
  years around the call is a leap year, names nothing. "lunes 31 de abril" is
  read as "lunes 31", since 31 April does not exist. An agent's "hoy" earlier in
  the sentence goes before the date agreed on. A weekday followed by a zero
  raises, and the audit is answered 500 (`RaisesOnlyWithoutEvidence` names it).
* Numbers. "doscientos mil y trescientos mil" is added up as one amount; "mil
  gracias" is an amount of 1000 and a spoken year one of about 2000, each enough
  for a leak of R3.a; "un momento" answers with the digit 1.
* Reports. Of two audits under one identifier only the last is compared
  (`evaluation.py:97`). The average of a large batch may round to 100.0 though
  one conversation has a failure.

### Fairness

* `ModelGateway`, `FactPipeline`: weak fairness of "some execution that has
  begun takes a step". Transactions and requests carry timeouts and sleeps
  return, so an execution can always go on, and the event loop runs what is
  ready. With finitely many executions of bounded length this gives termination
  of all. Nothing is assumed of starting, of the clock or of crashes.
* `AuditService`: weak fairness for each handler and for the end of each
  extraction; strong fairness for acquiring a slot, because `asyncio.Semaphore`
  wakes its waiters in order. `AuditApi` takes the same: nothing is assumed of
  clients, of their requests or of their reads.
* `RequestPacing`: weak fairness of the lock's next step and of time.
* `ClientLimits`, `AuditEngine`: none; safety only.

## 4. Proofs

TLAPS checks these theorems (`tlapm M.tla` for each module whose name ends in
`Proofs`, and for `Foundations`). They hold for every value of the constants that the
assumptions of the modules allow: any number of calls, requests and clients, any
limits, transcripts of any length.

| Module | Theorem | States |
|---|---|---|
| `ModelGatewayProofs` | `GatewayTypeOK` | `[]TypeOK` |
| | `BudgetHolds` | `[]AdmittedWithinLimit` |
| | `RequestsHold` | `[]RequestsWithinBudget` |
| | `BudgetFailsClosed` | `[]NeverSpentUncounted` |
| | `BlockBarsNewCalls` | `NewCallsBarred` |
| | `BlockFollowsTheQuota` | `[]BlockedOnSpentDays` |
| `FactPipelineProofs` | `PipelineTypeOK` | `[]TypeOK` |
| | `FactsFit` | `[]DeliveredFactsFit` |
| | `CacheIsConsistent` | `[]CacheAnswersAgree` |
| | `RowsImmutable` | `RowsWrittenOnce` |
| | `IdenticalIsFree` | `IdenticalCostsNoCall` |
| `AuditApiProofs` | `ServiceTypeOK` | `[]TypeOK` |
| | `SlotsHold` | `[]SlotsAddUp` |
| | `RunsHold` | `[]RunsAreWhole` |
| | `PersistedStays` | `[]PersistedIsRetrievable` |
| | `StoredHolds` | `[]StoredWasJudged` |
| | `ServiceKeepsPromise` | `PromiseSafety`, the safety part of `KeepsPromise` |
| | `ApiRunsService` | `ApiSpec` implements `AuditService!Spec`, fairness included |
| | `ApiTypes` | `[]ApiTypeOK` |
| | `ReadsHold` | `ReadsAreTrue` |
| `RequestPacingProofs` | `PacingTypeOK` | `[]TypeOK` |
| | `RateHolds` | `[]RateIsKept` |
| `ClientLimitsProofs` | `ClientsTypeCorrect` | `[]TypeOK` |
| | `LimitHolds` | `[]AtMostMaxPerWindow` |
| | `RetryAfterHonoured` | `RetryAfterSuffices` |
| | `RefusedWithCause` | `RefusedOnlyAtTheLimit` |
| | `SweptTableIsBusy` | `SweepForgetsTheIdle` |
| `TranscriptProofs` | `ResolveMeant` | `Resolve` finds every day `Meant` finds within a fortnight |
| | `SaidIsHeard` | `ExtractAmounts` of the words of an amount is that amount |
| `AuditEngineProofs` | `EngineTypeOK` | `[]TypeOK` |
| | `NeverAccuses` | `[]PartialNeverAccuses` |
| | `RaisesWithCause` | `[]RaisesOnlyWithoutEvidence` |
| | `NeverPunishedTwice` | `[]NoTurnPunishedTwice` |
| | `WindowWithDate` | `[]WindowJudgedIffConcrete` |
| | `DisclosureJudged` | `[]EveryDisclosureIsJudged` |
| | `CleanMeansFull` | `[]FullScoreMeansClean` |
| | `CommittedDateHolds` | `[]CommittedDateIsTheOneSaid` |
| | `DisclosureHolds` | `[]DisclosureIsHeard` |
| | `ReportHolds` | `[]ReportTellsTheAudits` |
| | `ComparisonHolds` | `[]ComparisonAddsUp` |

The assumptions are those the modules state next to their constants; TLC evaluates
all of them in the runs. For the service and its surroundings: finitely many calls
of the model, positive limits, Pacific midnights in order, the first before and the last
after the clock's run, conversations of one key that fit the same facts (the key
is made of every turn, which is all that `inconsistencies` reads), requests that do not share tasks, a well-formed request that brings as many
conversations as it says. For the engine:

* `CallsAreTranscripts`: a transcript is a sequence, what the detectors find is not
  in it beforehand, and its mentions of dates are some that the regular expressions
  of `dates.py:34-45` can match (`DateMentions`: two digits for a day, a month by
  its name unless the date is ISO, a day alone only after a weekday).
* `CallsAreDated`: the date of a call and the due date of a debt are dates of the
  Gregorian calendar, as `datetime.date` makes sure.
* `FactsFit`: the facts fit the transcript, which `FactPipeline` delivers.
* `AmountsCanBeSaid`: the amounts that `Said` is asked to put in words are at least
  `MIN_AMOUNT`, since the code takes what is below for a count, and below a thousand
  millions, since `Said` knows no word for more.
* `TruthsAreVerdicts`: annotations are finitely many and name criteria of the rubric.
* The markers for what is absent (`Unsaid`, `NoDay`, `NoRate`) are not numbers.

*The budget.* `AdmittedWithinLimit` is not inductive: it says nothing of calls
that are counted and not yet sent. `LedgerInv` adds that the tickets of one
counter are distinct values it has already shown, that the calls under way belong
to this life of the process, that a call is in the retry loop only with a ticket
within the limit, and that a request belongs to a call in or past the loop, one
per attempt. A counter is the row of a day or, without a database, the memory of
one life of the process, so `(ticket, life)` tells the admitted calls of a day
apart: an injection into `1 .. DailyLimit` times the lives bounds their number
(`AdmittedBounded`), pairs with the attempt bound the requests, and tickets in
`1 .. usage[d]` give the fail-closed property (`CurrentCounted`). `LoopInv`
places the attempt at each await.

*The block.* `BlockInv` adds to `BlockedOnSpentDays` that a block in force ends with
the present Pacific date and that no later date is known to be spent. Every
instant has exactly one date (`HasDate`, `OneDate`), and a tick either stays in it
or reaches the midnight that begins the next (`DateAfterTick`): in the first case
both sides of the equivalence stay, in the second both are false. `NewCallsBarred`
follows with `BarInv`: while the block lasts, the calls that were outside the loop
have not entered it.

*The cache.* `PipelineInv` adds that facts waiting to be written fit the
conversation they were extracted for, and that facts answered from the cache are
still those of the row: rows that hold facts never change, because the insert
does nothing on conflict. `RowsWrittenOnce` follows from it step by step.
`CacheInv` adds what `IdenticalCostsNoCall` needs: a row is one of an older
deployment or fits every conversation of its key, and a write that succeeded left
a row. A request that misses after an answer was stored has therefore met an old
row that does not serve; a bad old row costs a call each time, since nothing
replaces it.

*The service.* `HandlerInv` says what the place of a handler means for its tasks
and for the database: a request is archived whole or not at all, not before its
commit and always after it, and whoever reaches the save has only judged tasks.
It is needed because the properties speak of replies and rows, while what keeps
them true is decided earlier, at the gather and at the commit. `SlotsInv` counts
the extracting tasks, a finite set even when there are infinitely many requests.
Under the mapping of `Promise`, acceptance is `Ask`, the commit is `Archive`, each
answer is `Answer` (the invariant gives its guards), a restart is `Lose`, and all
else changes nothing the promise sees.

*The routes.* Every step of `AuditApi` is a step of `AuditService` or leaves its
variables alone, and its fairness is the service's, so all of the service's
theorems hold behind the routes. `ReadsAreTrue` needs one more invariant: while
audits are listed, the run that was found is still there. It is, because rows are
never deleted; and since `RunsAreWhole`, the second statement finds what the first
one promised.

*The pacer.* `PacingInv` keeps, for every start, a lower bound on the slot that
comes next: one interval per request since. The last start is left out of it
while the lock is free, which is exactly the slack a late sleep takes.

*The client limit.* The table forgets, so `AtMostMaxPerWindow` cannot be read off
it. `LogInv` relates it to the history: a client's log of accepted requests is in
order, the table holds the end of it, and all that the table dropped has left the
window; a refusal told the client to come back no earlier than the window of the
oldest of its last `max_requests` ends. From this the deque after its `popleft`s is exactly
the window (`RecentIsTheWindow`), and rounding up makes the wait sufficient
(`WaitIsEnough`).

*The engine.* `AuditsInv` says that the conversation is what the detectors hear
in the call and that each audit is an outcome of the engine for the facts or
without them, so the properties become facts about operators, for every
conversation and all facts that fit it. The first and the last turn with a
property are the least and the greatest of a set of turns (`Foundations`). A lemma per
criterion shows that a violation cites turns of the conversation; an absent
pointer and a detected signal can only make the sensitive turn later, so what a
partial audit reports stays reported; and a score rounds to full only if nothing
was lost, because the weights of all criteria together stay below 1000.

*Recursion and folds.* The installed provers cannot use an induction theorem that
takes an operator as its parameter. `Foundations` states induction over a set
instead (`InductionOnSet`: a set that holds 0 and every successor of what it holds
holds all naturals) and recursion over a function (`RecursionExists`,
`FoldExists`), both proved from the extrema. The calendar walk of `Meant`, the
sum over a run of words and the sums of the report are then reasoned about as
functions that exist and satisfy their equation.

*The dates.* The code picks the nearest of three candidate months or years; `Meant`
walks the calendar one day at a time. They meet in the number of a date:
`MonthStart` numbers the first of each month since year 0, consecutive months
differ by the length of the month (`MonthLength`, from `YearLength` and
`MonthsOfYear`), so the day after has the next number (`NextDay`,
`PreviousDay`) and the walk counts days (`DayAtWalks`, by induction). Two dates at most 13
days apart lie in the same month or neighbours, two at most 182 days apart
in the same year or neighbours, so the day meant is among the candidates; two
candidates of one day of the month lie at least 28 days apart, of one date in two
years at least 365, so it is the nearest one (`NearestMonthIs`, `NearestYearIs`).
Thirteen is therefore not only the bound of a run: half of 28 is where the code
could prefer the other month.

*The amounts.* `Adds(words, n)` says that reading the words adds n to the amount
under way, and that no word of them ends the run. It holds for the words of every
number below 1000 (`Below100Adds`, `Below1000Adds`); "millones" and "mil" come
where what is under way is just the number they multiply (`SaidIsRead`). That the words between "debe" and "pesos" form one run, the
"y" included, is `OneRun`.

*The report and the comparison.* Rounding stays between whole bounds
(`RoundedBetween`), hence the average among the scores (`AverageAmong`, from bounds
on a sum, `SumOverBetween`) and F1 between its two rates (`F1Between`). Frequency,
weight and place in the rubric order the failures strictly (`RankingOrders`), in
such an order every rank is taken once (`EveryRankTaken`), and the list is what it
claims to be (`TopIsTop`). The marks of a comparison are pairs of a call and a
criterion, so none is wrong exactly when both annotations agree on each call
compared (`SameMarks`).

Only model-checked: the liveness properties (`EveryCallEnds`, `EveryRequestEnds`,
`SlotsComeBack`, `EveryoneStarts` and the liveness part of `KeepsPromise`), since
fairness and ENABLED are out of the prover's reach. Of the date and amount theorems,
what is beyond their hypotheses is left open: days more than thirteen from the call,
and amounts said otherwise than `Said` puts them.

## 5. Not modelled, and why

* The words of prompts, warnings and explanations; JSON and column formats.
* Regular expressions, the word lists of the lexicon and the folding of accents:
  a turn comes with the tokens, the mentions of dates, the amounts in figures and
  the patterns they find in it. What is made of those is modelled.
* In the report, the distribution of outcomes, a plain count that no rule reads;
  in the evaluation, its rendering, its command lines and the field by field
  accuracy of the model.
* Prompts and the agent's specification: templates without state. Disabled and
  replayed models: a model that always fails is a behaviour of the modules, and
  replay is for local development.
* Reading the environment, health, the rubric and documentation pages: nothing in
  them changes or reads the state modelled here. Schemas are a well-formed or a
  wrong body.
* Exact durations: delays, backoff and timeouts are "some time".
* The database beyond committed rows: pool, isolation, connection loss appear
  as transactions that fail before or after their commit.

## 6. Plan

The project was built in the order of what matters most: spending (the gateway,
its pacer), the facts, the service with its promise, the client limit, the
rubric; then the routes around the service, and the detectors, the report and the
evaluation around the rubric. The proofs followed in the same order and cover
every invariant and every action property the runs check.

What a team could add:

1. A composition of gateway and pipeline in one module, in which what a request
   costs follows from both retry loops. Each bound is proved on its own side of
   the boundary.
2. Detection at the level of the lexicon, against a corpus of turns rather than a
   model.
3. The accuracy of the model field by field, if the evaluation comes to be used
   for more than reports to people.
