---------------------------- MODULE FactPipeline ----------------------------
(***************************************************************************)
(* Where a conversation's facts come from: CachedFactSource around         *)
(* FactExtractor, over the fact_cache table.  A member of Requests is one  *)
(* execution of CachedFactSource.obtain.  Executions interleave at their   *)
(* awaits (the read, each model call, the write), in one process or in     *)
(* several that share the database.                                        *)
(*                                                                         *)
(* Facts are opaque: all the pipeline asks of them is whether their turn   *)
(* pointers fit a conversation (ConversationFacts.inconsistencies is       *)
(* empty), which is the constant Fitting.  The key of a conversation is    *)
(* its fingerprint under the prompts, schema and model of the deployment.  *)
(***************************************************************************)
EXTENDS Naturals

CONSTANTS
    Requests,       \* executions of CachedFactSource.obtain
    Conversations,  \* what they are asked about
    Keys,           \* fingerprints
    KeyOf,          \* fact_cache_key
    Facts,          \* instances of ConversationFacts
    Fitting,        \* the pairs <<f, c>> with f.inconsistencies(c) empty
    Absent,         \* no row
    Unreadable,     \* a row that ConversationFacts.model_validate refuses
    Leftovers,      \* what an earlier deployment may have left in a row
    MaxAttempts,    \* settings.extraction_max_attempts
    CacheMayFail    \* whether the cache's transactions may fail

ASSUME KeyOfIsFunction == KeyOf \in [Conversations -> Keys]
ASSUME FittingIsRelation == Fitting \subseteq Facts \X Conversations
(* The fingerprint covers every turn with its speaker, which is all that   *)
(* inconsistencies looks at: what fits a conversation fits its twins.      *)
ASSUME TwinsFitAlike ==
    \A c, d \in Conversations : KeyOf[c] = KeyOf[d] =>
        \A f \in Facts : <<f, c>> \in Fitting <=> <<f, d>> \in Fitting
ASSUME RowsDistinct == Absent \notin Facts /\ Unreadable \notin Facts /\ Absent # Unreadable
ASSUME LeftoversAreRows == Leftovers \subseteq Facts \cup {Absent, Unreadable}
ASSUME AttemptsPositive == MaxAttempts \in Nat \ {0}
ASSUME CacheMayFailIsFlag == CacheMayFail \in BOOLEAN

VARIABLES
    store,     \* fact_cache: key -> facts
    pc,        \* where each request waits
    conv,      \* the conversation each request is about
    attempt,   \* the extraction loop's iteration, 0 when the model was not asked
    answer,    \* the facts in hand
    origin,    \* Extraction.origin, or "failed" when obtain raised
    readLost,  \* history: the requests whose cache read failed
    writeLost  \* history: the requests whose cache write failed

vars == <<store, pc, conv, attempt, answer, origin, readLost, writeLost>>

Rows == Facts \cup {Absent, Unreadable}

TypeOK ==
    /\ store \in [Keys -> Rows]
    /\ pc \in [Requests -> {"new", "reading", "asking", "writing", "done"}]
    /\ conv \in [Requests -> Conversations]
    /\ attempt \in [Requests -> 0 .. MaxAttempts]
    /\ answer \in [Requests -> Facts \cup {Absent}]
    /\ origin \in [Requests -> {"none", "model", "cache", "failed"}]
    /\ readLost \subseteq Requests
    /\ writeLost \subseteq Requests

Init ==
    /\ store \in [Keys -> Leftovers]
    /\ pc = [r \in Requests |-> "new"]
    /\ conv \in [Requests -> Conversations]
    /\ attempt = [r \in Requests |-> 0]
    /\ answer = [r \in Requests |-> Absent]
    /\ origin = [r \in Requests |-> "none"]
    /\ readLost = {}
    /\ writeLost = {}

-----------------------------------------------------------------------------
Key(r) == KeyOf[conv[r]]

(* A plausible bug: cached facts are trusted without checking them again.  *)
MutantFits(f, c) == f \in Facts

Fits(f, c) == <<f, c>> \in Fitting

(* What _read returns facts for: a row that validates and still fits.      *)
Serves(row, c) == row \in Facts /\ Fits(row, c)

Finish(r, from) ==
    /\ pc' = [pc EXCEPT ![r] = "done"]
    /\ origin' = [origin EXCEPT ![r] = from]

Start(r) ==
    /\ pc[r] = "new"
    /\ pc' = [pc EXCEPT ![r] = "reading"]
    /\ UNCHANGED <<store, conv, attempt, answer, origin, readLost, writeLost>>

Hit(r) ==
    /\ pc[r] = "reading"
    /\ Serves(store[Key(r)], conv[r])
    /\ answer' = [answer EXCEPT ![r] = store[Key(r)]]
    /\ Finish(r, "cache")
    /\ UNCHANGED <<store, conv, attempt, readLost, writeLost>>

AskModel(r) ==
    /\ pc' = [pc EXCEPT ![r] = "asking"]
    /\ attempt' = [attempt EXCEPT ![r] = 1]
    /\ UNCHANGED <<store, conv, answer, origin>>

Miss(r) ==
    /\ pc[r] = "reading"
    /\ ~Serves(store[Key(r)], conv[r])
    /\ AskModel(r)
    /\ UNCHANGED <<readLost, writeLost>>

(* A failing read is logged and treated as a miss.                         *)
ReadFails(r) ==
    /\ pc[r] = "reading"
    /\ CacheMayFail
    /\ AskModel(r)
    /\ readLost' = readLost \cup {r}
    /\ UNCHANGED writeLost

-----------------------------------------------------------------------------
(* FactExtractor.extract: the model answers with facts that fit.           *)
Extracted(r) ==
    /\ pc[r] = "asking"
    /\ \E f \in Facts :
          /\ Fits(f, conv[r])
          /\ answer' = [answer EXCEPT ![r] = f]
    /\ pc' = [pc EXCEPT ![r] = "writing"]
    /\ UNCHANGED <<store, conv, attempt, origin, readLost, writeLost>>

(* A plausible bug: the loop counts one attempt too many.                  *)
MutantOneAttemptMore(r) ==
    /\ pc[r] = "asking"
    /\ attempt[r] <= MaxAttempts
    /\ attempt' = [attempt EXCEPT ![r] = @ + 1]
    /\ UNCHANGED <<store, pc, conv, answer, origin, readLost, writeLost>>

(* An answer that is no instance of the schema (InvalidResponseError) or   *)
(* whose pointers do not fit: the model is asked again, with feedback.     *)
WrongAnswer(r) ==
    /\ pc[r] = "asking"
    /\ attempt[r] < MaxAttempts
    /\ attempt' = [attempt EXCEPT ![r] = @ + 1]
    /\ UNCHANGED <<store, pc, conv, answer, origin, readLost, writeLost>>

(* FactExtractionError after the last attempt, or any other error of the   *)
(* model (quota, network), which the loop does not catch.                  *)
ExtractionFails(r) ==
    /\ pc[r] = "asking"
    /\ Finish(r, "failed")
    /\ UNCHANGED <<store, conv, attempt, answer, readLost, writeLost>>

(* A plausible bug: an upsert that replaces the row.                       *)
MutantUpsert(row, f) == f

(* insert ... on conflict do nothing.                                      *)
Inserted(row, f) == IF row = Absent THEN f ELSE row

(* A plausible bug: the test of the origin is inverted, so that what the   *)
(* model answered is not stored.                                           *)
MutantWrite(r) ==
    /\ pc[r] = "writing"
    /\ Finish(r, "model")
    /\ UNCHANGED <<store, conv, attempt, answer, readLost, writeLost>>

Write(r) ==
    /\ pc[r] = "writing"
    /\ store' = [store EXCEPT ![Key(r)] = Inserted(@, answer[r])]
    /\ Finish(r, "model")
    /\ UNCHANGED <<conv, attempt, answer, readLost, writeLost>>

(* A plausible bug: a failing write starts all over again.                 *)
MutantWriteRestarts(r) ==
    /\ pc[r] = "writing"
    /\ CacheMayFail
    /\ pc' = [pc EXCEPT ![r] = "reading"]
    /\ UNCHANGED <<store, conv, attempt, answer, origin, readLost, writeLost>>

(* A failing write is logged and the facts are returned all the same; the  *)
(* row may be there or not (the acknowledgement alone may have been lost). *)
WriteFails(r) ==
    /\ pc[r] = "writing"
    /\ CacheMayFail
    /\ \/ store' = store
       \/ store' = [store EXCEPT ![Key(r)] = Inserted(@, answer[r])]
    /\ Finish(r, "model")
    /\ writeLost' = writeLost \cup {r}
    /\ UNCHANGED <<conv, attempt, answer, readLost>>

Obtain(r) ==
    \/ Hit(r) \/ Miss(r) \/ ReadFails(r)
    \/ Extracted(r) \/ WrongAnswer(r) \/ ExtractionFails(r)
    \/ Write(r) \/ WriteFails(r)

Next == \E r \in Requests : Start(r) \/ Obtain(r)

(* Reads, writes and model calls come back; requests need not be made.  It *)
(* is enough that the event loop keeps running some execution.             *)
Spec == Init /\ [][Next]_vars /\ WF_vars(\E r \in Requests : Obtain(r))

-----------------------------------------------------------------------------
(* Properties.                                                             *)

(* Whatever the model answers, whatever an older deployment left in the    *)
(* table and whoever else wrote the row, the facts that obtain returns     *)
(* point at turns the conversation has (fact_cache.py:47).                 *)
DeliveredFactsFit ==
    \A r \in Requests :
        pc[r] = "done" /\ origin[r] # "failed" => <<answer[r], conv[r]>> \in Fitting

(* Two audits answered from the cache under one key never see different    *)
(* facts, however many writers raced for the row in between.               *)
CacheAnswersAgree ==
    \A r, q \in Requests :
        origin[r] = "cache" /\ origin[q] = "cache" /\ Key(r) = Key(q)
            => answer[r] = answer[q]

(* A row is written once, by a request about a conversation of that key    *)
(* whose facts were validated for it, and never changes again.             *)
RowsWrittenOnce ==
    [][\A k \in Keys : store'[k] # store[k] =>
          /\ store[k] = Absent
          /\ \E r \in Requests : /\ pc[r] = "writing"
                                 /\ Key(r) = k
                                 /\ <<store'[k], conv[r]>> \in Fitting]_vars

(* The cache has an answer to r's question: an identical one was answered, *)
(* from the cache or by the model and then stored.                         *)
AnsweredBefore(r) ==
    \E q \in Requests :
        /\ Key(q) = Key(r)
        /\ origin[q] = "cache" \/ (origin[q] = "model" /\ q \notin writeLost)

(* An identical conversation costs no model call (fact_cache.py:11), as    *)
(* far as that is true: after an answer that was stored, a request whose   *)
(* read succeeds asks the model again only because of a bad row that an    *)
(* older deployment left there and that no write replaces; and not even    *)
(* then once the cache itself has answered.                                *)
IdenticalCostsNoCall ==
    [][\A r \in Requests :
          attempt[r] = 0 /\ attempt'[r] # 0 /\ r \notin readLost' /\ AnsweredBefore(r) =>
              /\ store[Key(r)] \in Leftovers \ {Absent}
              /\ \A q \in Requests : Key(q) = Key(r) => origin[q] # "cache"]_vars

(* obtain always comes back, with facts or with an exception.              *)
EveryRequestEnds == <>[](\A r \in Requests : pc[r] \in {"new", "done"})

(* The inductive strengthening of the properties above.                    *)
PipelineInv ==
    \A r \in Requests :
        /\ pc[r] = "asking" => attempt[r] # 0
        /\ pc[r] = "writing" => answer[r] \in Facts /\ <<answer[r], conv[r]>> \in Fitting
        /\ pc[r] = "done" <=> origin[r] # "none"
        /\ origin[r] \in {"cache", "model"} => <<answer[r], conv[r]>> \in Fitting
        /\ origin[r] = "cache" => answer[r] \in Facts /\ answer[r] = store[Key(r)]

(* The inductive strengthening of IdenticalCostsNoCall: a row is an old    *)
(* one or fits every conversation of its key, and a write that succeeded   *)
(* left a row.                                                             *)
CacheInv ==
    /\ \A c \in Conversations :
          \/ store[KeyOf[c]] \in Leftovers \cup {Absent}
          \/ <<store[KeyOf[c]], c>> \in Fitting
    /\ \A r \in Requests :
          origin[r] = "model" /\ r \notin writeLost => store[Key(r)] # Absent

(* What fact_cache.py:11 says: an identical conversation yields the same   *)
(* facts.                                                                  *)
SameConversationSameFacts ==
    \A r, q \in Requests :
        /\ pc[r] = "done" /\ origin[r] # "failed"
        /\ pc[q] = "done" /\ origin[q] # "failed"
        /\ conv[r] = conv[q]
        => answer[r] = answer[q]
=============================================================================
