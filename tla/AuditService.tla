---------------------------- MODULE AuditService ----------------------------
(***************************************************************************)
(* AuditService: audit_conversation and audit_dataset, with the semaphore  *)
(* that bounds fact extractions, the gather of a batch, the engine that    *)
(* may raise, and the repository that may fail at any point of a save.     *)
(*                                                                         *)
(* A task is one AuditService._audit: a conversation of a request.  The    *)
(* source of facts (FactPipeline) is a task's wait in "extracting", which  *)
(* ends with facts or with an exception.  The process may die and restart; *)
(* the database survives it.                                               *)
(***************************************************************************)
EXTENDS Naturals, FiniteSets

CONSTANTS
    Singles,        \* POST /audits requests
    Batches,        \* POST /audits/dataset requests
    TasksOf,        \* request -> its conversations (their tasks)
    Breaks,         \* the <<task, analysis>> on which the engine raises
    MaxConcurrency, \* settings.llm_max_concurrency
    MaxCrashes      \* bound: restarts of the process

Requests == Singles \cup Batches
Tasks == UNION {TasksOf[r] : r \in Requests}

ASSUME RequestsDisjoint == Singles \cap Batches = {}
ASSUME TasksPartition ==
    /\ DOMAIN TasksOf = Requests
    /\ \A r \in Requests : TasksOf[r] # {} /\ IsFiniteSet(TasksOf[r])
    /\ \A r, q \in Requests : r # q => TasksOf[r] \cap TasksOf[q] = {}
    /\ \A r \in Singles : Cardinality(TasksOf[r]) = 1
ASSUME BreaksShape == Breaks \subseteq Tasks \X {"complete", "partial"}
ASSUME SlotsPositive == MaxConcurrency \in Nat \ {0}
ASSUME CrashBound == MaxCrashes \in Nat

VARIABLES
    pc,       \* request -> where its handler waits
    task,     \* task -> where its _audit waits, or what it came to
    slots,    \* free slots of the semaphore
    reply,    \* request -> what the client was told
    audits,   \* conversation_audits: the tasks whose audit is stored
    runs,     \* audit_runs: the batches stored
    enabled,  \* repository.enabled: DATABASE_URL is set, in this deployment
    crashes   \* restarts so far

vars == <<pc, task, slots, reply, audits, runs, enabled, crashes>>

Judged == {"complete", "partial"}

(* status, the persisted flag and whether warnings say the save failed.    *)
Replies == [status : {200, 500}, persisted : BOOLEAN, warned : BOOLEAN]
NoReply == [status |-> 0, persisted |-> FALSE, warned |-> FALSE]

TypeOK ==
    /\ pc \in [Requests -> {"new", "auditing", "saving", "committed", "answered", "lost"}]
    /\ task \in [Tasks -> Judged \cup {"idle", "queued", "extracting", "raised"}]
    /\ slots \in 0 .. MaxConcurrency
    /\ reply \in [Requests -> Replies \cup {NoReply}]
    /\ audits \subseteq Tasks
    /\ runs \subseteq Batches
    /\ enabled \in BOOLEAN
    /\ crashes \in 0 .. MaxCrashes

Init ==
    /\ pc = [r \in Requests |-> "new"]
    /\ task = [t \in Tasks |-> "idle"]
    /\ slots = MaxConcurrency
    /\ reply = [r \in Requests |-> NoReply]
    /\ audits = {}
    /\ runs = {}
    /\ enabled \in BOOLEAN
    /\ crashes = 0

-----------------------------------------------------------------------------
(* The handler calls the service: one task, or all of a batch at once.     *)
Accept(r) ==
    /\ pc[r] = "new"
    /\ pc' = [pc EXCEPT ![r] = "auditing"]
    /\ task' = [t \in Tasks |-> IF t \in TasksOf[r] THEN "queued" ELSE task[t]]
    /\ UNCHANGED <<slots, reply, audits, runs, enabled, crashes>>

(* A plausible bug: a task runs without looking at the slots.              *)
MutantAcquireUnchecked(t) ==
    /\ task[t] = "queued"
    /\ slots' = slots - 1
    /\ task' = [task EXCEPT ![t] = "extracting"]
    /\ UNCHANGED <<pc, reply, audits, runs, enabled, crashes>>

(* async with self._semaphore                                              *)
Acquire(t) ==
    /\ task[t] = "queued"
    /\ slots > 0
    /\ slots' = slots - 1
    /\ task' = [task EXCEPT ![t] = "extracting"]
    /\ UNCHANGED <<pc, reply, audits, runs, enabled, crashes>>

(* The engine on the facts, or without them: an audit, or an exception     *)
(* that nothing in _audit catches.                                         *)
Engine(t, analysis) == IF <<t, analysis>> \in Breaks THEN "raised" ELSE analysis

(* A plausible bug: a failed extraction leaves without giving its slot back. *)
MutantObtainLeaks(t) ==
    /\ task[t] = "extracting"
    /\ \E analysis \in Judged :
          /\ task' = [task EXCEPT ![t] = Engine(t, analysis)]
          /\ slots' = IF analysis = "complete" THEN slots + 1 ELSE slots
    /\ UNCHANGED <<pc, reply, audits, runs, enabled, crashes>>

(* obtain returns or raises; either way the slot is released and the       *)
(* engine runs, with no await in between.                                  *)
Obtain(t) ==
    /\ task[t] = "extracting"
    /\ slots' = slots + 1
    /\ \E analysis \in Judged : task' = [task EXCEPT ![t] = Engine(t, analysis)]
    /\ UNCHANGED <<pc, reply, audits, runs, enabled, crashes>>

-----------------------------------------------------------------------------
Tell(r, status, persisted, warned) ==
    /\ pc' = [pc EXCEPT ![r] = "answered"]
    /\ reply' = [reply EXCEPT
          ![r] = [status |-> status, persisted |-> persisted, warned |-> warned]]

(* The first exception of a task goes through gather to the error handler. *)
(* The other tasks of the batch are not cancelled.                         *)
Fail(r) ==
    /\ pc[r] = "auditing"
    /\ \E t \in TasksOf[r] : task[t] = "raised"
    /\ Tell(r, 500, FALSE, FALSE)
    /\ UNCHANGED <<task, slots, audits, runs, enabled, crashes>>

(* A plausible bug: saving starts when some task is ready.                 *)
MutantGathered(r) ==
    /\ pc[r] = "auditing"
    /\ \E t \in TasksOf[r] : task[t] \in Judged
    /\ pc' = [pc EXCEPT ![r] = "saving"]
    /\ UNCHANGED <<task, slots, reply, audits, runs, enabled, crashes>>

Gathered(r) ==
    /\ pc[r] = "auditing"
    /\ \A t \in TasksOf[r] : task[t] \in Judged
    /\ pc' = [pc EXCEPT ![r] = "saving"]
    /\ UNCHANGED <<task, slots, reply, audits, runs, enabled, crashes>>

(* A plausible bug: the run and its audits in transactions of their own.   *)
MutantCommitInParts(r) ==
    /\ pc[r] = "saving"
    /\ enabled
    /\ \/ /\ runs' = runs \cup ({r} \cap Batches)
          /\ r \notin runs
          /\ UNCHANGED <<pc, audits>>
       \/ /\ runs' = runs \cup ({r} \cap Batches)
          /\ audits' = audits \cup TasksOf[r]
          /\ pc' = [pc EXCEPT ![r] = "committed"]
    /\ UNCHANGED <<task, slots, reply, enabled, crashes>>

(* save_audit or save_run: one transaction, its commit at the database.    *)
Commit(r) ==
    /\ pc[r] = "saving"
    /\ enabled
    /\ audits' = audits \cup TasksOf[r]
    /\ runs' = runs \cup ({r} \cap Batches)
    /\ pc' = [pc EXCEPT ![r] = "committed"]
    /\ UNCHANGED <<task, slots, reply, enabled, crashes>>

(* A plausible bug: the flag is set before the outcome of the save.        *)
MutantSaveFails(r) ==
    /\ enabled
    /\ pc[r] \in {"saving", "committed"}
    /\ Tell(r, 200, TRUE, r \in Singles)
    /\ UNCHANGED <<task, slots, audits, runs, enabled, crashes>>

(* The save raises: nothing was committed, or the commit was and its       *)
(* acknowledgement was not seen (a timeout, a dropped connection).  Only   *)
(* audit_conversation adds a warning; audit_dataset returns the run as is. *)
SaveFails(r) ==
    /\ enabled
    /\ pc[r] \in {"saving", "committed"}
    /\ \/ r \in Singles /\ Tell(r, 200, FALSE, TRUE)
       \/ r \in Batches /\ Tell(r, 200, FALSE, FALSE)
    /\ UNCHANGED <<task, slots, audits, runs, enabled, crashes>>

Saved(r) ==
    /\ pc[r] = "committed"
    /\ Tell(r, 200, TRUE, FALSE)
    /\ UNCHANGED <<task, slots, audits, runs, enabled, crashes>>

(* NullAuditRepository: saving does nothing and persisted stays false.     *)
SavedNowhere(r) ==
    /\ pc[r] = "saving"
    /\ ~enabled
    /\ Tell(r, 200, FALSE, FALSE)
    /\ UNCHANGED <<task, slots, audits, runs, enabled, crashes>>

(* The process dies and comes back.  A commit in flight may or may not     *)
(* have reached the database: both orders of Commit and Restart are here.  *)
Restart ==
    /\ crashes < MaxCrashes
    /\ crashes' = crashes + 1
    /\ pc' = [r \in Requests |->
                IF pc[r] \in {"auditing", "saving", "committed"} THEN "lost" ELSE pc[r]]
    /\ task' = [t \in Tasks |->
                IF task[t] \in {"queued", "extracting"} THEN "idle" ELSE task[t]]
    /\ slots' = MaxConcurrency
    /\ UNCHANGED <<reply, audits, runs, enabled>>

(* The event loop's own steps: none waits for a client.                    *)
TaskStep(t) == Acquire(t) \/ Obtain(t)
HandlerStep(r) ==
    Fail(r) \/ Gathered(r) \/ Commit(r) \/ SaveFails(r) \/ Saved(r) \/ SavedNowhere(r)

Next ==
    \/ \E r \in Requests : Accept(r) \/ HandlerStep(r)
    \/ \E t \in Tasks : TaskStep(t)
    \/ Restart

(* A free slot goes to the waiter that came first, so no task waits for a  *)
(* slot forever while slots come back (asyncio.Semaphore is FIFO).         *)
Fairness ==
    /\ \A t \in Tasks : SF_vars(Acquire(t)) /\ WF_vars(Obtain(t))
    /\ \A r \in Requests : WF_vars(HandlerStep(r))

Spec == Init /\ [][Next]_vars /\ Fairness

-----------------------------------------------------------------------------
(* Reads: get_audit and get_run.                                           *)
AuditFound(t) == enabled /\ t \in audits

RunFound(r) == enabled /\ r \in runs

(* What get_run returns of a run: the audits stored under it.              *)
AuditsOfRun(r) == TasksOf[r] \cap audits

-----------------------------------------------------------------------------
(* Properties.                                                             *)

(* The semaphore's slots and the extractions under way always add up: no   *)
(* exception, no failed batch and no restart leaks or invents a slot, so   *)
(* no more than max_concurrency extractions ever run.                      *)
SlotsAddUp ==
    slots + Cardinality({t \in Tasks : task[t] = "extracting"}) = MaxConcurrency

(* A run is found by its identifier exactly when all of its audits are,    *)
(* whatever failed or died during the save (ports.py:116, atomically).     *)
RunsAreWhole ==
    \A r \in Batches :
        /\ RunFound(r) => AuditsOfRun(r) = TasksOf[r]
        /\ (\E t \in TasksOf[r] : AuditFound(t)) => RunFound(r)

(* A client that was told persisted finds everything it was told of, also  *)
(* after restarts.                                                         *)
PersistedIsRetrievable ==
    \A r \in Requests : reply[r].persisted =>
        /\ \A t \in TasksOf[r] : AuditFound(t)
        /\ r \in Batches => RunFound(r)

(* Only whole audits are stored: a stored task was judged, never raised.   *)
StoredWasJudged == \A t \in audits : task[t] \in Judged

(* What the promise sees of a request: its handler waits from acceptance   *)
(* until it answers.                                                       *)
Phase(r) == CASE pc[r] = "new" -> "none"
              [] pc[r] \in {"auditing", "saving", "committed"} -> "waiting"
              [] OTHER -> pc[r]

Told(r) == CASE reply[r].status = 0 -> "none"
             [] reply[r].status = 500 -> "error"
             [] reply[r].persisted -> "persisted"
             [] OTHER -> "unsaved"

(* The promise, under that mapping: the archive is the audits table.       *)
Promise == INSTANCE AuditPromise WITH
    Rows <- TasksOf,
    phase <- [r \in Requests |-> Phase(r)],
    reply <- [r \in Requests |-> Told(r)],
    archive <- audits

KeepsPromise == Promise!Spec

(* Its safety part, which needs no fairness.                               *)
PromiseSafety == Promise!Init /\ [][Promise!Next]_(Promise!pvars)

(* What the database holds of a request: all or nothing.                   *)
Archived(r) == TasksOf[r] \subseteq audits /\ (r \in Batches => r \in runs)
NotArchived(r) == TasksOf[r] \cap audits = {} /\ r \notin runs

(* The inductive strengthening of the properties above: where a handler    *)
(* stands decides what its tasks came to and what the database holds.      *)
HandlerInv ==
    \A r \in Requests :
        /\ Archived(r) \/ NotArchived(r)
        /\ ~enabled => NotArchived(r)
        /\ pc[r] = "new" => \A t \in TasksOf[r] : task[t] = "idle"
        /\ pc[r] \in {"saving", "committed"} => \A t \in TasksOf[r] : task[t] \in Judged
        /\ pc[r] \in {"new", "auditing", "saving"} => NotArchived(r)
        /\ pc[r] = "committed" => Archived(r)
        /\ pc[r] # "answered" <=> reply[r].status = 0
        /\ reply[r].persisted => Archived(r)

(* The tasks of a batch that already failed are not cancelled: they run to *)
(* their end, and every slot comes back in the end.                        *)
SlotsComeBack == <>[](slots = MaxConcurrency)

(* What docs/decisiones-tecnicas.md:69 says: when a conversation fails in  *)
(* a batch, only that conversation degrades and the rest goes on.          *)
OneBadConversationDegradesAlone ==
    \A r \in Batches :
        (\E t \in TasksOf[r] : <<t, "complete">> \notin Breaks /\ <<t, "partial">> \notin Breaks)
            => reply[r].status # 500

(* What docs/decisiones-tecnicas.md:83 says: when the database fails, the  *)
(* audit is delivered with persisted false and a warning.                  *)
UnsavedIsExplained ==
    \A r \in Requests :
        enabled /\ reply[r].status = 200 /\ ~reply[r].persisted => reply[r].warned
=============================================================================
