--------------------------- MODULE AuditApiProofs ---------------------------
(***************************************************************************)
(* Proofs about AuditService, for every set of single and batch requests,  *)
(* every number of slots, every conversation the engine breaks on and any  *)
(* number of restarts, with or without a database; and about AuditApi: its *)
(* routes and reads take no step the service does not know, so that what   *)
(* is proved of the service holds behind them, and what the reads answer   *)
(* is true.                                                                *)
(***************************************************************************)
EXTENDS AuditApi, FiniteSetTheorems, TLAPS

Extracting == {t \in Tasks : task[t] = "extracting"}

SlotsInv == IsFiniteSet(Extracting) /\ SlotsAddUp

IInv == TypeOK /\ HandlerInv /\ SlotsInv /\ StoredWasJudged

(* A task belongs to one request.                                          *)
LEMMA TaskHasOneRequest ==
  /\ \A r \in Requests : TasksOf[r] # {} /\ TasksOf[r] \subseteq Tasks
  /\ \A r, q \in Requests : TasksOf[r] \cap TasksOf[q] # {} => r = q
  BY TasksPartition DEF Tasks

LEMMA EngineResult ==
  ASSUME NEW t, NEW a \in Judged PROVE Engine(t, a) \in Judged \cup {"raised"}
  BY DEF Engine

-----------------------------------------------------------------------------
LEMMA InitIInv == Init => IInv
  <1> SUFFICES ASSUME Init PROVE IInv
    OBVIOUS
  <1>1. TypeOK
    BY SlotsPositive, CrashBound DEF Init, TypeOK
  <1>2. HandlerInv
    BY TaskHasOneRequest DEF Init, HandlerInv, Archived, NotArchived, NoReply
  <1>3. SlotsInv
    <2>1. Extracting = {}
      BY DEF Init, Extracting
    <2> QED
      BY <2>1, FS_EmptySet, SlotsPositive DEF Init, SlotsInv, SlotsAddUp, Extracting
  <1>4. StoredWasJudged
    BY DEF Init, StoredWasJudged
  <1> QED
    BY <1>1, <1>2, <1>3, <1>4 DEF IInv

-----------------------------------------------------------------------------
(* A slot is taken by the task that starts extracting and given back by    *)
(* the one that stops, and a restart starts with all of them.              *)
LEMMA NextSlots == IInv /\ [Next]_vars => SlotsInv'
  <1> SUFFICES ASSUME IInv, [Next]_vars PROVE SlotsInv'
    OBVIOUS
  <1>0. /\ TypeOK /\ HandlerInv
        /\ IsFiniteSet(Extracting) /\ slots + Cardinality(Extracting) = MaxConcurrency
        /\ slots \in Nat /\ Cardinality(Extracting) \in Nat
    BY FS_CardinalityType, SlotsPositive
       DEF IInv, SlotsInv, SlotsAddUp, Extracting, TypeOK
  <1>1. ASSUME UNCHANGED slots, Extracting' = Extracting PROVE SlotsInv'
    BY <1>0, <1>1 DEF SlotsInv, SlotsAddUp, Extracting
  <1>2. ASSUME NEW r \in Requests, Accept(r) PROVE SlotsInv'
    <2>1. Extracting' = Extracting
      BY <1>0, <1>2, TaskHasOneRequest DEF Accept, Extracting, HandlerInv, TypeOK
    <2> QED
      BY <1>1, <1>2, <2>1 DEF Accept
  <1>3. ASSUME NEW r \in Requests, HandlerStep(r) PROVE SlotsInv'
    BY <1>1, <1>3 DEF HandlerStep, Fail, Gathered, Commit, SaveFails, Saved,
       SavedNowhere, Extracting
  <1>4. ASSUME NEW t \in Tasks, Acquire(t) PROVE SlotsInv'
    <2>1. Extracting' = Extracting \cup {t} /\ t \notin Extracting
      BY <1>0, <1>4 DEF Acquire, Extracting, TypeOK
    <2>2. /\ IsFiniteSet(Extracting')
          /\ Cardinality(Extracting') = Cardinality(Extracting) + 1
      BY <1>0, <2>1, FS_AddElement
    <2>3. slots' = slots - 1
      BY <1>4 DEF Acquire
    <2>4. slots' + Cardinality(Extracting') = MaxConcurrency
      BY <1>0, <2>2, <2>3
    <2> QED
      BY <2>2, <2>4 DEF SlotsInv, SlotsAddUp, Extracting
  <1>5. ASSUME NEW t \in Tasks, Obtain(t) PROVE SlotsInv'
    <2>1. Extracting' = Extracting \ {t} /\ t \in Extracting
      BY <1>0, <1>5, EngineResult DEF Obtain, Extracting, TypeOK, Judged
    <2>2. /\ IsFiniteSet(Extracting')
          /\ Cardinality(Extracting') = Cardinality(Extracting) - 1
      BY <1>0, <2>1, FS_RemoveElement
    <2>3. slots' = slots + 1
      BY <1>5 DEF Obtain
    <2>4. slots' + Cardinality(Extracting') = MaxConcurrency
      BY <1>0, <2>2, <2>3
    <2> QED
      BY <2>2, <2>4 DEF SlotsInv, SlotsAddUp, Extracting
  <1>6. CASE Restart
    <2>1. Extracting' = {}
      BY <1>0, <1>6 DEF Restart, Extracting, TypeOK
    <2>2. slots' + Cardinality(Extracting') = MaxConcurrency
      BY <1>6, <2>1, FS_EmptySet, SlotsPositive DEF Restart
    <2> QED
      BY <2>1, <2>2, FS_EmptySet DEF SlotsInv, SlotsAddUp, Extracting
  <1>7. CASE UNCHANGED vars
    BY <1>1, <1>7 DEF vars, Extracting
  <1> QED
    BY <1>2, <1>3, <1>4, <1>5, <1>6, <1>7 DEF Next, TaskStep

LEMMA NextTypeOK == IInv /\ [Next]_vars => TypeOK'
  <1> SUFFICES ASSUME IInv, [Next]_vars PROVE TypeOK'
    OBVIOUS
  <1>0. TypeOK
    BY DEF IInv
  <1> USE SlotsPositive, CrashBound DEF TypeOK
  <1>1. slots' \in 0 .. MaxConcurrency
    <2>1. SlotsInv'
      BY NextSlots
    <2>2. /\ slots' + Cardinality(Extracting') = MaxConcurrency
          /\ Cardinality(Extracting') \in Nat
      BY <2>1, FS_CardinalityType DEF SlotsInv, SlotsAddUp, Extracting
    <2>3. slots' \in Nat
      <3>1. ASSUME NEW r \in Requests, Accept(r) \/ HandlerStep(r) PROVE slots' = slots
        BY <3>1 DEF Accept, HandlerStep, Fail, Gathered, Commit, SaveFails, Saved,
           SavedNowhere
      <3>2. ASSUME NEW t \in Tasks, TaskStep(t) PROVE slots' \in Nat
        BY <1>0, <3>2 DEF TaskStep, Acquire, Obtain
      <3>3. CASE Restart
        BY <3>3 DEF Restart
      <3> QED
        BY <1>0, <3>1, <3>2, <3>3 DEF Next, vars
    <2> QED
      BY <2>2, <2>3
  <1>2. ASSUME NEW r \in Requests, Accept(r) PROVE TypeOK'
    BY <1>0, <1>1, <1>2 DEF Accept
  <1>3. ASSUME NEW r \in Requests, HandlerStep(r) PROVE TypeOK'
    <2>1. ASSUME NEW s \in {200, 500}, NEW p \in BOOLEAN, NEW w \in BOOLEAN, Tell(r, s, p, w)
          PROVE  pc' \in [Requests -> {"new", "auditing", "saving", "committed", "answered", "lost"}]
                 /\ reply' \in [Requests -> Replies \cup {NoReply}]
      BY <1>0, <2>1 DEF Tell, Replies
    <2>2. CASE Fail(r)
      BY <1>0, <1>1, <2>1, <2>2 DEF Fail
    <2>3. CASE Gathered(r)
      BY <1>0, <1>1, <2>3 DEF Gathered
    <2>4. CASE Commit(r)
      <3>1. audits' \subseteq Tasks /\ runs' \subseteq Batches
        BY <1>0, <2>4, TaskHasOneRequest DEF Commit
      <3> QED
        BY <1>0, <1>1, <2>4, <3>1 DEF Commit
    <2>5. CASE SaveFails(r)
      <3>1. Tell(r, 200, FALSE, TRUE) \/ Tell(r, 200, FALSE, FALSE)
        BY <2>5 DEF SaveFails
      <3>2. UNCHANGED <<task, slots, audits, runs, enabled, crashes>>
        BY <2>5 DEF SaveFails
      <3>3. pc' \in [Requests -> {"new", "auditing", "saving", "committed", "answered", "lost"}]
            /\ reply' \in [Requests -> Replies \cup {NoReply}]
        BY <2>1, <3>1
      <3> QED
        BY <1>0, <1>1, <3>2, <3>3
    <2>6. CASE Saved(r)
      BY <1>0, <1>1, <2>1, <2>6 DEF Saved
    <2>7. CASE SavedNowhere(r)
      BY <1>0, <1>1, <2>1, <2>7 DEF SavedNowhere
    <2> QED
      BY <1>3, <2>2, <2>3, <2>4, <2>5, <2>6, <2>7 DEF HandlerStep
  <1>4. ASSUME NEW t \in Tasks, Acquire(t) PROVE TypeOK'
    BY <1>0, <1>1, <1>4 DEF Acquire
  <1>5. ASSUME NEW t \in Tasks, Obtain(t) PROVE TypeOK'
    BY <1>0, <1>1, <1>5, EngineResult DEF Obtain
  <1>6. CASE Restart
    BY <1>0, <1>1, <1>6 DEF Restart
  <1>7. CASE UNCHANGED vars
    BY <1>0, <1>7 DEF vars
  <1> QED
    BY <1>2, <1>3, <1>4, <1>5, <1>6, <1>7 DEF Next, TaskStep

-----------------------------------------------------------------------------
(* Only whole audits are stored.                                           *)
LEMMA NextStored == IInv /\ [Next]_vars => StoredWasJudged'
  <1> SUFFICES ASSUME IInv, [Next]_vars PROVE StoredWasJudged'
    OBVIOUS
  <1>0. TypeOK /\ HandlerInv /\ StoredWasJudged
    BY DEF IInv
  <1> USE DEF StoredWasJudged, TypeOK
  <1>1. ASSUME NEW r \in Requests, Accept(r) PROVE StoredWasJudged'
    <2>1. NotArchived(r)
      BY <1>0, <1>1 DEF Accept, HandlerInv
    <2> QED
      BY <1>0, <1>1, <2>1 DEF Accept, NotArchived
  <1>2. ASSUME NEW r \in Requests, Commit(r) PROVE StoredWasJudged'
    <2>1. \A t \in TasksOf[r] : task[t] \in Judged
      BY <1>0, <1>2 DEF Commit, HandlerInv
    <2> QED
      BY <1>0, <1>2, <2>1 DEF Commit
  <1>3. ASSUME NEW t \in Tasks, TaskStep(t) PROVE StoredWasJudged'
    BY <1>0, <1>3 DEF TaskStep, Acquire, Obtain, Judged
  <1>4. CASE Restart
    BY <1>0, <1>4 DEF Restart, Judged
  <1>5. ASSUME UNCHANGED <<task, audits>> PROVE StoredWasJudged'
    BY <1>0, <1>5
  <1> QED
    BY <1>1, <1>2, <1>3, <1>4, <1>5 DEF Next, vars, HandlerStep, Fail, Gathered,
       SaveFails, Saved, SavedNowhere

(* What HandlerInv says of one request.                                    *)
RequestInv(r) ==
  /\ Archived(r) \/ NotArchived(r)
  /\ ~enabled => NotArchived(r)
  /\ pc[r] = "new" => \A t \in TasksOf[r] : task[t] = "idle"
  /\ pc[r] \in {"saving", "committed"} => \A t \in TasksOf[r] : task[t] \in Judged
  /\ pc[r] \in {"new", "auditing", "saving"} => NotArchived(r)
  /\ pc[r] = "committed" => Archived(r)
  /\ pc[r] # "answered" <=> reply[r].status = 0
  /\ reply[r].persisted => Archived(r)

(* A step of a request leaves what is said of the others alone.            *)
LEMMA OthersStay ==
  ASSUME IInv, NEW r \in Requests, Accept(r) \/ HandlerStep(r),
         NEW q \in Requests, q # r
  PROVE  RequestInv(q)'
  <1>0. TypeOK /\ RequestInv(q)
    BY DEF IInv, HandlerInv, RequestInv
  <1>1. TasksOf[q] \cap TasksOf[r] = {}
    BY TaskHasOneRequest
  <1>2. /\ pc'[q] = pc[q] /\ reply'[q] = reply[q] /\ enabled' = enabled
        /\ \A t \in TasksOf[q] : task'[t] = task[t]
    BY <1>0, <1>1, TaskHasOneRequest DEF TypeOK, Accept, HandlerStep, Fail, Gathered,
       Commit, SaveFails, Saved, SavedNowhere, Tell
  <1>3. Archived(q)' = Archived(q) /\ NotArchived(q)' = NotArchived(q)
    BY <1>1 DEF Archived, NotArchived, Accept, HandlerStep, Fail, Gathered, Commit,
       SaveFails, Saved, SavedNowhere
  <1> QED
    BY <1>0, <1>2, <1>3 DEF RequestInv

LEMMA AcceptOwn ==
  ASSUME IInv, NEW r \in Requests, Accept(r) PROVE RequestInv(r)'
  <1>0. TypeOK /\ RequestInv(r) /\ pc[r] = "new"
    BY DEF IInv, HandlerInv, RequestInv, Accept
  <1>1. NotArchived(r)' /\ pc'[r] = "auditing" /\ reply'[r] = reply[r]
    BY <1>0 DEF Accept, RequestInv, NotArchived, TypeOK
  <1>2. reply[r].status = 0 /\ ~reply[r].persisted
    BY <1>0, TaskHasOneRequest DEF RequestInv, Archived, NotArchived, TypeOK, Replies, NoReply
  <1> QED
    BY <1>1, <1>2 DEF RequestInv

(* An answer that says persisted needs the rows.                           *)
LEMMA TellOwn ==
  ASSUME IInv, NEW r \in Requests,
         NEW s \in {200, 500}, NEW p \in BOOLEAN, NEW w \in BOOLEAN, Tell(r, s, p, w),
         UNCHANGED <<task, audits, runs, enabled>>, p => Archived(r)
  PROVE  RequestInv(r)'
  <1>0. TypeOK /\ RequestInv(r)
    BY DEF IInv, HandlerInv, RequestInv
  <1>1. pc'[r] = "answered" /\ reply'[r].status = s /\ reply'[r].persisted = p
    BY <1>0 DEF TypeOK, Tell
  <1>2. Archived(r)' = Archived(r) /\ NotArchived(r)' = NotArchived(r) /\ enabled' = enabled
    BY DEF Archived, NotArchived
  <1>3. s # 0
    OBVIOUS
  <1> QED
    BY <1>0, <1>1, <1>2, <1>3 DEF RequestInv

LEMMA HandlerOwn ==
  ASSUME IInv, NEW r \in Requests, HandlerStep(r) PROVE RequestInv(r)'
  <1>0. TypeOK /\ RequestInv(r)
    BY DEF IInv, HandlerInv, RequestInv
  <1>1. CASE Fail(r)
    BY <1>1, TellOwn DEF Fail
  <1>2. CASE Gathered(r)
    BY <1>0, <1>2 DEF Gathered, RequestInv, TypeOK, Archived, NotArchived
  <1>3. CASE Commit(r)
    <2>1. Archived(r)' /\ enabled' /\ pc'[r] = "committed"
      BY <1>0, <1>3 DEF Commit, Archived, TypeOK
    <2>2. UNCHANGED <<task, reply>> /\ pc[r] = "saving"
      BY <1>3 DEF Commit
    <2> QED
      BY <1>0, <2>1, <2>2 DEF RequestInv
  <1>4. CASE SaveFails(r)
    <2>1. Tell(r, 200, FALSE, TRUE) \/ Tell(r, 200, FALSE, FALSE)
      BY <1>4 DEF SaveFails
    <2>2. UNCHANGED <<task, audits, runs, enabled>>
      BY <1>4 DEF SaveFails
    <2> QED
      BY <2>1, <2>2, TellOwn
  <1>5. CASE Saved(r)
    BY <1>0, <1>5, TellOwn DEF Saved, RequestInv
  <1>6. CASE SavedNowhere(r)
    BY <1>6, TellOwn DEF SavedNowhere
  <1> QED
    BY <1>1, <1>2, <1>3, <1>4, <1>5, <1>6 DEF HandlerStep

LEMMA NextHandler == IInv /\ [Next]_vars => HandlerInv'
  <1> SUFFICES ASSUME IInv, [Next]_vars, NEW q \in Requests PROVE RequestInv(q)'
    BY DEF HandlerInv, RequestInv
  <1>0. TypeOK /\ RequestInv(q)
    BY DEF IInv, HandlerInv, RequestInv
  <1>1. ASSUME NEW r \in Requests, Accept(r) PROVE RequestInv(q)'
    BY <1>1, AcceptOwn, OthersStay
  <1>2. ASSUME NEW r \in Requests, HandlerStep(r) PROVE RequestInv(q)'
    BY <1>2, HandlerOwn, OthersStay
  <1>3. ASSUME NEW t \in Tasks, TaskStep(t) PROVE RequestInv(q)'
    <2>1. UNCHANGED <<pc, reply, audits, runs, enabled>>
      BY <1>3 DEF TaskStep, Acquire, Obtain
    <2>2. task[t] \in {"queued", "extracting"} /\ \A x \in Tasks : x # t => task'[x] = task[x]
      BY <1>0, <1>3 DEF TaskStep, Acquire, Obtain, TypeOK
    <2>3. \A x \in TasksOf[q] : task[x] \in Judged \cup {"idle"} => task'[x] = task[x]
      BY <2>2, TaskHasOneRequest DEF Judged
    <2> QED
      BY <1>0, <2>1, <2>3 DEF RequestInv, Archived, NotArchived
  <1>4. CASE Restart
    <2>1. UNCHANGED <<reply, audits, runs, enabled>>
      BY <1>4 DEF Restart
    <2>2. \A x \in TasksOf[q] : task[x] \in Judged \cup {"idle"} => task'[x] = task[x]
      BY <1>0, <1>4, TaskHasOneRequest DEF Restart, TypeOK, Judged
    <2>3. pc'[q] = pc[q] \/ (pc'[q] = "lost" /\ pc[q] # "answered")
      BY <1>0, <1>4 DEF Restart, TypeOK
    <2>4. pc[q] \in {"auditing", "saving", "committed"} => pc'[q] = "lost"
      BY <1>0, <1>4 DEF Restart, TypeOK
    <2> QED
      BY <1>0, <2>1, <2>2, <2>3, <2>4 DEF RequestInv, Archived, NotArchived
  <1>5. CASE UNCHANGED vars
    BY <1>0, <1>5 DEF vars, RequestInv, Archived, NotArchived
  <1> QED
    BY <1>1, <1>2, <1>3, <1>4, <1>5 DEF Next

LEMMA ServiceInductive == Spec => []IInv
  <1>1. IInv /\ [Next]_vars => IInv'
    BY NextTypeOK, NextHandler, NextSlots, NextStored DEF IInv
  <1> QED
    BY InitIInv, <1>1, PTL DEF Spec

-----------------------------------------------------------------------------
(* The variables of the service stay within their types, its slots between *)
(* none and max_concurrency.                                               *)
THEOREM ServiceTypeOK == Spec => []TypeOK
  <1>1. IInv => TypeOK
    BY DEF IInv
  <1> QED
    BY ServiceInductive, <1>1, PTL

(* No exception, failed batch or restart leaks or invents a slot of the    *)
(* semaphore of AuditService._facts.                                       *)
THEOREM SlotsHold == Spec => []SlotsAddUp
  <1>1. IInv => SlotsAddUp
    BY DEF IInv, SlotsInv
  <1> QED
    BY ServiceInductive, <1>1, PTL

LEMMA WholeRuns == IInv => RunsAreWhole
  <1> SUFFICES ASSUME IInv, NEW r \in Batches
               PROVE  /\ RunFound(r) => AuditsOfRun(r) = TasksOf[r]
                      /\ (\E t \in TasksOf[r] : AuditFound(t)) => RunFound(r)
    BY DEF RunsAreWhole
  <1>1. r \in Requests
    BY DEF Requests
  <1>2. Archived(r) \/ NotArchived(r)
    BY <1>1 DEF IInv, HandlerInv
  <1> QED
    BY <1>2 DEF Archived, NotArchived, RunFound, AuditFound, AuditsOfRun

(* A run is found exactly when all of its audits are, whatever failed or   *)
(* died during the save of audit_dataset.                                  *)
THEOREM RunsHold == Spec => []RunsAreWhole
  <1> QED
    BY ServiceInductive, WholeRuns, PTL

LEMMA RetrievablePersisted == IInv => PersistedIsRetrievable
  <1> SUFFICES ASSUME IInv, NEW r \in Requests, reply[r].persisted
               PROVE  /\ \A t \in TasksOf[r] : AuditFound(t)
                      /\ r \in Batches => RunFound(r)
    BY DEF PersistedIsRetrievable
  <1>1. Archived(r) /\ (~enabled => NotArchived(r)) /\ enabled \in BOOLEAN
    BY DEF IInv, HandlerInv, TypeOK
  <1>2. TasksOf[r] # {}
    BY TaskHasOneRequest
  <1> QED
    BY <1>1, <1>2 DEF Archived, NotArchived, RunFound, AuditFound

(* Who was told persisted can read everything back, restarts included.     *)
THEOREM PersistedStays == Spec => []PersistedIsRetrievable
  <1> QED
    BY ServiceInductive, RetrievablePersisted, PTL

(* Nothing the engine raised on is ever in the database.                   *)
THEOREM StoredHolds == Spec => []StoredWasJudged
  <1>1. IInv => StoredWasJudged
    BY DEF IInv
  <1> QED
    BY ServiceInductive, <1>1, PTL

-----------------------------------------------------------------------------
(* The refinement: every step of the service is one of the promise or      *)
(* leaves what the client and the archive show alone.                      *)
LEMMA PromiseInit == Init => Promise!Init
  <1> SUFFICES ASSUME Init PROVE Promise!Init
    OBVIOUS
  <1>1. \A r \in Requests : Phase(r) = "none" /\ Told(r) = "none"
    BY DEF Init, Phase, Told, NoReply
  <1>2. audits = {}
    BY DEF Init
  <1> QED
    BY <1>1, <1>2 DEF Promise!Init

(* A step of one request's handler moves only what it shows.               *)
LEMMA MapsMove ==
  ASSUME TypeOK, NEW r \in Requests, NEW v, pc' = [pc EXCEPT ![r] = v],
         \/ reply' = reply
         \/ \E w : reply' = [reply EXCEPT ![r] = w]
  PROVE  /\ [q \in Requests |-> Phase(q)]'
              = [[q \in Requests |-> Phase(q)] EXCEPT ![r] = Phase(r)']
         /\ [q \in Requests |-> Told(q)]'
              = [[q \in Requests |-> Told(q)] EXCEPT ![r] = Told(r)']
  <1>1. \A q \in Requests : q # r => pc'[q] = pc[q] /\ reply'[q] = reply[q]
    BY DEF TypeOK
  <1>2. \A q \in Requests : q # r => Phase(q)' = Phase(q) /\ Told(q)' = Told(q)
    BY <1>1 DEF Phase, Told
  <1> QED
    BY <1>2

LEMMA AcceptAsks ==
  ASSUME IInv, NEW r \in Requests, Accept(r) PROVE Promise!Ask(r)
  <1>0. TypeOK
    BY DEF IInv
  <1>1. /\ pc[r] = "new" /\ pc' = [pc EXCEPT ![r] = "auditing"] /\ pc'[r] = "auditing"
        /\ reply' = reply /\ audits' = audits
    BY <1>0 DEF Accept, TypeOK
  <1>2. /\ Phase(r) = "none" /\ Phase(r)' = "waiting"
        /\ [q \in Requests |-> Told(q)]' = [q \in Requests |-> Told(q)]
    BY <1>1 DEF Phase, Told
  <1>3. [q \in Requests |-> Phase(q)]'
           = [[q \in Requests |-> Phase(q)] EXCEPT ![r] = Phase(r)']
    BY <1>0, <1>1, MapsMove
  <1> QED
    BY <1>1, <1>2, <1>3 DEF Promise!Ask

LEMMA CommitArchives ==
  ASSUME IInv, NEW r \in Requests, Commit(r) PROVE Promise!Archive(r)
  <1>0. TypeOK /\ NotArchived(r)
    BY DEF IInv, HandlerInv, Commit
  <1>1. /\ pc[r] = "saving" /\ pc' = [pc EXCEPT ![r] = "committed"] /\ pc'[r] = "committed"
        /\ reply' = reply /\ audits' = audits \cup TasksOf[r]
    BY <1>0 DEF Commit, TypeOK
  <1>2. \A q \in Requests : Phase(q)' = Phase(q) /\ Told(q)' = Told(q)
    BY <1>0, <1>1 DEF Phase, Told, TypeOK
  <1>3. Phase(r) = "waiting" /\ Promise!Untouched(r)
    BY <1>0, <1>1 DEF Phase, NotArchived, Promise!Untouched
  <1> QED
    BY <1>1, <1>2, <1>3 DEF Promise!Archive

Answers(r) == \E what \in {"persisted", "unsaved", "error"} : Promise!Answer(r, what)

LEMMA TellAnswers ==
  ASSUME IInv, NEW r \in Requests, pc[r] \in {"auditing", "saving", "committed"},
         NEW s \in {200, 500}, NEW p \in BOOLEAN, NEW w \in BOOLEAN, Tell(r, s, p, w),
         UNCHANGED audits,
         p => Archived(r), s = 200 \/ NotArchived(r)
  PROVE  Answers(r)
  <1>0. TypeOK
    BY DEF IInv
  <1>1. /\ pc' = [pc EXCEPT ![r] = "answered"]
        /\ reply' = [reply EXCEPT ![r] = [status |-> s, persisted |-> p, warned |-> w]]
    BY DEF Tell
  <1>2. /\ pc'[r] = "answered"
        /\ reply'[r] = [status |-> s, persisted |-> p, warned |-> w]
    BY <1>0, <1>1 DEF TypeOK
  <1>3. Phase(r) = "waiting" /\ Phase(r)' = "answered"
    BY <1>2 DEF Phase
  <1>4. \/ Told(r)' = "error" /\ s = 500
        \/ Told(r)' = "persisted" /\ p
        \/ Told(r)' = "unsaved"
    <2>1. CASE s = 500
      BY <1>2, <2>1 DEF Told
    <2>2. CASE s = 200
      <3>1. reply'[r].status # 0 /\ reply'[r].status # 500 /\ reply'[r].persisted = p
        BY <1>2, <2>2
      <3> QED
        BY <3>1, Zenon DEF Told
    <2> QED
      BY <2>1, <2>2
  <1>5. /\ Told(r)' = "persisted" => Promise!Whole(r)
        /\ Told(r)' = "error" => Promise!Untouched(r)
    BY <1>4 DEF Archived, NotArchived, Promise!Whole, Promise!Untouched
  <1>6. /\ [q \in Requests |-> Phase(q)]'
              = [[q \in Requests |-> Phase(q)] EXCEPT ![r] = Phase(r)']
         /\ [q \in Requests |-> Told(q)]'
              = [[q \in Requests |-> Told(q)] EXCEPT ![r] = Told(r)']
    <2>1. \E x : reply' = [reply EXCEPT ![r] = x]
      BY <1>1
    <2> QED
      BY <1>0, <1>1, <2>1, MapsMove
  <1>7. Promise!Answer(r, Told(r)')
    BY <1>3, <1>5, <1>6 DEF Promise!Answer
  <1> QED
    BY <1>4, <1>7 DEF Answers

LEMMA PromiseNext == IInv /\ [Next]_vars => [Promise!Next]_(Promise!pvars)
  <1> SUFFICES ASSUME IInv, [Next]_vars PROVE Promise!Next \/ UNCHANGED Promise!pvars
    OBVIOUS
  <1>0. TypeOK /\ HandlerInv
    BY DEF IInv
  <1>1. ASSUME NEW r \in Requests, Accept(r) PROVE Promise!Next
    BY <1>1, AcceptAsks DEF Promise!Next
  <1>2. ASSUME NEW r \in Requests, HandlerStep(r)
        PROVE  Promise!Next \/ UNCHANGED Promise!pvars
    <2>1. CASE Fail(r)
      <3>1. pc[r] = "auditing" /\ NotArchived(r)
        BY <1>0, <2>1 DEF Fail, HandlerInv
      <3>2. Answers(r)
        BY <2>1, <3>1, TellAnswers DEF Fail
      <3> QED
        BY <3>2 DEF Promise!Next, Answers
    <2>2. CASE Gathered(r)
      <3>1. \A q \in Requests : Phase(q)' = Phase(q) /\ Told(q)' = Told(q)
        BY <1>0, <2>2 DEF Gathered, TypeOK, Phase, Told
      <3> QED
        BY <2>2, <3>1 DEF Gathered, Promise!pvars
    <2>3. CASE Commit(r)
      BY <2>3, CommitArchives DEF Promise!Next
    <2>4. CASE SaveFails(r)
      <3>1. Tell(r, 200, FALSE, TRUE) \/ Tell(r, 200, FALSE, FALSE)
        BY <2>4 DEF SaveFails
      <3>2. UNCHANGED audits /\ pc[r] \in {"auditing", "saving", "committed"}
        BY <2>4 DEF SaveFails
      <3>3. Answers(r)
        BY <3>1, <3>2, TellAnswers
      <3> QED
        BY <3>3 DEF Promise!Next, Answers
    <2>5. CASE Saved(r)
      <3>1. pc[r] = "committed" /\ Archived(r)
        BY <1>0, <2>5 DEF Saved, HandlerInv
      <3>2. Answers(r)
        BY <2>5, <3>1, TellAnswers DEF Saved
      <3> QED
        BY <3>2 DEF Promise!Next, Answers
    <2>6. CASE SavedNowhere(r)
      <3>1. Answers(r)
        BY <2>6, TellAnswers DEF SavedNowhere
      <3> QED
        BY <3>1 DEF Promise!Next, Answers
    <2> QED
      BY <1>2, <2>1, <2>2, <2>3, <2>4, <2>5, <2>6 DEF HandlerStep
  <1>3. ASSUME NEW t \in Tasks, TaskStep(t) PROVE UNCHANGED Promise!pvars
    <2>1. UNCHANGED <<pc, reply, audits>>
      BY <1>3 DEF TaskStep, Acquire, Obtain
    <2> QED
      BY <2>1 DEF Promise!pvars, Phase, Told
  <1>4. CASE Restart
    <2>1. UNCHANGED <<reply, audits>>
      BY <1>4 DEF Restart
    <2>2. \A q \in Requests :
             Phase(q)' = IF Phase(q) = "waiting" THEN "lost" ELSE Phase(q)
      BY <1>0, <1>4 DEF Restart, Phase, TypeOK
    <2>3. \A q \in Requests : Told(q)' = Told(q)
      BY <2>1 DEF Told
    <2>4. Promise!Lose
      BY <2>1, <2>2, <2>3 DEF Promise!Lose
    <2> QED
      BY <2>4 DEF Promise!Next
  <1>5. CASE UNCHANGED vars
    BY <1>5 DEF vars, Promise!pvars, Phase, Told
  <1> QED
    BY <1>1, <1>2, <1>3, <1>4, <1>5 DEF Next

(* AuditService implements the safety of AuditPromise, step by step, for   *)
(* every instance: one answer per request, archived whole and only once,   *)
(* persisted said only of what is there, nothing archived behind an error. *)
THEOREM ServiceKeepsPromise == Spec => PromiseSafety
  <1> QED
    BY ServiceInductive, PromiseInit, PromiseNext, PTL DEF Spec, PromiseSafety

-----------------------------------------------------------------------------
(* The routes and the reads.                                               *)

(* A run that is being listed is in the database; one that was, was whole. *)
ReadInv ==
  /\ read.step = "listing" => read.run \in Batches /\ RunFound(read.run)
  /\ read.step = "answered" /\ read.run # NoRun => read.found = TasksOf[read.run]

ApiInv == ApiTypeOK /\ ReadInv

LEMMA ApiStepServes == [ApiNext]_apiVars => [Next]_vars
  BY DEF ApiNext, apiVars, vars, Enter, Refuse, Serve, Crash, ReadStep, GetAudit, AuditMissing,
     GetRun, RunMissing, ListAudits, Unavailable, Next

(* The routes add nothing to what the service does: AuditApi implements    *)
(* AuditService, fairness included.                                        *)
THEOREM ApiRunsService == ApiSpec => Spec
  <1>1. ApiInit => Init
    BY DEF ApiInit
  <1> QED
    BY <1>1, ApiStepServes, PTL DEF ApiSpec, Spec

-----------------------------------------------------------------------------
LEMMA ProblemStatus == ASSUME NEW r PROVE Problem(r) \in {0, 413, 422}
  BY DEF Problem, ReadUpload, CheckSize, CheckSingle

LEMMA ReadingType ==
  ASSUME NEW step \in {"idle", "listing", "answered"}, NEW status \in {0, 200, 404, 503},
         NEW run \in Batches \cup {NoRun}, NEW found \in SUBSET Tasks
  PROVE  Reading(step, status, run, found) \in Reads
  BY DEF Reading, Reads

LEMMA ApiInitInv == ApiInit => ApiInv
  <1> SUFFICES ASSUME ApiInit PROVE ApiInv
    OBVIOUS
  <1>1. TypeOK
    BY InitIInv DEF ApiInit, IInv
  <1>2. read \in Reads
    BY ReadingType DEF ApiInit, NoRead
  <1>3. read.step = "idle"
    BY DEF ApiInit, NoRead, Reading
  <1> QED
    BY <1>1, <1>2, <1>3 DEF ApiInit, ApiInv, ApiTypeOK, ReadInv

(* The tables only grow, and a deployment keeps its database.              *)
LEMMA TablesGrow ==
  [Next]_vars => enabled' = enabled /\ runs \subseteq runs' /\ audits \subseteq audits'
  BY DEF Next, vars, Accept, HandlerStep, TaskStep, Fail, Gathered, Commit, SaveFails, Saved,
     SavedNowhere, Acquire, Obtain, Restart

LEMMA ApiNextInv == IInv /\ IInv' /\ ApiInv /\ [ApiNext]_apiVars => ApiInv'
  <1> SUFFICES ASSUME IInv, IInv', ApiInv, [ApiNext]_apiVars PROVE ApiInv'
    OBVIOUS
  <1>0. /\ TypeOK' /\ gate \in [Requests -> {0, 413, 422, 429}] /\ read \in Reads /\ ReadInv
        /\ enabled' = enabled /\ runs \subseteq runs'
    BY ApiStepServes, TablesGrow DEF IInv, ApiInv, ApiTypeOK
  <1>1. gate' \in [Requests -> {0, 413, 422, 429}]
    <2>1. CASE gate' = gate
      BY <1>0, <2>1
    <2>2. ASSUME NEW r \in Requests, Refuse(r) PROVE gate' \in [Requests -> {0, 413, 422, 429}]
      <3>1. PICK status \in {429, Problem(r)} \ {0} : gate' = [gate EXCEPT ![r] = status]
        BY <2>2 DEF Refuse
      <3>2. status \in {0, 413, 422, 429}
        BY ProblemStatus
      <3> QED
        BY <1>0, <3>1, <3>2
    <2> QED
      BY <2>1, <2>2 DEF ApiNext, apiVars, Enter, Serve, Crash, ReadStep, GetAudit, AuditMissing,
         GetRun, RunMissing, ListAudits, Unavailable
  <1>2. read' \in Reads /\ ReadInv'
    <2>1. CASE read' = read
      BY <1>0, <2>1 DEF ReadInv, RunFound
    <2>2. CASE Crash
      <3>1. read' = NoRead
        BY <2>2 DEF Crash
      <3> QED
        BY <3>1, ReadingType DEF NoRead, Reading, ReadInv
    <2>3. ASSUME NEW t \in Tasks, GetAudit(t) \/ AuditMissing(t) PROVE read' \in Reads /\ ReadInv'
      <3>1. read' = Reading("answered", 200, NoRun, {t}) \/ read' = Reading("answered", 404, NoRun, {})
        BY <2>3 DEF GetAudit, AuditMissing
      <3> QED
        BY <3>1, ReadingType DEF Reading, ReadInv
    <2>4. ASSUME NEW r \in Batches, GetRun(r) \/ RunMissing(r) PROVE read' \in Reads /\ ReadInv'
      <3>1. CASE GetRun(r)
        <4>1. read' = Reading("listing", 0, r, {}) /\ RunFound(r)'
          BY <3>1 DEF GetRun, vars, RunFound
        <4>2. read'.run = r /\ read'.step = "listing"
          BY <4>1 DEF Reading
        <4>3. ReadInv'
          BY <4>1, <4>2 DEF ReadInv
        <4> QED
          BY <4>1, <4>3, ReadingType
      <3>2. CASE RunMissing(r)
        BY <3>2, ReadingType DEF RunMissing, Reading, ReadInv
      <3> QED
        BY <2>4, <3>1, <3>2
    <2>5. CASE ListAudits
      <3>1. read' = Reading("answered", 200, read.run, AuditsOfRun(read.run))
        BY <2>5 DEF ListAudits
      <3>2. read.run \in Batches \cup {NoRun} /\ AuditsOfRun(read.run) \in SUBSET Tasks
        <4>1. read.run \in Batches
          BY <1>0, <2>5 DEF ListAudits, ReadInv
        <4>2. TasksOf[read.run] \subseteq Tasks
          BY <4>1 DEF Tasks, Requests
        <4> QED
          BY <4>1, <4>2 DEF AuditsOfRun
      <3>3. AuditsOfRun(read.run) = TasksOf[read.run]
        BY <1>0, <2>5, WholeRuns DEF ListAudits, ReadInv, RunsAreWhole
      <3>4. read' \in Reads
        BY <3>1, <3>2, ReadingType
      <3> QED
        BY <3>1, <3>3, <3>4 DEF Reading, ReadInv
    <2>6. CASE Unavailable
      BY <2>6, ReadingType DEF Unavailable, Reading, ReadInv
    <2> QED
      BY <2>1, <2>2, <2>3, <2>4, <2>5, <2>6 DEF ApiNext, apiVars, Enter, Refuse, Serve, ReadStep
  <1> QED
    BY <1>0, <1>1, <1>2 DEF ApiInv, ApiTypeOK

LEMMA ApiInductive == ApiSpec => []IInv /\ []ApiInv
  <1>1. ApiSpec => []IInv
    BY ApiRunsService, ServiceInductive
  <1>2. ApiInit /\ [][ApiNext]_apiVars /\ []IInv => []ApiInv
    BY ApiInitInv, ApiNextInv, PTL
  <1> QED
    BY <1>1, <1>2, PTL DEF ApiSpec

(* The gate and the reads stay within their types, as the service does.    *)
THEOREM ApiTypes == ApiSpec => []ApiTypeOK
  <1>1. ApiInv => ApiTypeOK
    BY DEF ApiInv
  <1> QED
    BY ApiInductive, <1>1, PTL

-----------------------------------------------------------------------------
(* What was told persisted is found by every read.                         *)
LEMMA PersistedIsFound ==
  ASSUME IInv
  PROVE  /\ \A r \in Batches : RunMissing(r) => ~reply[r].persisted
         /\ \A r \in Requests : \A t \in TasksOf[r] : AuditMissing(t) => ~reply[r].persisted
  <1>0. PersistedIsRetrievable
    BY RetrievablePersisted
  <1>1. ASSUME NEW r \in Batches, RunMissing(r) PROVE ~reply[r].persisted
    BY <1>0, <1>1 DEF RunMissing, PersistedIsRetrievable, Requests
  <1>2. ASSUME NEW r \in Requests, NEW t \in TasksOf[r], AuditMissing(t)
        PROVE  ~reply[r].persisted
    BY <1>0, <1>2 DEF AuditMissing, PersistedIsRetrievable
  <1> QED
    BY <1>1, <1>2

(* A report is read whole and what was told persisted is found, whatever   *)
(* is committed, fails or dies between the statements of a read.           *)
THEOREM ReadsHold == ApiSpec => ReadsAreTrue
  <1>1. IInv /\ ApiInv' /\ [ApiNext]_apiVars =>
          [/\ read'.run # NoRun /\ read'.step = "answered" => read'.found = TasksOf[read'.run]
           /\ \A r \in Batches : RunMissing(r) => ~reply[r].persisted
           /\ \A r \in Requests : \A t \in TasksOf[r] : AuditMissing(t) => ~reply[r].persisted]_apiVars
    BY PersistedIsFound DEF ApiInv, ReadInv
  <1> QED
    BY ApiInductive, <1>1, PTL DEF ApiSpec, ReadsAreTrue
=============================================================================
