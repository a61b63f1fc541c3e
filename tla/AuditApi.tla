------------------------------ MODULE AuditApi ------------------------------
(***************************************************************************)
(* The routes around AuditService: which requests reach it, and the two    *)
(* reads that give back what it stored.                                    *)
(*                                                                         *)
(* A request is refused before the service hears of it: by the client      *)
(* limit, for its content or for its size.  A report is read in two        *)
(* statements, the run and then its audits, with commits of others and     *)
(* failures of the database in between.                                    *)
(***************************************************************************)
EXTENDS AuditService

CONSTANTS
    Uploads,   \* the requests that bring a file instead of a JSON body
    Content,   \* request -> "good", "huge", "not_json" or "wrong_shape"
    Size,      \* request -> how many conversations it brings
    NoRun,     \* no run is being read
    MAX_CONVERSATIONS_PER_RUN

(* _read_upload: the size of the file and its JSON.  A body is not capped, *)
(* and malformed JSON there is a validation error of the framework.        *)
ReadUpload(r) ==
    CASE r \in Uploads /\ Content[r] = "huge" -> 413
      [] Content[r] = "not_json" -> 422
      [] OTHER -> 0

(* _check_size.                                                            *)
CheckSize(r) == IF r \in Batches /\ Size[r] > MAX_CONVERSATIONS_PER_RUN THEN 413 ELSE 0

(* audit_one_file takes a dataset too, if it holds a single conversation.  *)
CheckSingle(r) == IF r \in Singles \cap Uploads /\ Size[r] # 1 THEN 422 ELSE 0

(* What is wrong with a request: the first check that fails, 0 if none.    *)
Problem(r) ==
    IF ReadUpload(r) # 0 THEN ReadUpload(r)
    ELSE IF Content[r] = "wrong_shape" THEN 422
    ELSE IF CheckSingle(r) # 0 THEN CheckSingle(r)
    ELSE CheckSize(r)

ASSUME RoutesShape ==
    /\ Uploads \subseteq Requests
    /\ Content \in [Requests -> {"good", "huge", "not_json", "wrong_shape"}]
    /\ Size \in [Requests -> Nat]
    /\ \A r \in Requests : Problem(r) = 0 => Cardinality(TasksOf[r]) = Size[r]
ASSUME NoRunIsNone == NoRun \notin Batches

VARIABLES
    gate,   \* request -> the status it was refused with, or 0
    read    \* the read under way or last answered

apiVars == <<pc, task, slots, reply, audits, runs, enabled, crashes, gate, read>>

Reads == [step : {"idle", "listing", "answered"}, status : {0, 200, 404, 503},
          run : Batches \cup {NoRun}, found : SUBSET Tasks]

Reading(step, status, run, found) ==
    [step |-> step, status |-> status, run |-> run, found |-> found]
NoRead == Reading("idle", 0, NoRun, {})

ApiTypeOK ==
    /\ TypeOK
    /\ gate \in [Requests -> {0, 413, 422, 429}]
    /\ read \in Reads

ApiInit ==
    /\ Init
    /\ gate = [r \in Requests |-> 0]
    /\ read = NoRead

-----------------------------------------------------------------------------
(* The four POST routes: the client limit, the content, then the service.  *)
Enter(r) ==
    /\ gate[r] = 0
    /\ Problem(r) = 0
    /\ Accept(r)
    /\ UNCHANGED <<gate, read>>

(* enforce_client_limit and the checks before the service: HTTP 4xx.       *)
Refuse(r) ==
    /\ pc[r] = "new"
    /\ gate[r] = 0
    /\ \E status \in {429, Problem(r)} \ {0} : gate' = [gate EXCEPT ![r] = status]
    /\ UNCHANGED <<vars, read>>

Serve ==
    /\ (\E r \in Requests : HandlerStep(r)) \/ (\E t \in Tasks : TaskStep(t))
    /\ UNCHANGED <<gate, read>>

Crash == Restart /\ read' = NoRead /\ UNCHANGED gate

-----------------------------------------------------------------------------
(* get_audit: one statement.                                               *)
GetAudit(t) ==
    /\ read.step # "listing"
    /\ AuditFound(t)
    /\ read' = Reading("answered", 200, NoRun, {t})
    /\ UNCHANGED <<vars, gate>>

AuditMissing(t) ==
    /\ read.step # "listing"
    /\ enabled /\ ~AuditFound(t)
    /\ read' = Reading("answered", 404, NoRun, {})
    /\ UNCHANGED <<vars, gate>>

(* A plausible bug: the audits are asked for whether there is a run or not. *)
MutantGetRun(r) ==
    /\ read.step # "listing"
    /\ enabled
    /\ read' = Reading("listing", 0, r, {})
    /\ UNCHANGED <<vars, gate>>

(* get_run: the row of the run, then the audits that name it.              *)
GetRun(r) ==
    /\ read.step # "listing"
    /\ RunFound(r)
    /\ read' = Reading("listing", 0, r, {})
    /\ UNCHANGED <<vars, gate>>

RunMissing(r) ==
    /\ read.step # "listing"
    /\ enabled /\ ~RunFound(r)
    /\ read' = Reading("answered", 404, NoRun, {})
    /\ UNCHANGED <<vars, gate>>

ListAudits ==
    /\ read.step = "listing"
    /\ read' = Reading("answered", 200, read.run, AuditsOfRun(read.run))
    /\ UNCHANGED <<vars, gate>>

(* No database, or one that fails at either statement: HTTP 503.           *)
Unavailable ==
    /\ read' = Reading("answered", 503, NoRun, {})
    /\ UNCHANGED <<vars, gate>>

ReadStep ==
    \/ \E t \in Tasks : GetAudit(t) \/ AuditMissing(t)
    \/ \E r \in Batches : GetRun(r) \/ RunMissing(r)
    \/ ListAudits
    \/ Unavailable

ApiNext == (\E r \in Requests : Enter(r) \/ Refuse(r)) \/ Serve \/ Crash \/ ReadStep

(* Nothing is assumed of clients: neither requests nor reads must come.    *)
ApiSpec == ApiInit /\ [][ApiNext]_apiVars /\ Fairness

-----------------------------------------------------------------------------
(* Properties.                                                             *)

(* What the two reads answer is true of what clients were told: a report   *)
(* comes with all the audits of its run though it is read in two           *)
(* statements, and nothing that was reported persisted is ever missing     *)
(* (routes.py:279-303, postgres.py:180-210).                               *)
ReadsAreTrue ==
    [][/\ read'.run # NoRun /\ read'.step = "answered" => read'.found = TasksOf[read'.run]
       /\ \A r \in Batches : RunMissing(r) => ~reply[r].persisted
       /\ \A r \in Requests : \A t \in TasksOf[r] : AuditMissing(t) => ~reply[r].persisted]_apiVars

=============================================================================
