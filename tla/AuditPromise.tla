---------------------------- MODULE AuditPromise ----------------------------
(***************************************************************************)
(* What the audit service promises its clients, with no word on how: every *)
(* request gets at most one reply; an audit said to be persisted is in the *)
(* archive, whole, and stays there; an errored request archives nothing.   *)
(* AuditService is checked to implement this.                              *)
(***************************************************************************)
CONSTANTS
    Requests,   \* audit requests, of one conversation or of a batch
    Rows        \* request -> the audits that make it up

VARIABLES
    phase,      \* request -> "none", "waiting", "answered", "lost"
    reply,      \* request -> "none", "persisted", "unsaved", "error"
    archive     \* the audits that can be read back by identifier

pvars == <<phase, reply, archive>>

Whole(r) == Rows[r] \subseteq archive
Untouched(r) == Rows[r] \cap archive = {}

Init ==
    /\ phase = [r \in Requests |-> "none"]
    /\ reply = [r \in Requests |-> "none"]
    /\ archive = {}

Ask(r) ==
    /\ phase[r] = "none"
    /\ phase' = [phase EXCEPT ![r] = "waiting"]
    /\ UNCHANGED <<reply, archive>>

(* The one step that archives anything archives a request whole.           *)
Archive(r) ==
    /\ phase[r] = "waiting"
    /\ Untouched(r)
    /\ archive' = archive \cup Rows[r]
    /\ UNCHANGED <<phase, reply>>

Answer(r, what) ==
    /\ phase[r] = "waiting"
    /\ what = "persisted" => Whole(r)
    /\ what = "error" => Untouched(r)
    /\ phase' = [phase EXCEPT ![r] = "answered"]
    /\ reply' = [reply EXCEPT ![r] = what]
    /\ UNCHANGED archive

(* The process died: nobody will answer what was waiting.                  *)
Lose ==
    /\ phase' = [r \in Requests |-> IF phase[r] = "waiting" THEN "lost" ELSE phase[r]]
    /\ UNCHANGED <<reply, archive>>

Next ==
    \/ \E r \in Requests : Ask(r) \/ Archive(r)
    \/ \E r \in Requests, what \in {"persisted", "unsaved", "error"} : Answer(r, what)
    \/ Lose

(* A request that was accepted is answered, or lost with the process.      *)
Answered(r) == phase[r] = "waiting" ~> phase[r] # "waiting"

Spec == Init /\ [][Next]_pvars /\ \A r \in Requests : Answered(r)
=============================================================================
