---------------------------- MODULE AuditEngine ----------------------------
(***************************************************************************)
(* The engine at work: a conversation that is audited again and again, as  *)
(* a client does that was given a partial audit.  Every time the facts are *)
(* there (a complete audit) or the model failed (a partial one), and the   *)
(* audits handed out must agree with one another, with what was said in    *)
(* the call, with the report made of them and with an annotator's verdict. *)
(*                                                                         *)
(* The facts fit the conversation, as FactPipeline's DeliveredFactsFit     *)
(* promises.                                                               *)
(***************************************************************************)
EXTENDS Transcript, Evaluation

CONSTANTS
    Calls,     \* records [transcript, date, customer, facts]
    Labelings, \* the identifiers of the audits of a run, in order
    Truths,    \* verdicts of an annotator on the run
    Amounts,   \* the amounts that are spoken
    MaxAudits  \* bound: audits of one conversation

(* A transcript is a sequence, and what the detectors find in words,       *)
(* figures and dates is not in it beforehand.                              *)
ASSUME CallsAreTranscripts ==
    \A call \in Calls :
        /\ Len(call.transcript) \in Nat
        /\ DOMAIN call.transcript = 1 .. Len(call.transcript)
        /\ \A t \in DOMAIN call.transcript :
              /\ call.transcript[t].says \cap Detected = {}
              /\ call.transcript[t].mentions \in Seq(DateMentions)

(* The call and the customer's debt are dated by the calendar.             *)
ASSUME CallsAreDated ==
    \A call \in Calls : {call.date, call.customer.due} \subseteq CalendarDates

(* ConversationFacts.inconsistencies is empty.                             *)
ASSUME FactsFit == \A call \in Calls : Fits(call.facts, call.transcript)

(* What is compared with how an amount is said: what counts as an amount.  *)
ASSUME AmountsCanBeSaid ==
    \A n \in Amounts : n \in Nat /\ n >= MIN_AMOUNT /\ n <= 999999999

ASSUME AuditBound == MaxAudits \in Nat \ {0}

(* An annotator judges a number of calls by the criteria of the rubric.    *)
ASSUME TruthsAreVerdicts ==
    \A truth \in Truths :
        /\ IsFiniteSet(DOMAIN truth)
        /\ \A id \in DOMAIN truth : truth[id].failed \subseteq Criteria

VARIABLES
    call,          \* the transcript and what the model would find in it
    conversation,  \* the transcript as the detectors read it
    audits         \* the audits delivered, in order; "raised" for an HTTP 500

vars == <<call, conversation, audits>>

facts == call.facts

Init ==
    /\ call \in Calls
    /\ conversation = Hearing(call)
    /\ audits = << >>

(* engine.audit_conversation with the facts f.                             *)
Outcome(c, f) == IF EngineRaises(c, f) THEN [analysis |-> "raised"] ELSE Audit(c, f)

Deliver(f) ==
    /\ Len(audits) < MaxAudits
    /\ audits' = Append(audits, Outcome(conversation, f))
    /\ UNCHANGED <<call, conversation>>

AuditComplete == Deliver(facts)
AuditPartial == Deliver(NoFacts)

Next == AuditComplete \/ AuditPartial

Spec == Init /\ [][Next]_vars

-----------------------------------------------------------------------------
(* Properties.                                                             *)

Delivered(analysis) == {i \in DOMAIN audits : audits[i].analysis = analysis}
Audited == Delivered("partial") \cup Delivered("complete")

(* The run a report and an evaluation are made of: there is none if an     *)
(* audit raised, and nothing keeps two of its conversations from bearing   *)
(* one identifier.                                                         *)
Finished == Len(audits) = MaxAudits /\ Delivered("raised") = {}
Run(ids) == [i \in DOMAIN audits |-> [id |-> ids[i], audit |-> audits[i]]]

TypeOK ==
    /\ Fits(facts, conversation)
    /\ Len(audits) <= MaxAudits
    /\ \A i \in Audited :
          /\ audits[i].score \in 0 .. 1000
          /\ audits[i].severity \in {"none", "minor", "major", "critical"}
          /\ audits[i].failed \subseteq Criteria
          /\ \A id \in Criteria : audits[i].criteria[id].turns \subseteq DOMAIN conversation

(* Degrading never accuses: what a partial audit reports as failed is also *)
(* failed in the complete audit of the same conversation.  The model's     *)
(* facts can only move the sensitive turn earlier and add legal threats    *)
(* (base.py:88-97, conduct.py:34-48).                                      *)
PartialNeverAccuses ==
    \A i \in Delivered("partial"), j \in Delivered("complete") :
        audits[i].failed \subseteq audits[j].failed

(* Every failure has its quote, so the engine delivers an audit: it raises *)
(* only for a transcript without a turn of the agent, for a commitment of  *)
(* which the model located neither side, and for a weekday with a zero     *)
(* where a criterion looks for a date (rubrica.md:9, audit.py:85-89,       *)
(* dates.py:57-68).                                                        *)
RaisesOnlyWithoutEvidence ==
    \A i \in Delivered("raised") :
        \/ AgentTurns(conversation) = {}
        \/ \E t \in DatesRead(conversation, facts) : \E j \in DOMAIN call.transcript[t].mentions :
               Unreadable(call.transcript[t].mentions[j])
        \/ /\ facts.payment_commitment # NoCommitment
           /\ facts.payment_commitment.client_proposal_turn = None
           /\ facts.payment_commitment.agent_confirmation_turn = None

(* The same sentence is not punished twice (conduct.py:52-54): no turn is  *)
(* cited by both conduct criteria as a violation.                          *)
NoTurnPunishedTwice ==
    \A i \in Delivered("complete") :
        {"R10a", "R10b"} \subseteq audits[i].failed =>
            audits[i].criteria.R10a.turns \cap audits[i].criteria.R10b.turns = {}

(* The window of the payment date is judged exactly when the date is       *)
(* concrete, so one vague date fails one criterion (rubrica.md:68).        *)
WindowJudgedIffConcrete ==
    \A i \in Delivered("complete") :
        audits[i].criteria.R5b.status # "not_applicable"
            <=> audits[i].criteria.R5a.status = "complies"

(* No disclosure escapes: once the model locates one, either it counts     *)
(* against the agent as a leak to a third party, or both the verification  *)
(* before it and the exactness of what it said are judged.                 *)
EveryDisclosureIsJudged ==
    \A i \in Delivered("complete") : facts.debt_disclosure_turn # None =>
        IF facts.interlocutor = "third_party"
        THEN "R3a" \in audits[i].failed
        ELSE \A id \in {"R2b", "R4a", "R4b"} :
                audits[i].criteria[id].status \in {"complies", "violates"}

(* Score and severity tell the same story: the full score, no severity and *)
(* an empty list of failures come together, after rounding too.            *)
FullScoreMeansClean ==
    \A i \in Audited :
        /\ audits[i].score = 1000 <=> audits[i].failed = {}
        /\ audits[i].severity = "none" <=> audits[i].failed = {}

(* The committed date is the one that was said: if the first date of the   *)
(* agent's confirmation (of the client's proposal, if that states none)    *)
(* names a day within thirteen of the call, by whatever form and on        *)
(* whichever side of a month or a year, that day is taken as concrete and  *)
(* judged against the window (negotiation.py:19-75, dates.py:48-74).       *)
CommittedDateIsTheOneSaid ==
    facts.payment_commitment # NoCommitment =>
        LET Mentions(t) == IF t = None THEN << >> ELSE call.transcript[t].mentions
            confirmed == Mentions(facts.payment_commitment.agent_confirmation_turn)
            proposed == Mentions(facts.payment_commitment.client_proposal_turn)
            said == IF confirmed # << >> THEN confirmed ELSE proposed
        IN  said # << >> =>
            \A k \in Meant(said[1], call.date, -13 .. 13), i \in Delivered("complete") :
                /\ audits[i].criteria.R5a.status = "complies"
                /\ audits[i].criteria.R5b.status =
                      IF k \in 0 .. MAX_DAYS_TO_PAY THEN "complies" ELSE "violates"

(* The disclosure is heard as it was said: an amount in words meets R4.a   *)
(* exactly when it is the registered one, and a due date with its month,   *)
(* at most half a year from the call, meets R4.b                           *)
(* (disclosure.py:90-133, numbers.py:50-105).                              *)
Spoken == [n \in Amounts |-> <<"debe">> \o Said(n) \o <<"pesos">>]
DisclosureIsHeard ==
    facts.interlocutor # "third_party" /\ facts.debt_disclosure_turn # None =>
        LET turn == call.transcript[facts.debt_disclosure_turn]
            due == call.customer.due
        IN  \A i \in Delivered("complete") :
            /\ \A n \in Amounts : turn.words = Spoken[n] /\ turn.written = {} =>
                  audits[i].criteria.R4a.status =
                     IF n = call.customer.amount THEN "complies" ELSE "violates"
            /\ (\E j \in DOMAIN turn.mentions :
                   /\ turn.mentions[j].day = due.day /\ turn.mentions[j].month = due.month
                   /\ Agrees(turn.mentions[j].year, due.year)
                   /\ Ordinal(call.date) - Ordinal(due) \in -182 .. 182)
                => audits[i].criteria.R4b.status = "complies"

(* What a report tells of the audits of a run.                             *)
Tells(report, run) ==
    LET top == report.most_frequent_failures
        Failing(id) == {i \in DOMAIN run : id \in run[i].audit.failed}
        Class == [critical |-> Critical, major |-> Major, minor |-> Minor, none |-> {}]
    IN  /\ \A id \in Criteria : report.criteria[id].failing_conversations = Failing(id)
        /\ \A i \in DOMAIN run : run[i].audit.severity # "none" =>
              Class[run[i].audit.severity] \cap run[i].audit.failed # {}
        /\ \E i, j \in DOMAIN run :
              run[i].audit.score <= report.average_score
                 /\ report.average_score <= run[j].audit.score
        /\ \A n \in DOMAIN top : \A id \in Criteria \ {top[m] : m \in 1 .. n} :
              LET more == Cardinality(Failing(top[n]))
                  less == Cardinality(Failing(id))
              IN  more > less \/ (more = less /\ Weight({top[n]}) >= Weight({id}))
        /\ Len(top) < DEFAULT_TOP_FAILURES =>
              {top[n] : n \in DOMAIN top} = UNION {run[i].audit.failed : i \in DOMAIN run}

(* The report tells what the audits say: it counts every failure of every  *)
(* audit once, the gravest failure of an audit is found under its severity,*)
(* the average lies among the scores, and what comes after a frequent      *)
(* failure, in the list or left out of it, is not more frequent, nor as    *)
(* frequent and graver (report.py:53-106).                                 *)
ReportTellsTheAudits ==
    Finished => LET run == Run([i \in DOMAIN audits |-> "call"]) IN Tells(BuildReport(run), run)

(* A comparison adds up.                                                   *)
AddsUp(result, truth) ==
    /\ result.compared \cup result.skipped_partial \cup result.missing_from_run = DOMAIN truth
    /\ Cardinality(result.compared) + Cardinality(result.skipped_partial)
          + Cardinality(result.missing_from_run) = Cardinality(DOMAIN truth)
    /\ result.false_positives = 0 /\ result.false_negatives = 0
          <=> result.exact_matches = Cardinality(result.compared)
    /\ result.f1 # NoRate =>
          \E low, high \in {result.precision, result.recall} :
              low <= result.f1 /\ result.f1 <= high

(* The comparison with an annotator adds up: every conversation of the     *)
(* ground truth is compared, skipped or missing, once; there is no false   *)
(* alarm and nothing missed exactly when all that was compared matches;    *)
(* and F1 lies between precision and recall (evaluation.py:83-164).        *)
ComparisonAddsUp ==
    Finished => \A ids \in Labelings, truth \in Truths :
        AddsUp(CompareRun(Run(ids), truth, Criteria), truth)

(* What docs/rubrica.md:42 and :65 say of R2: the debt is revealed only if *)
(* the digits match, and revealing it otherwise is a critical failure.     *)
WrongDigitsAreCaught ==
    \A i \in Delivered("complete") :
        /\ facts.interlocutor # "third_party"
        /\ facts.debt_disclosure_turn # None
        /\ DigitsAnswerTurn(conversation) # None
        /\ "lastFour" \notin conversation[DigitsAnswerTurn(conversation)].says
        => {"R2b", "R2c"} \cap audits[i].failed # {}
=============================================================================
