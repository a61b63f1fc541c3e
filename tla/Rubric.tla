------------------------------- MODULE Rubric -------------------------------
(***************************************************************************)
(* The domain: the 21 criteria of the rubric as operators on a call and    *)
(* the facts the model found in it, the engine that runs them, the score   *)
(* and the overall severity.                                               *)
(*                                                                         *)
(* A conversation is a sequence of turns.  What the text detectors         *)
(* (lexicon, numbers, dates) find in a turn is in the turn itself:         *)
(*   by     "agent", "client" or "system"                                  *)
(*   says   the signals found: "lina", "assistant", "company", "recording",*)
(*          "fullName", "asksDigits", "legal", "product", "dueDate" (the    *)
(*          registered due date), "amount" (the registered overdue amount),*)
(*          "otherAmount", "lastFour" (digits that end in the registered   *)
(*          four), "otherDigits" and "unreadable" (a date on which the     *)
(*          detector raises)                                               *)
(*   day    the first date of the turn, "hoy" and the like included, in    *)
(*          days from the call; NoDay when it states none                  *)
(* Turns are numbered from 1, and the pointer 0 is the source's None.      *)
(***************************************************************************)
EXTENDS Integers, Sequences, FiniteSets

CONSTANTS
    NoFacts,       \* the analysis of the model failed: facts is None
    NoCommitment,  \* payment_commitment is None
    NoDay

ASSUME NoDayIsNoNumber == NoDay \notin Int

None == 0

By(c, speaker) == {t \in DOMAIN c : c[t].by = speaker}

(* The first (last) of a set of turns, or None.                            *)
First(T) == IF T = {} THEN None ELSE CHOOSE t \in T : \A u \in T : t <= u
Last(T) == IF T = {} THEN None ELSE CHOOSE t \in T : \A u \in T : u <= t

-----------------------------------------------------------------------------
(* The facts: every pointer names a turn of the right speaker.             *)

AgentPointers ==
    {"debt_disclosure_turn", "benefit_offer_turn", "benefit_referral_turn",
     "escalation_turn", "paid_details_request_turn", "reflection_delay_notice_turn",
     "callback_request_turn", "closing_summary_turn", "farewell_turn"}
ClientPointers ==
    {"interlocutor_turn", "benefit_request_turn", "escalation_request_turn",
     "payment_reported_turn"}
AgentLists == {"insistence_turns", "legal_threat_turns", "pressure_turns"}

(* ConversationFacts.inconsistencies is empty.                             *)
Fits(f, c) ==
    /\ \A p \in AgentPointers : f[p] \in By(c, "agent") \cup {None}
    /\ \A p \in ClientPointers : f[p] \in By(c, "client") \cup {None}
    /\ \A l \in AgentLists : f[l] \subseteq By(c, "agent")
    /\ f.payment_commitment # NoCommitment =>
          /\ f.payment_commitment.client_proposal_turn \in By(c, "client") \cup {None}
          /\ f.payment_commitment.agent_confirmation_turn \in By(c, "agent") \cup {None}

-----------------------------------------------------------------------------
(* AuditContext.                                                           *)

AgentTurns(c) == By(c, "agent")
LastAgentTurn(c) == Last(AgentTurns(c))
NextAgentTurn(c, after) == First({t \in AgentTurns(c) : t > after})

DigitsRequestTurn(c) == First({t \in AgentTurns(c) : "asksDigits" \in c[t].says})

(* The first client turn after the request that contains digits.           *)
DigitsAnswerTurn(c) ==
    LET request == DigitsRequestTurn(c)
    IN  First({t \in By(c, "client") :
                  request # None /\ t > request
                  /\ c[t].says \cap {"lastFour", "otherDigits"} # {}})

(* A plausible bug: with facts at hand the code's own detector is ignored. *)
MutantSensitiveTurns(c, f) ==
    (IF f = NoFacts THEN {DigitsRequestTurn(c)} ELSE {f.debt_disclosure_turn}) \ {None}

(* The candidates for sensitive_turn; the sensitive turn is the first.     *)
SensitiveTurns(c, f) ==
    (IF f = NoFacts THEN {DigitsRequestTurn(c)}
     ELSE {DigitsRequestTurn(c), f.debt_disclosure_turn}) \ {None}

OpeningTurns(c, f) ==
    {t \in AgentTurns(c) : \A s \in SensitiveTurns(c, f) : t <= s}

LegalActionTurns(c) == {t \in AgentTurns(c) : "legal" \in c[t].says}

-----------------------------------------------------------------------------
(* Findings: a status and the turns cited.                                 *)

Complies(turns) == [status |-> "complies", turns |-> turns \ {None}]

(* A plausible bug: absent pointers are cited like turns.                  *)
MutantViolates(turns) == [status |-> "violates", turns |-> turns]

Violates(turns) == [status |-> "violates", turns |-> turns \ {None}]
NotApplicable == [status |-> "not_applicable", turns |-> {}]
Undetermined == [status |-> "undetermined", turns |-> {}]

(* R1 and R2: presentation, recording, identity.                           *)

FirstOpeningTurn(c, f, signal) == First({t \in OpeningTurns(c, f) : signal \in c[t].says})

(* The opening says it all, or the first turn and the first sensitive one  *)
(* show that it does not.                                                  *)
OpeningSays(c, f, signals) ==
    LET found == {FirstOpeningTurn(c, f, s) : s \in signals}
    IN  IF None \in found
        THEN Violates({First(AgentTurns(c)), First(SensitiveTurns(c, f))})
        ELSE Complies(found)

PresentsAsLina(c, f) == OpeningSays(c, f, {"lina", "assistant", "company"})
AnnouncesRecording(c, f) == OpeningSays(c, f, {"recording"})

ConfirmsFullName(c, f) ==
    LET asked == First({t \in AgentTurns(c) : "fullName" \in c[t].says})
    IN  IF asked = None THEN Violates({First(AgentTurns(c))})
        ELSE Complies({asked, IF f = NoFacts THEN None ELSE f.interlocutor_turn})

VerifiesBeforeDisclosure(c, f) ==
    LET request == DigitsRequestTurn(c)
        disclosure == f.debt_disclosure_turn
    IN  IF f.interlocutor = "third_party" \/ disclosure = None THEN NotApplicable
        ELSE IF request # None /\ request < disclosure
        THEN Complies({request, disclosure})
        ELSE Violates({disclosure})

DisclosesOnlyIfDigitsMatch(c, f) ==
    LET answer == DigitsAnswerTurn(c)
        disclosure == f.debt_disclosure_turn
    IN  IF answer = None THEN NotApplicable
        ELSE IF "lastFour" \in c[answer].says \/ disclosure = None \/ disclosure < answer
        THEN Complies({answer})
        ELSE Violates({answer, disclosure})

(* R3 and R4: third parties, exact amount and date.                        *)

RevealsDebt(c, t) == c[t].says \cap {"amount", "otherAmount", "product", "dueDate"} # {}

(* A plausible bug: only what the code detects counts as a leak.           *)
MutantNoDisclosureToThirdParty(c, f) ==
    LET leaks == {t \in AgentTurns(c) : t > f.interlocutor_turn /\ RevealsDebt(c, t)}
    IN  IF f.interlocutor # "third_party" THEN NotApplicable
        ELSE IF leaks # {} THEN Violates(leaks \cup {f.interlocutor_turn})
        ELSE Complies({f.interlocutor_turn})

NoDisclosureToThirdParty(c, f) ==
    LET leaks == {t \in AgentTurns(c) : t > f.interlocutor_turn /\ RevealsDebt(c, t)}
                     \cup ({f.debt_disclosure_turn} \ {None})
    IN  IF f.interlocutor # "third_party" THEN NotApplicable
        ELSE IF leaks # {} THEN Violates(leaks \cup {f.interlocutor_turn})
        ELSE Complies({f.interlocutor_turn})

AsksCallbackTime(c, f) ==
    IF f.interlocutor # "third_party" THEN NotApplicable
    ELSE IF f.callback_request_turn # None THEN Complies({f.callback_request_turn})
    ELSE Violates({f.interlocutor_turn, LastAgentTurn(c)})

(* R4.a and R4.b: the disclosure states the registered amount, due date.   *)
DisclosureStates(c, f, signal) ==
    LET turn == f.debt_disclosure_turn
    IN  IF f.interlocutor = "third_party" \/ turn = None THEN NotApplicable
        ELSE IF signal \in c[turn].says THEN Complies({turn})
        ELSE Violates({turn})

(* R5 and R6: payment date, benefits.                                      *)

MAX_DAYS_TO_PAY == 5

(* The turn the committed date is read from: the agent's confirmation, or  *)
(* the client's proposal if that states no date.                           *)
CommittedTurn(c, commitment) ==
    LET States(t) == t # None /\ c[t].day # NoDay
    IN  IF States(commitment.agent_confirmation_turn) THEN commitment.agent_confirmation_turn
        ELSE IF States(commitment.client_proposal_turn) THEN commitment.client_proposal_turn
        ELSE None

DateIsConcrete(c, f) ==
    IF f.payment_commitment = NoCommitment THEN NotApplicable
    ELSE LET turn == CommittedTurn(c, f.payment_commitment)
         IN  IF turn # None THEN Complies({turn})
             ELSE Violates({f.payment_commitment.client_proposal_turn,
                            f.payment_commitment.agent_confirmation_turn})

(* A plausible bug: a date that cannot be read is out of the window.       *)
MutantDateWithinWindow(c, f) ==
    IF f.payment_commitment = NoCommitment THEN NotApplicable
    ELSE LET turn == CommittedTurn(c, f.payment_commitment)
         IN  IF turn # None /\ c[turn].day \in 0 .. MAX_DAYS_TO_PAY THEN Complies({turn})
             ELSE Violates({turn, LastAgentTurn(c)})

DateWithinWindow(c, f) ==
    IF f.payment_commitment = NoCommitment THEN NotApplicable
    ELSE LET turn == CommittedTurn(c, f.payment_commitment)
         IN  IF turn = None THEN NotApplicable
             ELSE IF c[turn].day \in 0 .. MAX_DAYS_TO_PAY THEN Complies({turn})
             ELSE Violates({turn})

OffersNoBenefit(f) ==
    IF f.benefit_offer_turn # None
    THEN Violates({f.benefit_request_turn, f.benefit_offer_turn})
    ELSE Complies({f.benefit_referral_turn})

RefersBenefitRequest(c, f) ==
    LET request == f.benefit_request_turn
    IN  IF request = None THEN NotApplicable
        ELSE IF f.benefit_offer_turn # None THEN Violates({request, f.benefit_offer_turn})
        ELSE IF f.benefit_referral_turn # None THEN Complies({request, f.benefit_referral_turn})
        ELSE Violates({request, NextAgentTurn(c, request)})

(* R7 and R8: escalation, payment already made.                            *)

(* A plausible bug: the omission is cited by the agent's answer alone.     *)
MutantEscalates(c, f) ==
    LET request == f.escalation_request_turn
    IN  IF request = None THEN NotApplicable
        ELSE IF f.escalation_turn # None THEN Complies({request, f.escalation_turn})
        ELSE Violates({NextAgentTurn(c, request)})

Escalates(c, f) ==
    LET request == f.escalation_request_turn
    IN  IF request = None THEN NotApplicable
        ELSE IF f.escalation_turn # None THEN Complies({request, f.escalation_turn})
        ELSE Violates({request, NextAgentTurn(c, request)})

AsksPaymentDetails(c, f) ==
    LET reported == f.payment_reported_turn
        asked == f.paid_details_request_turn
    IN  IF reported = None THEN NotApplicable
        ELSE IF asked # None THEN Complies({reported, asked})
        ELSE Violates({reported, NextAgentTurn(c, reported)})

InformsReflectionDelay(c, f) ==
    LET reported == f.payment_reported_turn
        notice == f.reflection_delay_notice_turn
    IN  IF reported = None THEN NotApplicable
        ELSE IF notice # None THEN Complies({notice})
        ELSE Violates({reported, LastAgentTurn(c)})

DoesNotInsist(f) ==
    LET reported == f.payment_reported_turn
        insistence == {t \in f.insistence_turns : t > reported}
    IN  IF reported = None THEN NotApplicable
        ELSE IF insistence # {} THEN Violates(insistence \cup {reported})
        ELSE Complies({reported})

(* R9 and R10: closing, conduct.                                           *)

ClosesWith(c, turn) == IF turn # None THEN Complies({turn}) ELSE Violates({LastAgentTurn(c)})

LegalThreats(c, f) ==
    LegalActionTurns(c) \cup (IF f = NoFacts THEN {} ELSE f.legal_threat_turns)

NoLegalThreats(c, f) ==
    LET turns == LegalThreats(c, f) IN IF turns # {} THEN Violates(turns) ELSE Complies({})

(* A plausible bug: only the model's threats are taken as already counted. *)
MutantRespectfulTone(c, f) ==
    LET turns == f.pressure_turns \ f.legal_threat_turns
    IN  IF turns # {} THEN Violates(turns) ELSE Complies({})

RespectfulTone(c, f) ==
    LET turns == f.pressure_turns \ LegalThreats(c, f)
    IN  IF turns # {} THEN Violates(turns) ELSE Complies({})

-----------------------------------------------------------------------------
(* The rubric and the engine.                                              *)

(* requires_facts=False.                                                   *)
CodeCriteria == {"R1a", "R1b", "R2a", "R10a"}

(* The severities are given criterion by criterion in the five CRITERIA    *)
(* lists, which RUBRIC collects: identity.py:117-163, disclosure.py:       *)
(* 115-152, negotiation.py:125-162, handling.py:82-119, conduct.py:63-100. *)
Critical == {"R2b", "R2c", "R3a", "R6a", "R10a"}
Major == {"R1b", "R4a", "R4b", "R5a", "R5b", "R6b", "R7a", "R8a", "R8c", "R10b"}
Minor == {"R1a", "R2a", "R3b", "R8b", "R9a", "R9b"}
Criteria == Critical \cup Major \cup Minor

CodeFindings(c, f) ==
    [R1a |-> PresentsAsLina(c, f), R1b |-> AnnouncesRecording(c, f),
     R2a |-> ConfirmsFullName(c, f), R10a |-> NoLegalThreats(c, f)]

ModelFindings(c, f) ==
    [R2b |-> VerifiesBeforeDisclosure(c, f), R2c |-> DisclosesOnlyIfDigitsMatch(c, f),
     R3a |-> NoDisclosureToThirdParty(c, f), R3b |-> AsksCallbackTime(c, f),
     R4a |-> DisclosureStates(c, f, "amount"), R4b |-> DisclosureStates(c, f, "dueDate"),
     R5a |-> DateIsConcrete(c, f), R5b |-> DateWithinWindow(c, f),
     R6a |-> OffersNoBenefit(f), R6b |-> RefersBenefitRequest(c, f),
     R7a |-> Escalates(c, f), R8a |-> AsksPaymentDetails(c, f),
     R8b |-> InformsReflectionDelay(c, f), R8c |-> DoesNotInsist(f),
     R9a |-> ClosesWith(c, f.closing_summary_turn), R9b |-> ClosesWith(c, f.farewell_turn),
     R10b |-> RespectfulTone(c, f)]

(* A criterion that needs facts is undetermined without them.              *)
Findings(c, f) ==
    [id \in Criteria |->
        IF id \in CodeCriteria THEN CodeFindings(c, f)[id]
        ELSE IF f = NoFacts THEN Undetermined
        ELSE ModelFindings(c, f)[id]]

With(findings, status) == {id \in Criteria : findings[id].status = status}

Weight(ids) ==
    Cardinality(ids \cap Minor) + 3 * Cardinality(ids \cap Major)
        + 5 * Cardinality(ids \cap Critical)

(* Tenths of a point, rounded half to even like Python's round.            *)
Rounded(n, d) ==
    LET q == n \div d
        r == n % d
    IN  IF 2 * r > d \/ (2 * r = d /\ q % 2 = 1) THEN q + 1 ELSE q

(* A plausible bug: what was not judged counts in the total only.          *)
MutantScore(findings) ==
    Rounded(1000 * Weight(With(findings, "complies")), Weight(Criteria))

(* weighted_score: the share of the judged weight that was met.            *)
Score(findings) ==
    LET met == Weight(With(findings, "complies"))
        total == met + Weight(With(findings, "violates"))
    IN  IF total = 0 THEN 1000 ELSE Rounded(1000 * met, total)

OverallSeverity(findings) ==
    LET failed == With(findings, "violates")
    IN  IF failed \cap Critical # {} THEN "critical"
        ELSE IF failed \cap Major # {} THEN "major"
        ELSE IF failed # {} THEN "minor"
        ELSE "none"

(* The turns whose dates some criterion asks for: R3.a from the agent's    *)
(* turns to a third party that show no debt otherwise, R4.b from the       *)
(* disclosure, R5 from the commitment, its confirmation first.             *)
DatesRead(c, f) ==
    LET commitment == f.payment_commitment
        confirmation == {commitment.agent_confirmation_turn} \ {None}
        disclosures ==
            IF f.interlocutor # "third_party" THEN {f.debt_disclosure_turn} \ {None}
            ELSE {t \in AgentTurns(c) : t > f.interlocutor_turn
                     /\ c[t].says \cap {"amount", "otherAmount", "product"} = {}}
    IN  IF f = NoFacts THEN {}
        ELSE IF commitment = NoCommitment THEN disclosures
        ELSE IF \E t \in confirmation : c[t].day # NoDay THEN disclosures \cup confirmation
        ELSE disclosures \cup confirmation \cup ({commitment.client_proposal_turn} \ {None})

(* The engine refuses facts that do not fit, CriterionResult refuses a     *)
(* violation without evidence, and a date may not be readable.             *)
EngineRaises(c, f) ==
    \/ f # NoFacts /\ ~Fits(f, c)
    \/ \E t \in DatesRead(c, f) : "unreadable" \in c[t].says
    \/ \E id \in Criteria : Findings(c, f)[id] = Violates({})

Audit(c, f) ==
    LET findings == Findings(c, f)
    IN  [analysis |-> IF f = NoFacts THEN "partial" ELSE "complete",
         score |-> Score(findings),
         severity |-> OverallSeverity(findings),
         failed |-> With(findings, "violates"),
         criteria |-> findings]
=============================================================================
