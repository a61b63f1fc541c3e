------------------------- MODULE AuditEngineProofs ---------------------------
(***************************************************************************)
(* Proofs about AuditEngine, for every set of calls: whatever was said and *)
(* whatever fitting facts the model found, audited however often.          *)
(***************************************************************************)
EXTENDS AuditEngine, TranscriptProofs

-----------------------------------------------------------------------------
(* The first and the last of a set of turns of a conversation.             *)

IsConversation(c) == Len(c) \in Nat /\ DOMAIN c = 1 .. Len(c)

LEMMA FirstIsFirst ==
  ASSUME NEW c, IsConversation(c), NEW T \in SUBSET DOMAIN c
  PROVE  /\ First(T) \in T \cup {None}
         /\ First(T) = None <=> T = {}
  <1>1. 0 \notin T
    BY DEF IsConversation
  <1>2. CASE T = {}
    BY <1>2 DEF First
  <1>3. CASE T # {}
    <2>1. \E t \in T : \A u \in T : t <= u
      BY <1>3, LeastExists DEF IsConversation
    <2>2. First(T) \in T
      BY <1>3, <2>1 DEF First
    <2> QED
      BY <1>1, <1>3, <2>2 DEF None
  <1> QED
    BY <1>2, <1>3

LEMMA LastIsLast ==
  ASSUME NEW c, IsConversation(c), NEW T \in SUBSET DOMAIN c
  PROVE  /\ Last(T) \in T \cup {None}
         /\ Last(T) = None <=> T = {}
  <1>1. 0 \notin T
    BY DEF IsConversation
  <1>2. CASE T = {}
    BY <1>2 DEF Last
  <1>3. CASE T # {}
    <2>1. \E t \in T : \A u \in T : u <= t
      BY <1>3, GreatestExists DEF IsConversation
    <2>2. Last(T) \in T
      BY <1>3, <2>1 DEF Last
    <2> QED
      BY <1>1, <1>3, <2>2 DEF None
  <1> QED
    BY <1>2, <1>3

(* What the detectors hear keeps the turns and their speakers.             *)
LEMMA HearingKeepsTurns ==
  ASSUME NEW x \in Calls
  PROVE  /\ IsConversation(Hearing(x))
         /\ DOMAIN Hearing(x) = DOMAIN x.transcript
         /\ \A s : By(Hearing(x), s) = By(x.transcript, s)
         /\ Fits(x.facts, Hearing(x))
  <1>1. DOMAIN Hearing(x) = DOMAIN x.transcript
    BY DEF Hearing
  <1>2. IsConversation(Hearing(x))
    <2>1. Hearing(x) \in Seq({Heard(x.transcript[t], x) : t \in DOMAIN x.transcript})
      BY CallsAreTranscripts DEF Hearing
    <2> QED
      BY <2>1 DEF IsConversation
  <1>3. ASSUME NEW s PROVE By(Hearing(x), s) = By(x.transcript, s)
    BY <1>1 DEF By, Hearing, Heard
  <1>4. Fits(x.facts, x.transcript)
    BY FactsFit
  <1>5. Fits(x.facts, Hearing(x))
    BY <1>3, <1>4 DEF Fits
  <1> QED
    BY <1>1, <1>2, <1>3, <1>5

-----------------------------------------------------------------------------
(* What every audit is.                                                    *)

AuditsInv ==
  /\ call \in Calls
  /\ conversation = Hearing(call)
  /\ audits \in Seq({Outcome(conversation, facts), Outcome(conversation, NoFacts)})
  /\ Len(audits) <= MaxAudits

LEMMA InitAudits == Init => AuditsInv
  BY AuditBound DEF Init, AuditsInv

LEMMA NextAudits == AuditsInv /\ [Next]_vars => AuditsInv'
  <1> SUFFICES ASSUME AuditsInv, [Next]_vars PROVE AuditsInv'
    OBVIOUS
  <1> DEFINE O == {Outcome(conversation, facts), Outcome(conversation, NoFacts)}
  <1>1. ASSUME NEW f, f = facts \/ f = NoFacts, Deliver(f) PROVE AuditsInv'
    <2>1. call' = call /\ conversation' = conversation /\ facts' = facts
      BY <1>1 DEF Deliver, facts
    <2>2. Outcome(conversation, f) \in O
      BY <1>1
    <2>3. audits' = Append(audits, Outcome(conversation, f)) /\ Len(audits) < MaxAudits
      BY <1>1 DEF Deliver
    <2>4. audits \in Seq(O)
      BY DEF AuditsInv
    <2> HIDE DEF O
    <2>5. audits' \in Seq(O) /\ Len(audits') = Len(audits) + 1
      BY <2>2, <2>3, <2>4, AppendProperties
    <2>6. Len(audits') <= MaxAudits
      BY <2>3, <2>4, <2>5, AuditBound, LenProperties
    <2>7. O' = O
      BY <2>1 DEF O
    <2> QED
      BY <2>1, <2>5, <2>6, <2>7 DEF AuditsInv, O
  <1>2. CASE UNCHANGED vars
    BY <1>2 DEF vars, AuditsInv, facts
  <1> QED
    BY <1>1, <1>2 DEF Next, AuditComplete, AuditPartial

(* An audit that was delivered is the outcome of one of the two analyses.  *)
LEMMA EveryAudit ==
  ASSUME AuditsInv, NEW i \in DOMAIN audits
  PROVE  /\ audits[i] = Outcome(conversation, facts) \/ audits[i] = Outcome(conversation, NoFacts)
         /\ i \in Delivered("partial") => audits[i] = Audit(conversation, NoFacts)
         /\ i \in Delivered("complete") =>
               facts # NoFacts /\ audits[i] = Audit(conversation, facts)
         /\ i \in Delivered("raised") =>
               \/ EngineRaises(conversation, facts)
               \/ EngineRaises(conversation, NoFacts)
  <1>1. audits[i] = Outcome(conversation, facts) \/ audits[i] = Outcome(conversation, NoFacts)
    BY DEF AuditsInv
  <1>2. ASSUME NEW f
        PROVE  /\ EngineRaises(conversation, f) => Outcome(conversation, f).analysis = "raised"
               /\ ~EngineRaises(conversation, f) =>
                     /\ Outcome(conversation, f) = Audit(conversation, f)
                     /\ Audit(conversation, f).analysis =
                          IF f = NoFacts THEN "partial" ELSE "complete"
    BY DEF Outcome, Audit
  <1> QED
    BY <1>1, <1>2 DEF Delivered

-----------------------------------------------------------------------------
(* A partial audit against the complete one.                               *)

(* With facts there are more candidates for the sensitive turn, so fewer   *)
(* turns come before all of them.                                          *)
LEMMA OpeningShrinks ==
  ASSUME NEW c, NEW f
  PROVE  OpeningTurns(c, f) \subseteq OpeningTurns(c, NoFacts)
  <1>1. SensitiveTurns(c, NoFacts) \subseteq SensitiveTurns(c, f)
    BY DEF SensitiveTurns
  <1> QED
    BY <1>1 DEF OpeningTurns

LEMMA OpeningTurnsAreTurns ==
  ASSUME NEW c, NEW f, NEW signal
  PROVE  {t \in OpeningTurns(c, f) : signal \in c[t].says} \in SUBSET DOMAIN c
  BY DEF OpeningTurns, AgentTurns, By

LEMMA OpeningFailsOn ==
  ASSUME NEW c, IsConversation(c), NEW f, NEW signals,
         OpeningSays(c, NoFacts, signals).status = "violates"
  PROVE  OpeningSays(c, f, signals).status = "violates"
  <1>1. PICK s \in signals : FirstOpeningTurn(c, NoFacts, s) = None
    BY DEF OpeningSays, Complies
  <1>2. {t \in OpeningTurns(c, NoFacts) : s \in c[t].says} = {}
    BY <1>1, OpeningTurnsAreTurns, FirstIsFirst DEF FirstOpeningTurn
  <1>3. {t \in OpeningTurns(c, f) : s \in c[t].says} = {}
    BY <1>2, OpeningShrinks
  <1>4. FirstOpeningTurn(c, f, s) = None
    BY <1>3, OpeningTurnsAreTurns, FirstIsFirst DEF FirstOpeningTurn
  <1> QED
    BY <1>4 DEF OpeningSays, Violates

LEMMA FindingOfCode ==
  ASSUME NEW c, NEW f, NEW id \in CodeCriteria
  PROVE  Findings(c, f)[id] = CodeFindings(c, f)[id]
  BY DEF Findings, CodeCriteria, Criteria, Critical, Major, Minor

LEMMA FindingOfModel ==
  ASSUME NEW c, NEW f, NEW id \in Criteria \ CodeCriteria
  PROVE  Findings(c, f)[id] = IF f = NoFacts THEN Undetermined ELSE ModelFindings(c, f)[id]
  BY DEF Findings

LEMMA CodeFindingsAre ==
  ASSUME NEW c, NEW f
  PROVE  /\ CodeFindings(c, f)["R1a"] = PresentsAsLina(c, f)
         /\ CodeFindings(c, f)["R1b"] = AnnouncesRecording(c, f)
         /\ CodeFindings(c, f)["R2a"] = ConfirmsFullName(c, f)
         /\ CodeFindings(c, f)["R10a"] = NoLegalThreats(c, f)
  BY DEF CodeFindings

LEMMA PartialFailuresStay ==
  ASSUME NEW c, IsConversation(c), NEW f
  PROVE  With(Findings(c, NoFacts), "violates") \subseteq With(Findings(c, f), "violates")
  <1> SUFFICES ASSUME NEW id \in Criteria, Findings(c, NoFacts)[id].status = "violates"
               PROVE  Findings(c, f)[id].status = "violates"
    BY DEF With
  <1>1. id \in CodeCriteria
    <2> SUFFICES ASSUME id \notin CodeCriteria PROVE FALSE
      OBVIOUS
    <2>1. Findings(c, NoFacts)[id] = Undetermined
      BY FindingOfModel
    <2> QED
      BY <2>1 DEF Undetermined
  <1>2. CASE id = "R1a"
    BY <1>1, <1>2, FindingOfCode, CodeFindingsAre, OpeningFailsOn DEF PresentsAsLina
  <1>3. CASE id = "R1b"
    BY <1>1, <1>3, FindingOfCode, CodeFindingsAre, OpeningFailsOn DEF AnnouncesRecording
  <1>4. CASE id = "R2a"
    <2>1. ConfirmsFullName(c, NoFacts).status = "violates"
      BY <1>1, <1>4, FindingOfCode, CodeFindingsAre
    <2>2. ConfirmsFullName(c, f).status = "violates"
      BY <2>1 DEF ConfirmsFullName, Complies, Violates
    <2> QED
      BY <2>2, <1>1, <1>4, FindingOfCode, CodeFindingsAre
  <1>5. CASE id = "R10a"
    <2>1. NoLegalThreats(c, NoFacts).status = "violates"
      BY <1>1, <1>5, FindingOfCode, CodeFindingsAre
    <2>2. LegalThreats(c, NoFacts) # {}
      BY <2>1 DEF NoLegalThreats, Complies
    <2>3. LegalThreats(c, f) # {}
      BY <2>2 DEF LegalThreats
    <2>4. NoLegalThreats(c, f).status = "violates"
      BY <2>3 DEF NoLegalThreats, Violates
    <2> QED
      BY <2>4, <1>1, <1>5, FindingOfCode, CodeFindingsAre
  <1> QED
    BY <1>1, <1>2, <1>3, <1>4, <1>5 DEF CodeCriteria

(* What a partial audit reports as failed is failed in every complete      *)
(* audit of the same conversation, for every conversation and all facts.   *)
THEOREM NeverAccuses == Spec => []PartialNeverAccuses
  <1>1. AuditsInv => PartialNeverAccuses
    <2> SUFFICES ASSUME AuditsInv, NEW i \in Delivered("partial"), NEW j \in Delivered("complete")
                 PROVE  audits[i].failed \subseteq audits[j].failed
      BY DEF PartialNeverAccuses
    <2>1. i \in DOMAIN audits /\ j \in DOMAIN audits
      BY DEF Delivered
    <2>2. audits[i] = Audit(conversation, NoFacts) /\ audits[j] = Audit(conversation, facts)
      BY <2>1, EveryAudit
    <2>3. IsConversation(conversation)
      BY HearingKeepsTurns DEF AuditsInv
    <2> QED
      BY <2>2, <2>3, PartialFailuresStay DEF Audit
  <1> QED
    BY <1>1, InitAudits, NextAudits, PTL DEF Spec

-----------------------------------------------------------------------------
(* What two criteria of one complete audit say together.                   *)

LEMMA ModelFindingsAre ==
  ASSUME NEW c, NEW f
  PROVE  /\ ModelFindings(c, f)["R2b"] = VerifiesBeforeDisclosure(c, f)
         /\ ModelFindings(c, f)["R2c"] = DisclosesOnlyIfDigitsMatch(c, f)
         /\ ModelFindings(c, f)["R3a"] = NoDisclosureToThirdParty(c, f)
         /\ ModelFindings(c, f)["R3b"] = AsksCallbackTime(c, f)
         /\ ModelFindings(c, f)["R4a"] = DisclosureStates(c, f, "amount")
         /\ ModelFindings(c, f)["R4b"] = DisclosureStates(c, f, "dueDate")
         /\ ModelFindings(c, f)["R5a"] = DateIsConcrete(c, f)
         /\ ModelFindings(c, f)["R5b"] = DateWithinWindow(c, f)
         /\ ModelFindings(c, f)["R6a"] = OffersNoBenefit(f)
         /\ ModelFindings(c, f)["R6b"] = RefersBenefitRequest(c, f)
         /\ ModelFindings(c, f)["R7a"] = Escalates(c, f)
         /\ ModelFindings(c, f)["R8a"] = AsksPaymentDetails(c, f)
         /\ ModelFindings(c, f)["R8b"] = InformsReflectionDelay(c, f)
         /\ ModelFindings(c, f)["R8c"] = DoesNotInsist(f)
         /\ ModelFindings(c, f)["R9a"] = ClosesWith(c, f.closing_summary_turn)
         /\ ModelFindings(c, f)["R9b"] = ClosesWith(c, f.farewell_turn)
         /\ ModelFindings(c, f)["R10b"] = RespectfulTone(c, f)
  BY DEF ModelFindings

(* A complete audit shows what the criteria find, criterion by criterion.  *)
LEMMA CompleteAudit ==
  ASSUME AuditsInv, NEW i \in Delivered("complete")
  PROVE  /\ facts # NoFacts
         /\ audits[i].criteria = Findings(conversation, facts)
         /\ audits[i].failed = With(Findings(conversation, facts), "violates")
         /\ \A id \in Criteria \ CodeCriteria :
               audits[i].criteria[id] = ModelFindings(conversation, facts)[id]
         /\ \A id \in CodeCriteria :
               audits[i].criteria[id] = CodeFindings(conversation, facts)[id]
  <1>1. facts # NoFacts /\ audits[i] = Audit(conversation, facts)
    BY EveryAudit DEF Delivered
  <1>2. /\ audits[i].criteria = Findings(conversation, facts)
        /\ audits[i].failed = With(Findings(conversation, facts), "violates")
    BY <1>1 DEF Audit
  <1> QED
    BY <1>1, <1>2, FindingOfModel, FindingOfCode

LEMMA CriteriaAre ==
  /\ \A id \in {"R2b", "R2c", "R3a", "R3b", "R4a", "R4b", "R5a", "R5b", "R6a", "R6b", "R7a",
                "R8a", "R8b", "R8c", "R9a", "R9b", "R10b"} : id \in Criteria \ CodeCriteria
  /\ \A id \in {"R1a", "R1b", "R2a", "R10a"} : id \in CodeCriteria /\ id \in Criteria
  BY DEF Criteria, Critical, Major, Minor, CodeCriteria

(* No turn is cited by both conduct criteria as a violation.               *)
THEOREM NeverPunishedTwice == Spec => []NoTurnPunishedTwice
  <1>1. AuditsInv => NoTurnPunishedTwice
    <2> SUFFICES ASSUME AuditsInv, NEW i \in Delivered("complete"),
                        {"R10a", "R10b"} \subseteq audits[i].failed
                 PROVE  audits[i].criteria.R10a.turns \cap audits[i].criteria.R10b.turns = {}
      BY DEF NoTurnPunishedTwice
    <2> DEFINE legal == LegalThreats(conversation, facts)
    <2>1. /\ audits[i].criteria["R10a"] = NoLegalThreats(conversation, facts)
          /\ audits[i].criteria["R10b"] = RespectfulTone(conversation, facts)
      BY CompleteAudit, CriteriaAre, CodeFindingsAre, ModelFindingsAre
    <2>2. audits[i].criteria["R10a"].turns \subseteq legal
      BY <2>1 DEF NoLegalThreats, Violates, Complies
    <2>3. audits[i].criteria["R10b"].turns \cap legal = {}
      BY <2>1 DEF RespectfulTone, Violates, Complies
    <2> QED
      BY <2>2, <2>3
  <1> QED
    BY <1>1, InitAudits, NextAudits, PTL DEF Spec

(* One vague date fails one criterion: the window is judged exactly when   *)
(* the date is concrete.                                                   *)
THEOREM WindowWithDate == Spec => []WindowJudgedIffConcrete
  <1>1. AuditsInv => WindowJudgedIffConcrete
    <2> SUFFICES ASSUME AuditsInv, NEW i \in Delivered("complete")
                 PROVE  audits[i].criteria["R5b"].status # "not_applicable"
                            <=> audits[i].criteria["R5a"].status = "complies"
      BY DEF WindowJudgedIffConcrete
    <2>1. /\ audits[i].criteria["R5a"] = DateIsConcrete(conversation, facts)
          /\ audits[i].criteria["R5b"] = DateWithinWindow(conversation, facts)
      BY CompleteAudit, CriteriaAre, ModelFindingsAre
    <2> QED
      BY <2>1 DEF DateIsConcrete, DateWithinWindow, NotApplicable, Complies, Violates
  <1> QED
    BY <1>1, InitAudits, NextAudits, PTL DEF Spec

(* A located disclosure is a leak to a third party, or its verification    *)
(* and its exactness are judged.                                           *)
THEOREM DisclosureJudged == Spec => []EveryDisclosureIsJudged
  <1>1. AuditsInv => EveryDisclosureIsJudged
    <2> SUFFICES ASSUME AuditsInv, NEW i \in Delivered("complete"),
                        facts.debt_disclosure_turn # None
                 PROVE  IF facts.interlocutor = "third_party"
                        THEN "R3a" \in audits[i].failed
                        ELSE \A id \in {"R2b", "R4a", "R4b"} :
                                audits[i].criteria[id].status \in {"complies", "violates"}
      BY DEF EveryDisclosureIsJudged
    <2>1. CASE facts.interlocutor = "third_party"
      <3>1. audits[i].criteria["R3a"] = NoDisclosureToThirdParty(conversation, facts)
        BY CompleteAudit, CriteriaAre, ModelFindingsAre
      <3>2. audits[i].criteria["R3a"].status = "violates"
        BY <2>1, <3>1 DEF NoDisclosureToThirdParty, Violates
      <3>3. "R3a" \in Criteria
        BY CriteriaAre
      <3> QED
        BY <2>1, <3>2, <3>3, CompleteAudit DEF With
    <2>2. CASE facts.interlocutor # "third_party"
      <3>1. /\ audits[i].criteria["R2b"] = VerifiesBeforeDisclosure(conversation, facts)
            /\ audits[i].criteria["R4a"] = DisclosureStates(conversation, facts, "amount")
            /\ audits[i].criteria["R4b"] = DisclosureStates(conversation, facts, "dueDate")
        BY CompleteAudit, CriteriaAre, ModelFindingsAre
      <3>2. audits[i].criteria["R2b"].status \in {"complies", "violates"}
        BY <2>2, <3>1 DEF VerifiesBeforeDisclosure, Violates, Complies
      <3>3. /\ audits[i].criteria["R4a"].status \in {"complies", "violates"}
            /\ audits[i].criteria["R4b"].status \in {"complies", "violates"}
        BY <2>2, <3>1 DEF DisclosureStates, Violates, Complies
      <3> QED
        BY <2>2, <3>2, <3>3
    <2> QED
      BY <2>1, <2>2
  <1> QED
    BY <1>1, InitAudits, NextAudits, PTL DEF Spec

-----------------------------------------------------------------------------
(* Every failure has its quote.                                            *)

LEMMA EmptyViolation ==
  /\ \A T : Violates(T) = Violates({}) => T \subseteq {None}
  /\ \A T : Complies(T) # Violates({})
  /\ NotApplicable # Violates({})
  /\ Undetermined # Violates({})
  BY DEF Violates, Complies, NotApplicable, Undetermined

LEMMA FactsPoint ==
  ASSUME NEW c, NEW f, Fits(f, c)
  PROVE  /\ f.debt_disclosure_turn \in AgentTurns(c) \cup {None}
         /\ f.benefit_offer_turn \in AgentTurns(c) \cup {None}
         /\ f.benefit_referral_turn \in AgentTurns(c) \cup {None}
         /\ f.escalation_turn \in AgentTurns(c) \cup {None}
         /\ f.paid_details_request_turn \in AgentTurns(c) \cup {None}
         /\ f.reflection_delay_notice_turn \in AgentTurns(c) \cup {None}
         /\ f.callback_request_turn \in AgentTurns(c) \cup {None}
         /\ f.closing_summary_turn \in AgentTurns(c) \cup {None}
         /\ f.farewell_turn \in AgentTurns(c) \cup {None}
         /\ f.interlocutor_turn \in By(c, "client") \cup {None}
         /\ f.benefit_request_turn \in By(c, "client") \cup {None}
         /\ f.escalation_request_turn \in By(c, "client") \cup {None}
         /\ f.payment_reported_turn \in By(c, "client") \cup {None}
         /\ f.insistence_turns \subseteq AgentTurns(c)
         /\ f.legal_threat_turns \subseteq AgentTurns(c)
         /\ f.pressure_turns \subseteq AgentTurns(c)
         /\ f.payment_commitment # NoCommitment =>
               /\ f.payment_commitment.client_proposal_turn \in By(c, "client") \cup {None}
               /\ f.payment_commitment.agent_confirmation_turn \in AgentTurns(c) \cup {None}
  BY DEF Fits, AgentPointers, ClientPointers, AgentLists, AgentTurns

LEMMA SpeakersAreTurns ==
  ASSUME NEW c, IsConversation(c)
  PROVE  /\ \A s : By(c, s) \in SUBSET DOMAIN c
         /\ AgentTurns(c) \in SUBSET DOMAIN c
         /\ None \notin DOMAIN c
  BY DEF IsConversation, By, AgentTurns, None

LEMMA CodeViolationHasEvidence ==
  ASSUME NEW c, IsConversation(c), AgentTurns(c) # {},
         NEW f, f = NoFacts \/ Fits(f, c), NEW id \in CodeCriteria
  PROVE  CodeFindings(c, f)[id] # Violates({})
  <1>1. First(AgentTurns(c)) # None
    BY SpeakersAreTurns, FirstIsFirst
  <1>2. \A signals : OpeningSays(c, f, signals) # Violates({})
    BY <1>1, EmptyViolation DEF OpeningSays
  <1>3. ConfirmsFullName(c, f) # Violates({})
    BY <1>1, EmptyViolation DEF ConfirmsFullName
  <1>4. NoLegalThreats(c, f) # Violates({})
    <2>1. LegalThreats(c, f) \subseteq AgentTurns(c)
      BY FactsPoint DEF LegalThreats, LegalActionTurns
    <2>2. None \notin LegalThreats(c, f)
      BY <2>1, SpeakersAreTurns
    <2> QED
      BY <2>2, EmptyViolation DEF NoLegalThreats
  <1> QED
    BY <1>2, <1>3, <1>4, CodeFindingsAre DEF CodeCriteria, PresentsAsLina, AnnouncesRecording

LEMMA ModelViolationHasEvidence ==
  ASSUME NEW c, IsConversation(c), AgentTurns(c) # {},
         NEW f, Fits(f, c), NEW id \in Criteria \ CodeCriteria,
         ModelFindings(c, f)[id] = Violates({})
  PROVE  /\ f.payment_commitment # NoCommitment
         /\ f.payment_commitment.client_proposal_turn = None
         /\ f.payment_commitment.agent_confirmation_turn = None
  <1>1. LastAgentTurn(c) # None
    BY SpeakersAreTurns, LastIsLast DEF LastAgentTurn
  <1>2. VerifiesBeforeDisclosure(c, f) # Violates({})
    BY EmptyViolation DEF VerifiesBeforeDisclosure
  <1>3. DisclosesOnlyIfDigitsMatch(c, f) # Violates({})
    BY EmptyViolation DEF DisclosesOnlyIfDigitsMatch
  <1>4. NoDisclosureToThirdParty(c, f) # Violates({})
    <2> DEFINE leaks == {t \in AgentTurns(c) : t > f.interlocutor_turn /\ RevealsDebt(c, t)}
                            \cup ({f.debt_disclosure_turn} \ {None})
    <2>1. None \notin leaks
      BY SpeakersAreTurns
    <2>2. leaks # {} => Violates(leaks \cup {f.interlocutor_turn}) # Violates({})
      BY <2>1, EmptyViolation
    <2> QED
      BY <2>2, EmptyViolation DEF NoDisclosureToThirdParty
  <1>5. AsksCallbackTime(c, f) # Violates({})
    BY <1>1, EmptyViolation DEF AsksCallbackTime
  <1>6. \A signal : DisclosureStates(c, f, signal) # Violates({})
    BY EmptyViolation DEF DisclosureStates
  <1>7. DateWithinWindow(c, f) # Violates({})
    BY EmptyViolation DEF DateWithinWindow
  <1>8. OffersNoBenefit(f) # Violates({}) /\ RefersBenefitRequest(c, f) # Violates({})
    BY EmptyViolation DEF OffersNoBenefit, RefersBenefitRequest
  <1>9. Escalates(c, f) # Violates({}) /\ AsksPaymentDetails(c, f) # Violates({})
    BY EmptyViolation DEF Escalates, AsksPaymentDetails
  <1>10. InformsReflectionDelay(c, f) # Violates({}) /\ DoesNotInsist(f) # Violates({})
    BY EmptyViolation DEF InformsReflectionDelay, DoesNotInsist
  <1>11. \A turn : ClosesWith(c, turn) # Violates({})
    BY <1>1, EmptyViolation DEF ClosesWith
  <1>12. RespectfulTone(c, f) # Violates({})
    <2>1. None \notin f.pressure_turns
      BY FactsPoint, SpeakersAreTurns
    <2> QED
      BY <2>1, EmptyViolation DEF RespectfulTone
  <1>13. id = "R5a"
    BY <1>2, <1>3, <1>4, <1>5, <1>6, <1>7, <1>8, <1>9, <1>10, <1>11, <1>12, ModelFindingsAre
       DEF Criteria, Critical, Major, Minor, CodeCriteria
  <1>14. DateIsConcrete(c, f) = Violates({})
    BY <1>13, ModelFindingsAre
  <1> QED
    BY <1>14, EmptyViolation DEF DateIsConcrete

(* A turn some criterion asks for a date is a turn, and it cannot be read  *)
(* only if a weekday with a zero was said in it.                           *)
LEMMA UnreadableWasSaid ==
  ASSUME AuditsInv, NEW t \in DatesRead(conversation, facts), facts # NoFacts,
         "unreadable" \in conversation[t].says
  PROVE  \E j \in DOMAIN call.transcript[t].mentions : Unreadable(call.transcript[t].mentions[j])
  <1> DEFINE c == conversation
  <1>1. /\ IsConversation(c) /\ DOMAIN c = DOMAIN call.transcript
        /\ Fits(facts, c) /\ call \in Calls
    BY HearingKeepsTurns DEF AuditsInv, facts
  <1>2. t \in DOMAIN c
    BY <1>1, FactsPoint, SpeakersAreTurns DEF DatesRead
  <1>3. c[t].says = call.transcript[t].says
                       \cup AmountSignals(call.transcript[t], call.customer)
                       \cup DueDateSignals(call.transcript[t], call.date, call.customer)
                       \cup DigitSignals(call.transcript[t], call.customer)
                       \cup UnreadableSignals(call.transcript[t])
    BY <1>1, <1>2 DEF AuditsInv, Hearing, Heard
  <1>4. "unreadable" \notin call.transcript[t].says
    BY <1>1, <1>2, CallsAreTranscripts DEF Detected
  <1>5. \A turn, customer, date :
           /\ "unreadable" \notin AmountSignals(turn, customer)
           /\ "unreadable" \notin DueDateSignals(turn, date, customer)
           /\ "unreadable" \notin DigitSignals(turn, customer)
    BY DEF AmountSignals, DueDateSignals, DigitSignals
  <1>6. "unreadable" \in UnreadableSignals(call.transcript[t])
    BY <1>3, <1>4, <1>5
  <1> QED
    BY <1>6 DEF UnreadableSignals

(* An audit is refused only for want of evidence: a call without a turn of *)
(* the agent, a commitment without turns, or a date that cannot be read.   *)
THEOREM RaisesWithCause == Spec => []RaisesOnlyWithoutEvidence
  <1>1. AuditsInv => RaisesOnlyWithoutEvidence
    <2> SUFFICES ASSUME AuditsInv, NEW i \in Delivered("raised"), AgentTurns(conversation) # {},
                        ~(/\ facts.payment_commitment # NoCommitment
                          /\ facts.payment_commitment.client_proposal_turn = None
                          /\ facts.payment_commitment.agent_confirmation_turn = None)
                 PROVE  \E t \in DatesRead(conversation, facts) :
                           \E j \in DOMAIN call.transcript[t].mentions :
                               Unreadable(call.transcript[t].mentions[j])
      BY DEF RaisesOnlyWithoutEvidence
    <2>1. PICK f : (f = facts \/ f = NoFacts) /\ EngineRaises(conversation, f)
      BY EveryAudit DEF Delivered
    <2>2. IsConversation(conversation) /\ Fits(facts, conversation)
      BY HearingKeepsTurns DEF AuditsInv, facts
    <2>3. f = NoFacts \/ (f # NoFacts /\ f = facts /\ Fits(f, conversation))
      BY <2>1, <2>2
    <2>4. ASSUME NEW id \in Criteria, Findings(conversation, f)[id] = Violates({}) PROVE FALSE
      <3>1. CASE id \in CodeCriteria
        BY <3>1, <2>2, <2>3, <2>4, FindingOfCode, CodeViolationHasEvidence
      <3>2. CASE id \notin CodeCriteria
        <4>1. f # NoFacts /\ ModelFindings(conversation, f)[id] = Violates({})
          BY <3>2, <2>4, FindingOfModel, EmptyViolation
        <4> QED
          BY <4>1, <3>2, <2>2, <2>3, ModelViolationHasEvidence
      <3> QED
        BY <3>1, <3>2
    <2>5. PICK t \in DatesRead(conversation, f) : "unreadable" \in conversation[t].says
      BY <2>1, <2>3, <2>4 DEF EngineRaises
    <2>6. f # NoFacts
      BY <2>5 DEF DatesRead
    <2> QED
      BY <2>3, <2>5, <2>6, UnreadableWasSaid
  <1> QED
    BY <1>1, InitAudits, NextAudits, PTL DEF Spec

-----------------------------------------------------------------------------
(* The score.                                                              *)

LEMMA CriteriaCounted ==
  /\ IsFiniteSet(Minor) /\ Cardinality(Minor) <= 6
  /\ IsFiniteSet(Major) /\ Cardinality(Major) <= 10
  /\ IsFiniteSet(Critical) /\ Cardinality(Critical) <= 5
  <1>1. ASSUME NEW n \in Nat, NEW T, NEW f \in [1 .. n -> T], \A t \in T : \E i \in 1 .. n : f[i] = t
        PROVE  IsFiniteSet(T) /\ Cardinality(T) <= n
    <2>1. IsFiniteSet(1 .. n) /\ Cardinality(1 .. n) = n
      BY FS_Interval
    <2>2. f \in Surjection(1 .. n, T)
      BY <1>1 DEF Surjection
    <2> QED
      BY <2>1, <2>2, FS_Surjection
  <1>2. IsFiniteSet(Minor) /\ Cardinality(Minor) <= 6
    <2> DEFINE f == [i \in 1 .. 6 |-> CASE i = 1 -> "R1a" [] i = 2 -> "R2a" [] i = 3 -> "R3b"
                                        [] i = 4 -> "R8b" [] i = 5 -> "R9a" [] i = 6 -> "R9b"]
    <2>1. f \in [1 .. 6 -> Minor]
      BY DEF Minor
    <2>2. /\ f[1] = "R1a" /\ f[2] = "R2a" /\ f[3] = "R3b"
          /\ f[4] = "R8b" /\ f[5] = "R9a" /\ f[6] = "R9b"
      OBVIOUS
    <2> HIDE DEF f
    <2>3. \A t \in Minor : \E i \in 1 .. 6 : f[i] = t
      BY <2>2 DEF Minor
    <2> QED
      BY <2>1, <2>3, <1>1
  <1>3. IsFiniteSet(Major) /\ Cardinality(Major) <= 10
    <2> DEFINE f == [i \in 1 .. 10 |-> CASE i = 1 -> "R1b" [] i = 2 -> "R4a" [] i = 3 -> "R4b"
                                         [] i = 4 -> "R5a" [] i = 5 -> "R5b" [] i = 6 -> "R6b"
                                         [] i = 7 -> "R7a" [] i = 8 -> "R8a" [] i = 9 -> "R8c"
                                         [] i = 10 -> "R10b"]
    <2>1. f \in [1 .. 10 -> Major]
      BY DEF Major
    <2>2. /\ f[1] = "R1b" /\ f[2] = "R4a" /\ f[3] = "R4b" /\ f[4] = "R5a" /\ f[5] = "R5b"
          /\ f[6] = "R6b" /\ f[7] = "R7a" /\ f[8] = "R8a" /\ f[9] = "R8c" /\ f[10] = "R10b"
      OBVIOUS
    <2> HIDE DEF f
    <2>3. \A t \in Major : \E i \in 1 .. 10 : f[i] = t
      BY <2>2 DEF Major
    <2> QED
      BY <2>1, <2>3, <1>1
  <1>4. IsFiniteSet(Critical) /\ Cardinality(Critical) <= 5
    <2> DEFINE f == [i \in 1 .. 5 |-> CASE i = 1 -> "R2b" [] i = 2 -> "R2c" [] i = 3 -> "R3a"
                                        [] i = 4 -> "R6a" [] i = 5 -> "R10a"]
    <2>1. f \in [1 .. 5 -> Critical]
      BY DEF Critical
    <2>2. f[1] = "R2b" /\ f[2] = "R2c" /\ f[3] = "R3a" /\ f[4] = "R6a" /\ f[5] = "R10a"
      OBVIOUS
    <2> HIDE DEF f
    <2>3. \A t \in Critical : \E i \in 1 .. 5 : f[i] = t
      BY <2>2 DEF Critical
    <2> QED
      BY <2>1, <2>3, <1>1
  <1> QED
    BY <1>2, <1>3, <1>4

LEMMA WeightBounds ==
  ASSUME NEW ids \in SUBSET Criteria
  PROVE  /\ Weight(ids) \in Nat /\ Weight(ids) <= 61
         /\ Weight(ids) = 0 <=> ids = {}
  <1> DEFINE a == Cardinality(ids \cap Minor)
             b == Cardinality(ids \cap Major)
             d == Cardinality(ids \cap Critical)
  <1>1. /\ IsFiniteSet(ids \cap Minor) /\ a \in Nat /\ a <= 6
        /\ IsFiniteSet(ids \cap Major) /\ b \in Nat /\ b <= 10
        /\ IsFiniteSet(ids \cap Critical) /\ d \in Nat /\ d <= 5
    <2>1. ASSUME NEW S, IsFiniteSet(S), NEW n \in Nat, Cardinality(S) <= n
          PROVE  /\ IsFiniteSet(ids \cap S) /\ Cardinality(ids \cap S) \in Nat
                 /\ Cardinality(ids \cap S) <= n
      <3> DEFINE T == ids \cap S
      <3>1. T \in SUBSET S
        OBVIOUS
      <3> HIDE DEF T
      <3>2. IsFiniteSet(T) /\ Cardinality(T) <= Cardinality(S)
        BY <2>1, <3>1, FS_Subset
      <3>3. Cardinality(T) \in Nat /\ Cardinality(S) \in Nat
        BY <2>1, <3>2, FS_CardinalityType
      <3> QED
        BY <2>1, <3>2, <3>3 DEF T
    <2> QED
      BY <2>1, CriteriaCounted
  <1>2. /\ a = 0 <=> ids \cap Minor = {}
        /\ b = 0 <=> ids \cap Major = {}
        /\ d = 0 <=> ids \cap Critical = {}
    BY <1>1, FS_EmptySet
  <1>3. ids = {} <=> ids \cap Minor = {} /\ ids \cap Major = {} /\ ids \cap Critical = {}
    BY DEF Criteria
  <1>4. Weight(ids) = a + 3 * b + 5 * d
    BY <1>1 DEF Weight
  <1> HIDE DEF a, b, d
  <1> QED
    BY <1>1, <1>2, <1>3, <1>4

(* Rounding to tenths never makes a full score of less than all there is:  *)
(* the criteria weigh too little for that.                                 *)
LEMMA RoundedShare ==
  ASSUME NEW met \in Nat, NEW missed \in Nat,
         NEW n \in Nat, n = 1000 * met,
         NEW d \in Nat, d = met + missed, d > 0, d <= 122
  PROVE  /\ Rounded(n, d) \in 0 .. 1000
         /\ Rounded(n, d) = 1000 <=> missed = 0
  <1> DEFINE q == n \div d
             r == n % d
  <1>0. n \in Nat /\ d \in Nat /\ d > 0 /\ d <= 122 /\ n = 1000 * d - 1000 * missed
    OBVIOUS
  <1>1. Rounded(n, d) = IF 2 * r > d \/ (2 * r = d /\ q % 2 = 1) THEN q + 1 ELSE q
    BY DEF Rounded
  <1>2. q \in Nat /\ r \in 0 .. (d - 1) /\ n = d * q + r
    BY <1>0
  <1> HIDE DEF q, r
  <1>3. CASE missed = 0
    <2>1. q = 1000
      <3>1. CASE q > 1000
        <4>1. d * q >= d * 1001
          BY <1>0, <1>2, <3>1
        <4> QED
          BY <1>0, <1>2, <1>3, <4>1
      <3>2. CASE q < 1000
        <4>1. d * q <= d * 999
          BY <1>0, <1>2, <3>2
        <4> QED
          BY <1>0, <1>2, <1>3, <4>1
      <3> QED
        BY <3>1, <3>2, <1>2
    <2>2. r = 0
      BY <2>1, <1>0, <1>2, <1>3
    <2> QED
      BY <1>0, <1>1, <1>3, <2>1, <2>2
  <1>4. CASE missed # 0
    <2>1. q <= 998
      <3> SUFFICES ASSUME q >= 999 PROVE FALSE
        BY <1>2
      <3>1. d * q >= d * 999
        BY <1>0, <1>2
      <3> QED
        BY <3>1, <1>0, <1>2, <1>4
    <2>2. Rounded(n, d) \in 0 .. 999
      <3>1. Rounded(n, d) = q + 1 \/ Rounded(n, d) = q
        BY <1>1
      <3>2. q \in Nat
        BY <1>2
      <3> QED
        BY <3>1, <3>2, <2>1
    <2> QED
      BY <2>2, <1>4
  <1> QED
    BY <1>3, <1>4

LEMMA ScoreIsClean ==
  ASSUME NEW findings
  PROVE  /\ Score(findings) \in 0 .. 1000
         /\ Score(findings) = 1000 <=> With(findings, "violates") = {}
  <1> DEFINE met == Weight(With(findings, "complies"))
             missed == Weight(With(findings, "violates"))
  <1>1. /\ met \in Nat /\ met <= 61 /\ missed \in Nat /\ missed <= 61
        /\ missed = 0 <=> With(findings, "violates") = {}
    <2>1. \A s : With(findings, s) \in SUBSET Criteria
      BY DEF With
    <2> QED
      BY <2>1, WeightBounds
  <1>2. Score(findings) = IF met + missed = 0 THEN 1000 ELSE Rounded(1000 * met, met + missed)
    BY DEF Score
  <1> HIDE DEF met, missed
  <1>3. CASE met + missed = 0
    BY <1>1, <1>2, <1>3
  <1>4. CASE met + missed # 0
    <2> DEFINE n == 1000 * met
               d == met + missed
    <2>1. n \in Nat /\ n = 1000 * met /\ d \in Nat /\ d = met + missed /\ d > 0 /\ d <= 122
      BY <1>1, <1>4
    <2>2. Score(findings) = Rounded(n, d)
      BY <1>2, <1>4
    <2> HIDE DEF n, d
    <2>3. Rounded(n, d) \in 0 .. 1000 /\ (Rounded(n, d) = 1000 <=> missed = 0)
      BY <1>1, <2>1, RoundedShare
    <2> QED
      BY <1>1, <2>2, <2>3
  <1> QED
    BY <1>3, <1>4

(* The full score, no severity and an empty list of failures come          *)
(* together, after rounding too.                                           *)
THEOREM CleanMeansFull == Spec => []FullScoreMeansClean
  <1>1. AuditsInv => FullScoreMeansClean
    <2> SUFFICES ASSUME AuditsInv, NEW i \in Audited
                 PROVE  /\ audits[i].score = 1000 <=> audits[i].failed = {}
                        /\ audits[i].severity = "none" <=> audits[i].failed = {}
      BY DEF FullScoreMeansClean
    <2>1. PICK f : audits[i] = Audit(conversation, f)
      BY EveryAudit DEF Audited, Delivered
    <2> DEFINE findings == Findings(conversation, f)
    <2>2. /\ audits[i].score = Score(findings)
          /\ audits[i].severity = OverallSeverity(findings)
          /\ audits[i].failed = With(findings, "violates")
      BY <2>1 DEF Audit
    <2> HIDE DEF findings
    <2>3. OverallSeverity(findings) = "none" <=> With(findings, "violates") = {}
      BY DEF OverallSeverity
    <2> QED
      BY <2>2, <2>3, ScoreIsClean
  <1> QED
    BY <1>1, InitAudits, NextAudits, PTL DEF Spec

-----------------------------------------------------------------------------
(* Everything cited is a turn of the conversation.                         *)

LEMMA CitedByCode ==
  ASSUME NEW c, IsConversation(c), NEW f, f = NoFacts \/ Fits(f, c), NEW id \in CodeCriteria
  PROVE  CodeFindings(c, f)[id].turns \subseteq DOMAIN c
  <1>0. \A T : T \subseteq DOMAIN c \cup {None} =>
           Violates(T).turns \subseteq DOMAIN c /\ Complies(T).turns \subseteq DOMAIN c
    BY DEF Violates, Complies
  <1>1. First(AgentTurns(c)) \in DOMAIN c \cup {None}
    BY SpeakersAreTurns, FirstIsFirst
  <1>2. SensitiveTurns(c, f) \subseteq DOMAIN c
    <2>1. DigitsRequestTurn(c) \in DOMAIN c \cup {None}
      <3>1. {t \in AgentTurns(c) : "asksDigits" \in c[t].says} \in SUBSET DOMAIN c
        BY SpeakersAreTurns
      <3> QED
        BY <3>1, FirstIsFirst DEF DigitsRequestTurn
    <2>2. f # NoFacts => f.debt_disclosure_turn \in DOMAIN c \cup {None}
      BY FactsPoint, SpeakersAreTurns
    <2> QED
      BY <2>1, <2>2 DEF SensitiveTurns
  <1>3. First(SensitiveTurns(c, f)) \in DOMAIN c \cup {None}
    BY <1>2, FirstIsFirst
  <1>4. \A s : FirstOpeningTurn(c, f, s) \in DOMAIN c \cup {None}
    BY OpeningTurnsAreTurns, FirstIsFirst DEF FirstOpeningTurn
  <1>5. \A signals : OpeningSays(c, f, signals).turns \subseteq DOMAIN c
    <2> TAKE signals
    <2>1. {First(AgentTurns(c)), First(SensitiveTurns(c, f))} \subseteq DOMAIN c \cup {None}
      BY <1>1, <1>3
    <2>2. {FirstOpeningTurn(c, f, s) : s \in signals} \subseteq DOMAIN c \cup {None}
      BY <1>4
    <2> QED
      BY <1>0, <2>1, <2>2 DEF OpeningSays
  <1>6. ConfirmsFullName(c, f).turns \subseteq DOMAIN c
    <2>1. {t \in AgentTurns(c) : "fullName" \in c[t].says} \in SUBSET DOMAIN c
      BY SpeakersAreTurns
    <2>2. First({t \in AgentTurns(c) : "fullName" \in c[t].says}) \in DOMAIN c \cup {None}
      BY <2>1, FirstIsFirst
    <2>3. f # NoFacts => f.interlocutor_turn \in DOMAIN c \cup {None}
      BY FactsPoint, SpeakersAreTurns
    <2> QED
      BY <1>0, <1>1, <2>2, <2>3 DEF ConfirmsFullName
  <1>7. NoLegalThreats(c, f).turns \subseteq DOMAIN c
    <2>1. LegalThreats(c, f) \subseteq DOMAIN c
      BY FactsPoint, SpeakersAreTurns DEF LegalThreats, LegalActionTurns
    <2> QED
      BY <1>0, <2>1 DEF NoLegalThreats
  <1> QED
    BY <1>5, <1>6, <1>7, CodeFindingsAre DEF CodeCriteria, PresentsAsLina, AnnouncesRecording

LEMMA CitedByModel ==
  ASSUME NEW c, IsConversation(c), NEW f, Fits(f, c), NEW id \in Criteria \ CodeCriteria
  PROVE  ModelFindings(c, f)[id].turns \subseteq DOMAIN c
  <1> DEFINE D == DOMAIN c \cup {None}
  <1>0. /\ \A T : T \subseteq D =>
               Violates(T).turns \subseteq DOMAIN c /\ Complies(T).turns \subseteq DOMAIN c
        /\ NotApplicable.turns = {}
    BY DEF Violates, Complies, NotApplicable
  <1>1. LastAgentTurn(c) \in D
    BY SpeakersAreTurns, LastIsLast DEF LastAgentTurn
  <1>2. \A after : NextAgentTurn(c, after) \in D
    <2> TAKE after
    <2>1. {t \in AgentTurns(c) : t > after} \in SUBSET DOMAIN c
      BY SpeakersAreTurns
    <2> QED
      BY <2>1, FirstIsFirst DEF NextAgentTurn
  <1>3. DigitsRequestTurn(c) \in D /\ DigitsAnswerTurn(c) \in D
    <2>1. {t \in AgentTurns(c) : "asksDigits" \in c[t].says} \in SUBSET DOMAIN c
      BY SpeakersAreTurns
    <2>2. {t \in By(c, "client") : DigitsRequestTurn(c) # None /\ t > DigitsRequestTurn(c)
              /\ c[t].says \cap {"lastFour", "otherDigits"} # {}} \in SUBSET DOMAIN c
      BY SpeakersAreTurns
    <2> QED
      BY <2>1, <2>2, FirstIsFirst DEF DigitsRequestTurn, DigitsAnswerTurn
  <1>4. /\ f.debt_disclosure_turn \in D /\ f.benefit_offer_turn \in D
        /\ f.benefit_referral_turn \in D /\ f.escalation_turn \in D
        /\ f.paid_details_request_turn \in D /\ f.reflection_delay_notice_turn \in D
        /\ f.callback_request_turn \in D /\ f.closing_summary_turn \in D
        /\ f.farewell_turn \in D /\ f.interlocutor_turn \in D
        /\ f.benefit_request_turn \in D /\ f.escalation_request_turn \in D
        /\ f.payment_reported_turn \in D
        /\ f.insistence_turns \subseteq D /\ f.pressure_turns \subseteq D
        /\ f.payment_commitment # NoCommitment =>
              /\ f.payment_commitment.client_proposal_turn \in D
              /\ f.payment_commitment.agent_confirmation_turn \in D
    BY FactsPoint, SpeakersAreTurns
  <1>5. {t \in AgentTurns(c) : t > f.interlocutor_turn /\ RevealsDebt(c, t)} \subseteq D
    BY SpeakersAreTurns
  <1>6. f.payment_commitment # NoCommitment => CommittedTurn(c, f.payment_commitment) \in D
    BY <1>4 DEF CommittedTurn
  <1> HIDE DEF D
  <1>7. /\ VerifiesBeforeDisclosure(c, f).turns \subseteq DOMAIN c
        /\ DisclosesOnlyIfDigitsMatch(c, f).turns \subseteq DOMAIN c
    BY <1>0, <1>3, <1>4 DEF VerifiesBeforeDisclosure, DisclosesOnlyIfDigitsMatch
  <1>8. NoDisclosureToThirdParty(c, f).turns \subseteq DOMAIN c
    <2> DEFINE leaks == {t \in AgentTurns(c) : t > f.interlocutor_turn /\ RevealsDebt(c, t)}
                            \cup ({f.debt_disclosure_turn} \ {None})
    <2>1. leaks \cup {f.interlocutor_turn} \subseteq D /\ {f.interlocutor_turn} \subseteq D
      BY <1>4, <1>5
    <2>2. /\ Violates(leaks \cup {f.interlocutor_turn}).turns \subseteq DOMAIN c
          /\ Complies({f.interlocutor_turn}).turns \subseteq DOMAIN c
      BY <1>0, <2>1
    <2> QED
      BY <1>0, <2>2 DEF NoDisclosureToThirdParty
  <1>9. /\ AsksCallbackTime(c, f).turns \subseteq DOMAIN c
        /\ \A signal : DisclosureStates(c, f, signal).turns \subseteq DOMAIN c
    BY <1>0, <1>1, <1>4 DEF AsksCallbackTime, DisclosureStates
  <1>10. /\ DateIsConcrete(c, f).turns \subseteq DOMAIN c
         /\ DateWithinWindow(c, f).turns \subseteq DOMAIN c
    BY <1>0, <1>4, <1>6 DEF DateIsConcrete, DateWithinWindow
  <1>11. /\ OffersNoBenefit(f).turns \subseteq DOMAIN c
         /\ RefersBenefitRequest(c, f).turns \subseteq DOMAIN c
    BY <1>0, <1>2, <1>4 DEF OffersNoBenefit, RefersBenefitRequest
  <1>12. /\ Escalates(c, f).turns \subseteq DOMAIN c
         /\ AsksPaymentDetails(c, f).turns \subseteq DOMAIN c
    BY <1>0, <1>2, <1>4 DEF Escalates, AsksPaymentDetails
  <1>13. InformsReflectionDelay(c, f).turns \subseteq DOMAIN c
    BY <1>0, <1>1, <1>4 DEF InformsReflectionDelay
  <1>14. DoesNotInsist(f).turns \subseteq DOMAIN c
    <2>1. {t \in f.insistence_turns : t > f.payment_reported_turn} \cup {f.payment_reported_turn}
             \subseteq D
      BY <1>4
    <2> QED
      BY <1>0, <1>4, <2>1 DEF DoesNotInsist
  <1>15. /\ ClosesWith(c, f.closing_summary_turn).turns \subseteq DOMAIN c
         /\ ClosesWith(c, f.farewell_turn).turns \subseteq DOMAIN c
    BY <1>0, <1>1, <1>4 DEF ClosesWith
  <1>16. RespectfulTone(c, f).turns \subseteq DOMAIN c
    <2>1. f.pressure_turns \ LegalThreats(c, f) \subseteq D /\ {} \subseteq D
      BY <1>4
    <2> QED
      BY <1>0, <2>1 DEF RespectfulTone
  <1> QED
    BY <1>7, <1>8, <1>9, <1>10, <1>11, <1>12, <1>13, <1>14, <1>15, <1>16, ModelFindingsAre
       DEF Criteria, Critical, Major, Minor, CodeCriteria

(* The facts fit the conversation, scores and severities are in range, and *)
(* what an audit cites are turns of the conversation it audits.            *)
THEOREM EngineTypeOK == Spec => []TypeOK
  <1>1. AuditsInv => TypeOK
    <2> SUFFICES ASSUME AuditsInv PROVE TypeOK
      OBVIOUS
    <2>1. IsConversation(conversation) /\ Fits(facts, conversation)
      BY HearingKeepsTurns DEF AuditsInv, facts
    <2>2. ASSUME NEW i \in Audited
          PROVE  /\ audits[i].score \in 0 .. 1000
                 /\ audits[i].severity \in {"none", "minor", "major", "critical"}
                 /\ audits[i].failed \subseteq Criteria
                 /\ \A id \in Criteria : audits[i].criteria[id].turns \subseteq DOMAIN conversation
      <3>1. PICK f : (f = NoFacts \/ (f # NoFacts /\ f = facts)) /\ audits[i] = Audit(conversation, f)
        BY EveryAudit DEF Audited, Delivered
      <3> DEFINE findings == Findings(conversation, f)
      <3>2. /\ audits[i].score = Score(findings)
            /\ audits[i].severity = OverallSeverity(findings)
            /\ audits[i].failed = With(findings, "violates")
            /\ audits[i].criteria = findings
        BY <3>1 DEF Audit
      <3>3. ASSUME NEW id \in Criteria PROVE findings[id].turns \subseteq DOMAIN conversation
        <4>1. CASE id \in CodeCriteria
          BY <4>1, <2>1, <3>1, FindingOfCode, CitedByCode
        <4>2. CASE id \notin CodeCriteria /\ f = NoFacts
          BY <4>2, FindingOfModel DEF Undetermined
        <4>3. CASE id \notin CodeCriteria /\ f # NoFacts
          BY <4>3, <2>1, <3>1, FindingOfModel, CitedByModel
        <4> QED
          BY <4>1, <4>2, <4>3
      <3> HIDE DEF findings
      <3>4. OverallSeverity(findings) \in {"none", "minor", "major", "critical"}
        BY DEF OverallSeverity
      <3>5. With(findings, "violates") \subseteq Criteria
        BY DEF With
      <3> QED
        BY <3>2, <3>3, <3>4, <3>5, ScoreIsClean
    <2> QED
      BY <2>1, <2>2 DEF TypeOK, AuditsInv
  <1> QED
    BY <1>1, InitAudits, NextAudits, PTL DEF Spec
-----------------------------------------------------------------------------
(* The comparison with the annotations.                                    *)

(* A share between two whole numbers is rounded to one between them.       *)
LEMMA RoundedBetween ==
  ASSUME NEW n \in Int, NEW d \in Nat, d > 0, NEW low \in Int, NEW high \in Int,
         low * d <= n, n <= high * d
  PROVE  Rounded(n, d) \in Int /\ low <= Rounded(n, d) /\ Rounded(n, d) <= high
  <1> DEFINE q == n \div d
             r == n % d
  <1>1. Rounded(n, d) = IF 2 * r > d \/ (2 * r = d /\ q % 2 = 1) THEN q + 1 ELSE q
    BY DEF Rounded
  <1>2. q \in Int /\ r \in 0 .. (d - 1) /\ n = d * q + r
    OBVIOUS
  <1> HIDE DEF q, r
  <1>3. low <= q
    <2> SUFFICES ASSUME q <= low - 1 PROVE FALSE
      BY <1>2
    <2>1. d * q <= d * (low - 1)
      BY <1>2
    <2>2. d * (low - 1) = low * d - d
      OBVIOUS
    <2> QED
      BY <1>2, <2>1, <2>2
  <1>4. q <= high
    <2> SUFFICES ASSUME q >= high + 1 PROVE FALSE
      BY <1>2
    <2>1. d * q >= d * (high + 1)
      BY <1>2
    <2>2. d * (high + 1) = high * d + d
      OBVIOUS
    <2> QED
      BY <1>2, <2>1, <2>2
  <1>5. CASE q = high
    <2>1. d * q = high * d
      BY <1>5
    <2>2. r = 0
      BY <1>2, <2>1
    <2>3. Rounded(n, d) = q
      BY <1>1, <2>2
    <2> QED
      BY <1>2, <1>3, <1>5, <2>3
  <1>6. CASE q # high
    <2>1. q + 1 <= high
      BY <1>2, <1>4, <1>6
    <2>2. Rounded(n, d) = q \/ Rounded(n, d) = q + 1
      BY <1>1
    <2> QED
      BY <1>2, <1>3, <1>4, <2>1, <2>2
  <1> QED
    BY <1>5, <1>6

(* The harmonic mean of two shares lies between them.                      *)
LEMMA F1Between ==
  ASSUME NEW p \in Nat \cup {NoRate}, NEW r \in Nat \cup {NoRate}, F1(p, r) # NoRate
  PROVE  \E low, high \in {p, r} : low <= F1(p, r) /\ F1(p, r) <= high
  <1>1. p \in Nat /\ r \in Nat
    BY DEF F1
  <1>2. CASE p + r = 0
    <2>1. p = 0 /\ r = 0
      BY <1>1, <1>2
    <2>2. F1(p, r) = 0
      BY <1>1, <1>2, NoRateIsNoNumber DEF F1
    <2> QED
      BY <2>1, <2>2
  <1>3. CASE p + r # 0
    <2> DEFINE n == 2 * p * r
               d == p + r
    <2>1. n \in Int /\ d \in Nat /\ d > 0
      BY <1>1, <1>3
    <2>2. F1(p, r) = Rounded(n, d)
      BY <1>1, <1>3, NoRateIsNoNumber DEF F1
    <2>3. ASSUME NEW a \in Nat, NEW b \in Nat, a <= b, n = 2 * a * b, d = a + b
          PROVE  a <= Rounded(n, d) /\ Rounded(n, d) <= b
      <3>1. a * a <= a * b /\ a * b <= b * b
        BY <2>3
      <3>2. a * d = a * a + a * b /\ b * d = a * b + b * b
        BY <2>3
      <3>3. n = a * b + a * b /\ a * a \in Int /\ a * b \in Int /\ b * b \in Int
        BY <2>3
      <3>4. a * d <= n /\ n <= b * d
        BY <3>1, <3>2, <3>3
      <3>5. a \in Int /\ b \in Int
        OBVIOUS
      <3> HIDE DEF n, d
      <3> QED
        BY <2>1, <3>4, <3>5, RoundedBetween
    <2>4. CASE p <= r
      BY <1>1, <2>2, <2>3, <2>4
    <2>5. CASE r <= p
      <3>1. n = 2 * r * p /\ d = r + p
        BY <1>1
      <3> HIDE DEF n, d
      <3> QED
        BY <1>1, <2>2, <2>3, <2>5, <3>1
    <2> QED
      BY <1>1, <2>4, <2>5
  <1> QED
    BY <1>2, <1>3

LEMMA RatioIsShare ==
  ASSUME NEW n \in Nat, NEW d \in Nat, n <= d
  PROVE  Ratio(n, d, 1000) \in Nat \cup {NoRate}
  <1>1. CASE d = 0
    BY <1>1 DEF Ratio
  <1>2. CASE d # 0
    <2> DEFINE a == 1000 * n
    <2>1. a \in Int /\ d \in Nat /\ d > 0 /\ 0 * d <= a /\ a <= 1000 * d
      BY <1>2
    <2>2. Ratio(n, d, 1000) = Rounded(a, d)
      BY <1>2 DEF Ratio
    <2> HIDE DEF a
    <2>3. Rounded(a, d) \in Int /\ 0 <= Rounded(a, d)
      BY <2>1, RoundedBetween
    <2> QED
      BY <2>2, <2>3
  <1> QED
    BY <1>1, <1>2

(* Three parts of a set count up to it.                                    *)
LEMMA PartsCount ==
  ASSUME NEW S, IsFiniteSet(S), NEW A \in SUBSET S, NEW B \in SUBSET S, NEW C \in SUBSET S,
         A \cup B \cup C = S, A \cap B = {}, (A \cup B) \cap C = {}
  PROVE  Cardinality(A) + Cardinality(B) + Cardinality(C) = Cardinality(S)
  <1>1. IsFiniteSet(A) /\ IsFiniteSet(B) /\ IsFiniteSet(C)
    BY FS_Subset
  <1> DEFINE D == A \cup B
  <1>2. IsFiniteSet(D) /\ Cardinality(D) = Cardinality(A) + Cardinality(B)
    BY <1>1, TwoParts
  <1>3. D \cap C = {} /\ D \cup C = S
    OBVIOUS
  <1> HIDE DEF D
  <1>4. Cardinality(S) = Cardinality(D) + Cardinality(C)
    BY <1>1, <1>2, <1>3, TwoParts
  <1> QED
    BY <1>2, <1>4

(* The audit kept under an identifier is one of the run.                   *)
LEMMA AuditOfRun ==
  ASSUME NEW n \in Nat, NEW run, DOMAIN run = 1 .. n, NEW id \in Ids(run)
  PROVE  \E i \in DOMAIN run : AuditOf(run, id) = run[i].audit
  <1> DEFINE T == {i \in DOMAIN run : run[i].id = id}
  <1>1. T \in SUBSET (1 .. n) /\ T # {}
    BY DEF Ids
  <1>2. PICK i \in T : \A j \in T : j <= i
    <2> HIDE DEF T
    <2> QED
      BY <1>1, GreatestExists
  <1>3. FSets!Max(T) \in T
    <2> HIDE DEF T
    <2>1. \A j \in T : i >= j
      BY <1>1, <1>2
    <2>2. FSets!Max(T) = CHOOSE x \in T : \A y \in T : x >= y
      BY DEF FSets!Max
    <2> QED
      BY <1>2, <2>1, <2>2
  <1> QED
    BY <1>3 DEF AuditOf

(* A set of marks has no false alarm and misses nothing exactly when the   *)
(* two annotations are the same in each of the calls compared.             *)
Verdicts(C) == [C -> SUBSET Criteria]
Marks(f) == UNION {{id} \X f[id] : id \in DOMAIN f}
Alike(f, g) == {id \in DOMAIN f : f[id] = g[id]}

LEMMA SameMarks ==
  ASSUME NEW C, IsFiniteSet(C), NEW f \in Verdicts(C), NEW g \in Verdicts(C)
  PROVE  /\ IsFiniteSet(Marks(f)) /\ IsFiniteSet(Marks(g))
         /\ (Cardinality(Marks(f) \ Marks(g)) = 0 /\ Cardinality(Marks(g) \ Marks(f)) = 0)
               <=> Cardinality(Alike(f, g)) = Cardinality(C)
  <1> DEFINE P == Marks(f)
             R == Marks(g)
  <1> USE DEF Verdicts
  <1>1. IsFiniteSet(Criteria)
    BY CriteriaCounted, FS_Union DEF Criteria
  <1>2. IsFiniteSet(C \X Criteria)
    BY <1>1, FS_Product
  <1>3. P \in SUBSET (C \X Criteria) /\ R \in SUBSET (C \X Criteria)
    BY DEF Marks
  <1>4. IsFiniteSet(P) /\ IsFiniteSet(R) /\ IsFiniteSet(P \ R) /\ IsFiniteSet(R \ P)
    <2> HIDE DEF Criteria
    <2>1. P \ R \in SUBSET (C \X Criteria) /\ R \ P \in SUBSET (C \X Criteria)
      BY <1>3
    <2> QED
      BY <1>2, <1>3, <2>1, FS_Subset
  <1>5. Cardinality(P \ R) = 0 /\ Cardinality(R \ P) = 0 <=> P = R
    BY <1>4, FS_EmptySet
  <1>6. P = R <=> \A id \in C : f[id] = g[id]
    <2>1. \A id, cr : <<id, cr>> \in P <=> id \in C /\ cr \in f[id]
      BY DEF Marks
    <2>2. \A id, cr : <<id, cr>> \in R <=> id \in C /\ cr \in g[id]
      BY DEF Marks
    <2>3. ASSUME P = R, NEW id \in C PROVE f[id] = g[id]
      <3>1. \A cr : cr \in f[id] <=> cr \in g[id]
        BY <2>1, <2>2, <2>3
      <3> QED
        BY <3>1
    <2>4. ASSUME \A id \in C : f[id] = g[id] PROVE P = R
      BY <2>4
    <2> QED
      BY <2>3, <2>4
  <1>7. Cardinality({id \in C : f[id] = g[id]}) = Cardinality(C) <=> \A id \in C : f[id] = g[id]
    <2> DEFINE E == {id \in C : f[id] = g[id]}
    <2>1. E \in SUBSET C /\ (E = C <=> \A id \in C : f[id] = g[id])
      OBVIOUS
    <2> HIDE DEF E
    <2>2. Cardinality(E) = Cardinality(C) <=> E = C
      BY <2>1, FS_Subset
    <2> QED
      BY <2>1, <2>2 DEF E
  <1>8. Alike(f, g) = {id \in C : f[id] = g[id]}
    BY DEF Alike
  <1> QED
    BY <1>4, <1>5, <1>6, <1>7, <1>8

(* A finished run has an audit for each of its places.                     *)
LEMMA FinishedAudits ==
  ASSUME AuditsInv, Finished
  PROVE  /\ DOMAIN audits = 1 .. MaxAudits
         /\ \A i \in DOMAIN audits : \E f : audits[i] = Audit(conversation, f)
  <1>1. Len(audits) = MaxAudits /\ DOMAIN audits = 1 .. Len(audits)
    <2>1. audits \in Seq({Outcome(conversation, facts), Outcome(conversation, NoFacts)})
      BY DEF AuditsInv
    <2> QED
      BY <2>1 DEF Finished
  <1>2. ASSUME NEW i \in DOMAIN audits PROVE \E f : audits[i] = Audit(conversation, f)
    <2>1. audits[i].analysis # "raised"
      BY DEF Finished, Delivered
    <2>2. PICK f : audits[i] = Outcome(conversation, f)
      BY EveryAudit
    <2>3. ~EngineRaises(conversation, f)
      <3>1. EngineRaises(conversation, f) => audits[i] = [analysis |-> "raised"]
        BY <2>2 DEF Outcome
      <3> QED
        BY <2>1, <3>1
    <2> QED
      BY <2>2, <2>3 DEF Outcome
  <1> QED
    BY <1>1, <1>2

(* What a run in which no audit raised is compared by.                     *)
LEMMA ComparisonOfRun ==
  ASSUME NEW n \in Nat, NEW run, DOMAIN run = 1 .. n,
         \A i \in DOMAIN run : run[i].audit.failed \in SUBSET Criteria, NEW truth \in Truths
  PROVE  AddsUp(CompareRun(run, truth, Criteria), truth)
  <1> DEFINE result == CompareRun(run, truth, Criteria)
             C == Compared(run, truth)
             f == [id \in C |-> AuditOf(run, id).failed]
             g == [id \in C |-> truth[id].failed]
             Asked(pairs) == {pair \in pairs : pair[2] \in Criteria}
             P == Asked(Predicted(run, truth))
             R == Asked(Real(run, truth))
             tp == Cardinality(P \cap R)
             fp == Cardinality(P \ R)
             fn == Cardinality(R \ P)
  <1>1. IsFiniteSet(DOMAIN truth) /\ \A id \in DOMAIN truth : truth[id].failed \in SUBSET Criteria
    BY TruthsAreVerdicts
  <1>2. /\ result.compared = C /\ result.skipped_partial = Skipped(run, truth)
        /\ result.missing_from_run = DOMAIN truth \ Ids(run)
    BY DEF CompareRun
  <1>20. result.exact_matches =
            Cardinality({id \in C : AuditOf(run, id).failed = truth[id].failed})
    BY DEF CompareRun
  <1>21. result.false_positives = fp /\ result.false_negatives = fn
    BY DEF CompareRun
  <1>22. result.precision = Ratio(tp, tp + fp, 1000) /\ result.recall = Ratio(tp, tp + fn, 1000)
    BY DEF CompareRun
  <1>23. result.f1 = F1(result.precision, result.recall)
    BY DEF CompareRun
  <1>3. /\ C \in SUBSET DOMAIN truth /\ C \in SUBSET Ids(run)
        /\ Skipped(run, truth) \in SUBSET DOMAIN truth
        /\ C \cup Skipped(run, truth) \cup (DOMAIN truth \ Ids(run)) = DOMAIN truth
        /\ C \cap Skipped(run, truth) = {}
        /\ (C \cup Skipped(run, truth)) \cap (DOMAIN truth \ Ids(run)) = {}
    BY DEF Compared, Skipped
  <1>4. Cardinality(C) + Cardinality(Skipped(run, truth)) + Cardinality(DOMAIN truth \ Ids(run))
           = Cardinality(DOMAIN truth)
    <2> HIDE DEF C
    <2>1. DOMAIN truth \ Ids(run) \in SUBSET DOMAIN truth
      OBVIOUS
    <2> QED
      BY <1>1, <1>3, <2>1, PartsCount
  <1>5. f \in Verdicts(C) /\ g \in Verdicts(C) /\ IsFiniteSet(C)
    <2>1. \A id \in C : AuditOf(run, id).failed \in SUBSET Criteria
      BY <1>3, AuditOfRun
    <2>2. \A id \in C : truth[id].failed \in SUBSET Criteria
      BY <1>1, <1>3
    <2>3. IsFiniteSet(C)
      BY <1>1, <1>3, FS_Subset
    <2> QED
      BY <2>1, <2>2, <2>3 DEF Verdicts
  <1>6. P = Marks(f) /\ R = Marks(g)
    <2>1. P = Predicted(run, truth) /\ Predicted(run, truth) = Marks(f)
      BY <1>5 DEF Predicted, Marks, Verdicts
    <2>2. R = Real(run, truth) /\ Real(run, truth) = Marks(g)
      BY <1>5 DEF Real, Marks, Verdicts
    <2> QED
      BY <2>1, <2>2
  <1>7. {id \in C : AuditOf(run, id).failed = truth[id].failed} = Alike(f, g)
    BY DEF Alike
  <1> HIDE DEF f, g, P, R
  <1>8. /\ IsFiniteSet(P) /\ IsFiniteSet(R)
        /\ (fp = 0 /\ fn = 0) <=> Cardinality(Alike(f, g)) = Cardinality(C)
    <2> HIDE DEF C
    <2>1. /\ IsFiniteSet(Marks(f)) /\ IsFiniteSet(Marks(g))
          /\ (Cardinality(Marks(f) \ Marks(g)) = 0 /\ Cardinality(Marks(g) \ Marks(f)) = 0)
                <=> Cardinality(Alike(f, g)) = Cardinality(C)
      BY <1>5, SameMarks
    <2> QED
      BY <1>6, <2>1
  <1>9. tp \in Nat /\ fp \in Nat /\ fn \in Nat
    <2>1. IsFiniteSet(P \cap R) /\ IsFiniteSet(P \ R) /\ IsFiniteSet(R \ P)
      BY <1>8, FS_Subset
    <2> QED
      BY <2>1, FS_CardinalityType
  <1> HIDE DEF tp, fp, fn, C, result
  <1>10. result.precision \in Nat \cup {NoRate} /\ result.recall \in Nat \cup {NoRate}
    <2>1. tp + fp \in Nat /\ tp <= tp + fp /\ tp + fn \in Nat /\ tp <= tp + fn
      BY <1>9
    <2>2. /\ Ratio(tp, tp + fp, 1000) \in Nat \cup {NoRate}
          /\ Ratio(tp, tp + fn, 1000) \in Nat \cup {NoRate}
      BY <1>9, <2>1, RatioIsShare
    <2> QED
      BY <1>22, <2>2
  <1>11. result.f1 # NoRate =>
           \E low, high \in {result.precision, result.recall} :
              low <= result.f1 /\ result.f1 <= high
    <2> DEFINE p == result.precision
               r == result.recall
    <2>1. p \in Nat \cup {NoRate} /\ r \in Nat \cup {NoRate} /\ result.f1 = F1(p, r)
      BY <1>10, <1>23
    <2> HIDE DEF p, r
    <2>2. F1(p, r) # NoRate => \E low, high \in {p, r} : low <= F1(p, r) /\ F1(p, r) <= high
      BY <2>1, F1Between
    <2> QED
      BY <2>1, <2>2 DEF p, r
  <1> QED
    BY <1>2, <1>3, <1>4, <1>7, <1>8, <1>11, <1>20, <1>21 DEF result, AddsUp

(* The comparison of a run with an annotator adds up: every conversation   *)
(* is compared, skipped or missing, once, no mark is wrong exactly when    *)
(* all that was compared matches, and F1 lies between its two rates.       *)
THEOREM ComparisonHolds == Spec => []ComparisonAddsUp
  <1>1. AuditsInv => ComparisonAddsUp
    <2> SUFFICES ASSUME AuditsInv, Finished, NEW ids \in Labelings, NEW truth \in Truths
                 PROVE  AddsUp(CompareRun(Run(ids), truth, Criteria), truth)
      BY DEF ComparisonAddsUp
    <2> DEFINE run == Run(ids)
    <2>1. DOMAIN run = 1 .. MaxAudits /\ MaxAudits \in Nat
      BY FinishedAudits, AuditBound DEF Run
    <2>2. \A i \in DOMAIN run : run[i].audit.failed \in SUBSET Criteria
      BY FinishedAudits DEF Run, Audit, With
    <2> HIDE DEF run
    <2>3. AddsUp(CompareRun(run, truth, Criteria), truth)
      BY <2>1, <2>2, ComparisonOfRun
    <2> QED
      BY <2>3 DEF run
  <1> QED
    BY <1>1, InitAudits, NextAudits, PTL DEF Spec

-----------------------------------------------------------------------------
(* The report of a run.                                                    *)

(* The ranking of failures is a strict order.                              *)
LEMMA PositionsDiffer ==
  \A a, b \in Criteria : /\ Position(a) \in 1 .. 21
                         /\ Position(a) = Position(b) => a = b
  <1>1. ASSUME NEW id \in Criteria
        PROVE  Position(id) \in 1 .. 21 /\ IdOrder[Position(id)] = id
    <2>1. DOMAIN IdOrder = 1 .. 21
      BY DEF IdOrder
    <2>2. /\ IdOrder[1] = "R1a" /\ IdOrder[2] = "R1b" /\ IdOrder[3] = "R10a" /\ IdOrder[4] = "R10b"
          /\ IdOrder[5] = "R2a" /\ IdOrder[6] = "R2b" /\ IdOrder[7] = "R2c" /\ IdOrder[8] = "R3a"
          /\ IdOrder[9] = "R3b" /\ IdOrder[10] = "R4a" /\ IdOrder[11] = "R4b"
          /\ IdOrder[12] = "R5a" /\ IdOrder[13] = "R5b" /\ IdOrder[14] = "R6a"
          /\ IdOrder[15] = "R6b" /\ IdOrder[16] = "R7a" /\ IdOrder[17] = "R8a"
          /\ IdOrder[18] = "R8b" /\ IdOrder[19] = "R8c" /\ IdOrder[20] = "R9a"
          /\ IdOrder[21] = "R9b"
      BY DEF IdOrder
    <2>3. \E i \in 1 .. 21 : IdOrder[i] = id
      BY <2>2 DEF Criteria, Critical, Major, Minor
    <2> QED
      BY <2>1, <2>3 DEF Position
  <1> QED
    BY <1>1

LEMMA RankingOrders ==
  ASSUME NEW violated \in [Criteria -> Nat], NEW S \in SUBSET Criteria
  PROVE  StrictlyOrders({p \in S \X S : RanksBefore(violated, p[1], p[2])}, S)
  <1> DEFINE before == {p \in S \X S : RanksBefore(violated, p[1], p[2])}
  <1>1. \A x, y \in S : <<x, y>> \in before <=> RanksBefore(violated, x, y)
    OBVIOUS
  <1>2. \A x \in Criteria : Weight({x}) \in Nat /\ violated[x] \in Nat
    BY WeightBounds
  <1>3. \A x \in Criteria : Position(x) \in Nat
    BY PositionsDiffer
  <1> HIDE DEF before
  <1>4. \A x \in S : ~RanksBefore(violated, x, x)
    BY <1>2, <1>3 DEF RanksBefore
  <1>5. \A x, y, z \in S : RanksBefore(violated, x, y) /\ RanksBefore(violated, y, z)
                               => RanksBefore(violated, x, z)
    <2> TAKE x, y, z \in S
    <2>1. /\ Weight({x}) \in Nat /\ violated[x] \in Nat /\ Position(x) \in Nat
          /\ Weight({y}) \in Nat /\ violated[y] \in Nat /\ Position(y) \in Nat
          /\ Weight({z}) \in Nat /\ violated[z] \in Nat /\ Position(z) \in Nat
      BY <1>2, <1>3
    <2> QED
      BY <2>1 DEF RanksBefore
  <1>6. \A x, y \in S : x = y \/ RanksBefore(violated, x, y) \/ RanksBefore(violated, y, x)
    <2> TAKE x, y \in S
    <2>1. /\ Weight({x}) \in Nat /\ violated[x] \in Nat /\ Position(x) \in Nat
          /\ Weight({y}) \in Nat /\ violated[y] \in Nat /\ Position(y) \in Nat
          /\ Position(x) = Position(y) => x = y
      BY <1>2, <1>3, PositionsDiffer
    <2> QED
      BY <2>1 DEF RanksBefore
  <1> QED
    BY <1>1, <1>4, <1>5, <1>6 DEF StrictlyOrders, before

(* The list of the most frequent failures is the top of the ranking.       *)
FailedOf(violated) == {id \in Criteria : violated[id] > 0}

IsTop(top, violated) ==
  /\ Len(top) \in Nat /\ DOMAIN top = 1 .. Len(top)
  /\ \A n \in DOMAIN top : top[n] \in FailedOf(violated)
  /\ \A n \in DOMAIN top : \A id \in Criteria \ {top[m] : m \in 1 .. n} :
        \/ violated[top[n]] > violated[id]
        \/ violated[top[n]] = violated[id] /\ Weight({top[n]}) >= Weight({id})
  /\ Len(top) < DEFAULT_TOP_FAILURES => {top[n] : n \in DOMAIN top} = FailedOf(violated)

LEMMA TopIsTop ==
  ASSUME NEW violated \in [Criteria -> Nat]
  PROVE  IsTop(TopFailures(violated), violated)
  <1> DEFINE top == TopFailures(violated)
  <1> USE DEF IsTop
  <1> DEFINE failed == FailedOf(violated)
             before == {p \in failed \X failed : RanksBefore(violated, p[1], p[2])}
             Rank(id) == RankBy(before, failed, id)
             k == Cardinality(failed)
             m == FSets!Min({k, DEFAULT_TOP_FAILURES})
  <1>1. failed \in SUBSET Criteria /\ IsFiniteSet(failed)
    <2>1. IsFiniteSet(Criteria)
      BY CriteriaCounted, FS_Union DEF Criteria
    <2>2. failed \in SUBSET Criteria
      BY DEF FailedOf
    <2> QED
      BY <2>1, <2>2, FS_Subset
  <1>2. StrictlyOrders(before, failed)
    <2> QED
      BY <1>1, RankingOrders
  <1>3. /\ k \in Nat
        /\ \A x \in failed : Rank(x) \in 1 .. k
        /\ \A x, y \in failed : <<x, y>> \in before => Rank(x) < Rank(y)
        /\ \A n \in 1 .. k : \E x \in failed : Rank(x) = n
    <2> HIDE DEF before, failed
    <2> QED
      BY <1>1, <1>2, EveryRankTaken
  <1>4. m \in Nat /\ m <= k /\ m <= 5 /\ (m < 5 => m = k)
    <2> DEFINE S == {k, 5}
    <2>1. \E x \in S : \A y \in S : x <= y
      BY <1>3
    <2>2. m = CHOOSE x \in S : \A y \in S : x <= y
      BY DEF FSets!Min, DEFAULT_TOP_FAILURES
    <2> HIDE DEF m, k
    <2>3. m \in S /\ \A y \in S : m <= y
      <3> HIDE DEF S
      <3> QED
        BY <2>1, <2>2
    <2> QED
      BY <1>3, <2>3
  <1>5. \A x \in failed : Cardinality({o \in failed : RanksBefore(violated, o, x)}) + 1 = Rank(x)
    <2> TAKE x \in failed
    <2>1. {o \in failed : RanksBefore(violated, o, x)} = {o \in failed : <<o, x>> \in before}
      OBVIOUS
    <2> QED
      BY <2>1 DEF RankBy
  <1>6. top = [n \in 1 .. m |-> CHOOSE id \in failed :
                  Cardinality({o \in failed : RanksBefore(violated, o, id)}) + 1 = n]
    BY DEF TopFailures, FailedOf
  <1> HIDE DEF before, k, m, failed, top
  <1>7. ASSUME NEW n \in 1 .. m PROVE top[n] \in failed /\ Rank(top[n]) = n
    <2>1. n \in 1 .. k
      BY <1>3, <1>4
    <2>2. PICK x \in failed : Rank(x) = n
      BY <1>3, <2>1
    <2> DEFINE Has(id) == Cardinality({o \in failed : RanksBefore(violated, o, id)}) + 1 = n
    <2>3. top[n] = CHOOSE id \in failed : Has(id)
      BY <1>6
    <2>4. \A id \in failed : Has(id) <=> Rank(id) = n
      BY <1>5
    <2> HIDE DEF Has, Rank
    <2>5. top[n] \in failed /\ Has(top[n])
      BY <2>2, <2>3, <2>4
    <2> QED
      BY <2>4, <2>5
  <1>8. DOMAIN top = 1 .. m /\ Len(top) = m
    <2>1. DOMAIN top = 1 .. m
      BY <1>6
    <2>3. top = [n \in 1 .. m |-> top[n]]
      BY <1>6
    <2> HIDE DEF Rank
    <2>2. top \in Seq(failed)
      BY <1>4, <1>7, <2>1, <2>3
    <2> QED
      BY <1>4, <2>1, <2>2
  <1>9. \A x, y \in failed : Rank(x) = Rank(y) => x = y
    <2> HIDE DEF Rank
    <2> TAKE x, y \in failed
    <2>1. Rank(x) \in 1 .. k /\ Rank(y) \in 1 .. k
      BY <1>3
    <2>2. x = y \/ Rank(x) < Rank(y) \/ Rank(y) < Rank(x)
      BY <1>2, <1>3 DEF StrictlyOrders
    <2> QED
      BY <1>3, <2>1, <2>2
  <1>10. \A x, y \in failed : <<x, y>> \in before <=> RanksBefore(violated, x, y)
    BY DEF before
  <1> HIDE DEF Rank
  <1>11. ASSUME NEW n \in 1 .. m, NEW id \in Criteria \ {top[l] : l \in 1 .. n}
         PROVE  \/ violated[top[n]] > violated[id]
                \/ violated[top[n]] = violated[id] /\ Weight({top[n]}) >= Weight({id})
    <2>1. top[n] \in failed /\ Rank(top[n]) = n /\ id # top[n]
      BY <1>7
    <2>2. CASE id \notin failed
      <3>1. violated[id] \in Nat /\ violated[top[n]] \in Nat /\ violated[top[n]] > 0
            /\ ~(violated[id] > 0)
        BY <1>1, <2>1, <2>2 DEF failed, FailedOf
      <3> QED
        BY <3>1
    <2>3. CASE id \in failed
      <3>1. ~RanksBefore(violated, id, top[n])
        <4> SUFFICES ASSUME RanksBefore(violated, id, top[n]) PROVE FALSE
          OBVIOUS
        <4>1. Rank(id) < n /\ Rank(id) \in 1 .. k
          BY <1>3, <1>10, <2>1, <2>3
        <4>2. Rank(id) \in 1 .. n /\ Rank(id) \in 1 .. m
          BY <1>3, <1>4, <4>1
        <4>3. top[Rank(id)] \in failed /\ Rank(top[Rank(id)]) = Rank(id)
          BY <1>7, <4>2
        <4>4. top[Rank(id)] = id
          BY <1>9, <2>3, <4>3
        <4> QED
          BY <4>2, <4>4
      <3>2. RanksBefore(violated, top[n], id)
        BY <1>2, <1>10, <2>1, <2>3, <3>1 DEF StrictlyOrders
      <3>3. Weight({top[n]}) \in Nat /\ Weight({id}) \in Nat
        BY <1>1, <2>1, WeightBounds
      <3> QED
        BY <3>2, <3>3 DEF RanksBefore
    <2> QED
      BY <2>2, <2>3
  <1>12. ASSUME m < 5 PROVE {top[n] : n \in 1 .. m} = failed
    <2>1. m = k
      BY <1>4, <1>12
    <2>2. ASSUME NEW x \in failed PROVE \E n \in 1 .. m : top[n] = x
      <3>1. Rank(x) \in 1 .. m
        BY <1>3, <2>1
      <3>2. top[Rank(x)] \in failed /\ Rank(top[Rank(x)]) = Rank(x)
        BY <1>7, <3>1
      <3> QED
        BY <1>9, <3>1, <3>2
    <2> QED
      BY <1>7, <2>2
  <1> QED
    BY <1>4, <1>7, <1>8, <1>11, <1>12 DEF DEFAULT_TOP_FAILURES, failed, top

(* What an audit says of itself.                                           *)
Coherent(a) ==
  /\ a.score \in 0 .. 1000
  /\ a.failed \in SUBSET Criteria
  /\ \A id \in Criteria : id \in a.failed <=> a.criteria[id].status = "violates"
  /\ a.severity \in {"none", "minor", "major", "critical"}
  /\ a.severity = "critical" => Critical \cap a.failed # {}
  /\ a.severity = "major" => Major \cap a.failed # {}
  /\ a.severity = "minor" => Minor \cap a.failed # {}

LEMMA AuditIsCoherent ==
  ASSUME NEW c, NEW f
  PROVE  Coherent(Audit(c, f))
  <1> DEFINE a == Audit(c, f)
  <1> DEFINE findings == Findings(c, f)
  <1>1. /\ a.score = Score(findings) /\ a.severity = OverallSeverity(findings)
        /\ a.failed = With(findings, "violates") /\ a.criteria = findings
    BY DEF Audit
  <1> HIDE DEF findings, a
  <1>2. a.failed \in SUBSET Criteria
    BY <1>1 DEF With
  <1>3. \A id \in Criteria : id \in a.failed <=> a.criteria[id].status = "violates"
    BY <1>1 DEF With
  <1>4. /\ a.severity \in {"none", "minor", "major", "critical"}
        /\ a.severity = "critical" => Critical \cap a.failed # {}
        /\ a.severity = "major" => Major \cap a.failed # {}
        /\ a.severity = "minor" => a.failed # {} /\ a.failed \cap (Major \cup Critical) = {}
    BY <1>1 DEF OverallSeverity
  <1>5. a.severity = "minor" => Minor \cap a.failed # {}
    BY <1>2, <1>4 DEF Criteria
  <1> QED
    BY <1>1, <1>2, <1>3, <1>4, <1>5, ScoreIsClean DEF Coherent, a

(* Among whole numbers of a bounded range there is a least and a greatest. *)
LEMMA ExtremesOf ==
  ASSUME NEW n \in Nat, NEW top \in Nat, NEW val \in [1 .. n -> 0 .. top], n # 0
  PROVE  \E i, j \in 1 .. n : \A x \in 1 .. n : val[i] <= val[x] /\ val[x] <= val[j]
  <1> DEFINE T == {val[x] + 1 : x \in 1 .. n}
             b == top + 1
  <1>1. b \in Nat /\ T \in SUBSET (1 .. b) /\ T # {}
    <2>1. \A x \in 1 .. n : val[x] + 1 \in 1 .. b
      OBVIOUS
    <2>2. val[1] + 1 \in T
      OBVIOUS
    <2> QED
      BY <2>1, <2>2
  <1>2. (\E l \in T : \A y \in T : l <= y) /\ (\E h \in T : \A y \in T : y <= h)
    <2> HIDE DEF T, b
    <2> QED
      BY <1>1, LeastExists, GreatestExists
  <1>3. PICK l \in T : \A y \in T : l <= y
    BY <1>2
  <1>4. PICK h \in T : \A y \in T : y <= h
    BY <1>2
  <1>5. PICK i \in 1 .. n : l = val[i] + 1
    BY <1>3
  <1>6. PICK j \in 1 .. n : h = val[j] + 1
    BY <1>4
  <1>7. ASSUME NEW x \in 1 .. n PROVE val[i] <= val[x] /\ val[x] <= val[j]
    <2>1. l <= val[x] + 1 /\ val[x] + 1 <= h
      BY <1>3, <1>4
    <2>2. val[x] \in Int /\ val[i] \in Int /\ val[j] \in Int
      OBVIOUS
    <2> HIDE DEF T, b
    <2> QED
      BY <1>5, <1>6, <2>1, <2>2
  <1> QED
    BY <1>7

(* The average of the scores lies among them.                              *)
LEMMA AverageAmong ==
  ASSUME NEW n \in Nat, n # 0, NEW run, Len(run) = n, DOMAIN run = 1 .. n, run # << >>,
         NEW top \in Nat, \A i \in DOMAIN run : run[i].audit.score \in 0 .. top
  PROVE  \E i, j \in DOMAIN run :
            /\ run[i].audit.score <= BuildReport(run).average_score
            /\ BuildReport(run).average_score <= run[j].audit.score
  <1> DEFINE S == DOMAIN run
             val == [i \in S |-> run[i].audit.score]
             sum == SumOver(S, val)
             Total(it) == [T \in SUBSET S |->
                IF T = {} THEN 0
                ELSE run[CHOOSE x \in T : TRUE].audit.score + it[T \ {CHOOSE x \in T : TRUE}]]
             Sum(it) == [T \in SUBSET S |->
                IF T = {} THEN 0
                ELSE val[CHOOSE x \in T : TRUE] + it[T \ {CHOOSE x \in T : TRUE}]]
  <1>1. BuildReport(run).average_score = Rounded(sum, n)
    <2>1. FSets!MapThenSumSet(LAMBDA i : run[i].audit.score, S) = (CHOOSE it : it = Total(it))[S]
      BY DEF FSets!MapThenSumSet, FSets!MapThenFoldSet
    <2>2. \A it : Total(it) = Sum(it)
      <3> TAKE it
      <3>1. ASSUME NEW T \in SUBSET S PROVE Total(it)[T] = Sum(it)[T]
        <4>1. CASE T = {}
          BY <4>1
        <4>2. CASE T # {}
          <5> DEFINE x == CHOOSE x \in T : TRUE
          <5>1. x \in S
            BY <4>2
          <5>2. run[x].audit.score = val[x]
            BY <5>1
          <5> HIDE DEF val
          <5> QED
            BY <5>2
        <4> QED
          BY <4>1, <4>2
      <3>2. DOMAIN Total(it) = SUBSET S /\ DOMAIN Sum(it) = SUBSET S
        OBVIOUS
      <3> QED
        BY <3>1
    <2>3. sum = (CHOOSE it : it = Sum(it))[S]
      BY DEF SumOver
    <2> HIDE DEF Total, Sum, sum, val
    <2>4. (CHOOSE it : it = Total(it)) = (CHOOSE it : it = Sum(it))
      BY <2>2
    <2>5. BuildReport(run).average_score =
             Rounded(FSets!MapThenSumSet(LAMBDA i : run[i].audit.score, S), n)
      BY DEF BuildReport
    <2> QED
      BY <2>1, <2>3, <2>4, <2>5
  <1> HIDE DEF Total, Sum
  <1>2. IsFiniteSet(S) /\ Cardinality(S) = n
    BY FS_Interval
  <1>3. val \in [1 .. n -> 0 .. top] /\ val \in [S -> Int] /\ S = 1 .. n
    OBVIOUS
  <1> HIDE DEF sum
  <1>4. PICK i \in 1 .. n, j \in 1 .. n :
           \A x \in 1 .. n : val[i] <= val[x] /\ val[x] <= val[j]
    <2> HIDE DEF val
    <2> QED
      BY <1>3, ExtremesOf
  <1> DEFINE low == val[i]
             high == val[j]
  <1>5. low \in Int /\ high \in Int /\ Within(val, S, low, high)
    <2> HIDE DEF val, S
    <2> QED
      BY <1>3, <1>4 DEF Within
  <1>6. low = run[i].audit.score /\ high = run[j].audit.score /\ i \in S /\ j \in S
    OBVIOUS
  <1>7. sum \in Int /\ low * n <= sum /\ sum <= high * n
    <2> HIDE DEF S, val, low, high
    <2>1. /\ SumOver(S, val) \in Int
          /\ low * Cardinality(S) <= SumOver(S, val)
          /\ SumOver(S, val) <= high * Cardinality(S)
      BY <1>2, <1>3, <1>5, SumOverBetween
    <2> QED
      BY <1>2, <2>1 DEF sum
  <1> HIDE DEF low, high, val
  <1>8. low <= Rounded(sum, n) /\ Rounded(sum, n) <= high
    <2>1. n > 0
      OBVIOUS
    <2> HIDE DEF S
    <2> QED
      BY <1>5, <1>7, <2>1, RoundedBetween
  <1> QED
    BY <1>1, <1>6, <1>8

LEMMA ReportTells ==
  ASSUME NEW n \in Nat, n # 0, NEW run, Len(run) = n, DOMAIN run = 1 .. n, run # << >>,
         \A i \in DOMAIN run : \E c, f : run[i].audit = Audit(c, f)
  PROVE  Tells(BuildReport(run), run)
  <1> DEFINE report == BuildReport(run)
             top == report.most_frequent_failures
             Failing(id) == {i \in DOMAIN run : id \in run[i].audit.failed}
             violated == [id \in Criteria |-> Cardinality(Failing(id))]
  <1>1. \A i \in DOMAIN run : Coherent(run[i].audit)
    BY AuditIsCoherent
  <1>2. ASSUME NEW id \in Criteria PROVE Having(run, id, "violates") = Failing(id)
    BY <1>1 DEF Having, Coherent
  <1>3. \A id \in Criteria : report.criteria[id].failing_conversations = Failing(id)
    <2> TAKE id \in Criteria
    <2>1. report.criteria[id].failing_conversations = Having(run, id, "violates")
      BY DEF BuildReport, CriterionStats
    <2> QED
      BY <1>2, <2>1
  <1>4. ASSUME NEW i \in DOMAIN run, run[i].audit.severity # "none"
        PROVE  [critical |-> Critical, major |-> Major, minor |-> Minor, none |-> {}]
                   [run[i].audit.severity] \cap run[i].audit.failed # {}
    BY <1>1, <1>4 DEF Coherent
  <1>5. \E i, j \in DOMAIN run :
           /\ run[i].audit.score <= report.average_score
           /\ report.average_score <= run[j].audit.score
    <2> DEFINE most == 1000
    <2>1. most \in Nat /\ \A i \in DOMAIN run : run[i].audit.score \in 0 .. most
      BY <1>1 DEF Coherent
    <2> HIDE DEF most
    <2> QED
      BY <2>1, AverageAmong
  <1>6. top = TopFailures(violated)
    <2>1. top = TopFailures([id \in Criteria |-> Cardinality(Having(run, id, "violates"))])
      BY DEF BuildReport
    <2>2. [id \in Criteria |-> Cardinality(Having(run, id, "violates"))] = violated
      BY <1>2
    <2> QED
      BY <2>1, <2>2
  <1>7. \A id \in Criteria : IsFiniteSet(Failing(id)) /\ Cardinality(Failing(id)) \in Nat
    <2> TAKE id \in Criteria
    <2>1. Failing(id) \in SUBSET (1 .. n) /\ IsFiniteSet(1 .. n)
      BY FS_Interval
    <2> HIDE DEF Failing
    <2> QED
      BY <2>1, FS_Subset, FS_CardinalityType
  <1>8. violated \in [Criteria -> Nat]
    BY <1>7
  <1>9. \A id \in Criteria : violated[id] = Cardinality(Failing(id))
    OBVIOUS
  <1> HIDE DEF top, report, violated
  <1>10. IsTop(top, violated)
    BY <1>6, <1>8, TopIsTop
  <1>11. ASSUME NEW k \in DOMAIN top, NEW id \in Criteria \ {top[m] : m \in 1 .. k}
         PROVE  \/ Cardinality(Failing(top[k])) > Cardinality(Failing(id))
                \/ /\ Cardinality(Failing(top[k])) = Cardinality(Failing(id))
                   /\ Weight({top[k]}) >= Weight({id})
    <2> HIDE DEF Failing
    <2>1. top[k] \in Criteria
      BY <1>10 DEF FailedOf, IsTop
    <2> QED
      BY <1>9, <1>10, <2>1 DEF IsTop
  <1>12. FailedOf(violated) = UNION {run[i].audit.failed : i \in DOMAIN run}
    <2>1. ASSUME NEW id \in Criteria
          PROVE  id \in FailedOf(violated) <=> \E i \in DOMAIN run : id \in run[i].audit.failed
      <3>1. violated[id] > 0 <=> Failing(id) # {}
        <4> HIDE DEF Failing
        <4> QED
          BY <1>7, <1>9, FS_EmptySet
      <3> QED
        BY <3>1 DEF FailedOf
    <2> QED
      BY <1>1, <2>1 DEF FailedOf, Coherent
  <1> QED
    BY <1>3, <1>4, <1>5, <1>10, <1>11, <1>12 DEF Tells, IsTop, top, report

(* The report tells what the audits of the run say: its failures, the      *)
(* severities, the average and the ranking of the most frequent ones.      *)
THEOREM ReportHolds == Spec => []ReportTellsTheAudits
  <1>1. AuditsInv => ReportTellsTheAudits
    <2> DEFINE run == Run([i \in DOMAIN audits |-> "call"])
    <2> SUFFICES ASSUME AuditsInv, Finished PROVE Tells(BuildReport(run), run)
      BY DEF ReportTellsTheAudits
    <2>1. DOMAIN run = 1 .. MaxAudits /\ MaxAudits \in Nat /\ MaxAudits # 0
      BY FinishedAudits, AuditBound DEF Run
    <2>2. \A i \in DOMAIN run : \E c, f : run[i].audit = Audit(c, f)
      BY FinishedAudits DEF Run
    <2>3. run = [i \in 1 .. MaxAudits |-> run[i]]
      BY <2>1 DEF Run
    <2> HIDE DEF run
    <2>4. run \in Seq({run[i] : i \in 1 .. MaxAudits})
      BY <2>1, <2>3
    <2>5. Len(run) = MaxAudits /\ run # << >>
      BY <2>1, <2>4
    <2> QED
      BY <2>1, <2>2, <2>5, ReportTells
  <1> QED
    BY <1>1, InitAudits, NextAudits, PTL DEF Spec
-----------------------------------------------------------------------------
(* The committed date.                                                     *)

LEMMA MentionsName ==
  ASSUME NEW m \in DateMentions
  PROVE  /\ m.ahead = Unsaid => m.month # Unsaid \/ m.weekday # Unsaid
         /\ m.ahead = Unsaid \/ m.day = Unsaid
  <1>1. NamesADay(m)
    BY DEF DateMentions
  <1> QED
    BY <1>1 DEF NamesADay

(* The day of a turn is the one that its first mention can mean.           *)
LEMMA DayOfFirstMention ==
  ASSUME NEW turn, turn.mentions \in Seq(DateMentions), NEW date \in CalendarDates
  PROVE  /\ turn.mentions = << >> => DayStated(turn, date) = NoDay
         /\ turn.mentions # << >> =>
               \A k \in Meant(turn.mentions[1], date, -13 .. 13) : DayStated(turn, date) = k
  <1> DEFINE said == turn.mentions
  <1>1. ASSUME said = << >> PROVE DayStated(turn, date) = NoDay
    <2>1. DOMAIN said = {}
      BY <1>1
    <2>2. FirstDate(said, date) = {}
      BY <2>1 DEF FirstDate
    <2> QED
      BY <2>2 DEF DayStated
  <1>2. ASSUME said # << >>, NEW k \in Meant(said[1], date, -13 .. 13)
        PROVE  DayStated(turn, date) = k
    <2>1. Len(said) \in Nat /\ Len(said) # 0 /\ DOMAIN said = 1 .. Len(said)
      BY <1>2, LenProperties, EmptySeq
    <2>2. 1 \in DOMAIN said /\ DOMAIN said \in SUBSET (Nat \ {0})
      BY <2>1
    <2> DEFINE m == said[1]
    <2>3. m \in DateMentions
      BY <2>2, ElementOfSeq, <2>1
    <2>4. m.ahead = Unsaid => m.month # Unsaid \/ m.weekday # Unsaid
      BY <2>3, MentionsName
    <2>5. k \in Int /\ Ordinal(date) \in Int
      BY OrdinalOf DEF Meant
    <2>6. k \in Meant(m, date, -13 .. 13)
      BY <1>2
    <2> HIDE DEF m
    <2> DEFINE near == -13 .. 13
    <2>7. near \in SUBSET (-13 .. 13) /\ k \in Meant(m, date, near)
      BY <2>6
    <2> HIDE DEF near
    <2>8. Resolve(m, date) = {Ordinal(date) + k}
      BY <2>4, <2>7, ResolveMeant
    <2> DEFINE o == Ordinal(date) + k
    <2>9. o - Ordinal(date) = k
      BY <2>5
    <2> HIDE DEF o
    <2>10. FirstDate(said, date) = {o}
      BY <2>2, <2>8, FirstDateIs DEF m, o
    <2>11. DayStated(turn, date) = (CHOOSE x \in {o} : TRUE) - Ordinal(date)
      BY <2>10 DEF DayStated
    <2>12. (CHOOSE x \in {o} : TRUE) = o
      OBVIOUS
    <2> QED
      BY <2>9, <2>11, <2>12
  <1> QED
    BY <1>1, <1>2

(* The committed date is the one that was said, and judged as such.        *)
THEOREM CommittedDateHolds == Spec => []CommittedDateIsTheOneSaid
  <1>1. AuditsInv => CommittedDateIsTheOneSaid
    <2> DEFINE commitment == facts.payment_commitment
               Mentions(t) == IF t = None THEN << >> ELSE call.transcript[t].mentions
               x == commitment.agent_confirmation_turn
               y == commitment.client_proposal_turn
               said == IF Mentions(x) # << >> THEN Mentions(x) ELSE Mentions(y)
    <2> SUFFICES ASSUME AuditsInv, commitment # NoCommitment, said # << >>,
                        NEW k \in Meant(said[1], call.date, -13 .. 13),
                        NEW i \in Delivered("complete")
                 PROVE  /\ audits[i].criteria["R5a"].status = "complies"
                        /\ audits[i].criteria["R5b"].status =
                              IF k \in 0 .. MAX_DAYS_TO_PAY THEN "complies" ELSE "violates"
      BY DEF CommittedDateIsTheOneSaid
    <2>1. /\ audits[i].criteria["R5a"] = DateIsConcrete(conversation, facts)
          /\ audits[i].criteria["R5b"] = DateWithinWindow(conversation, facts)
      BY CompleteAudit, CriteriaAre, ModelFindingsAre
    <2>2. call \in Calls /\ conversation = Hearing(call)
      BY DEF AuditsInv
    <2>3. call.date \in CalendarDates
      BY <2>2, CallsAreDated
    <2>4. x \in DOMAIN call.transcript \cup {None} /\ y \in DOMAIN call.transcript \cup {None}
      <3>1. Fits(facts, call.transcript)
        BY <2>2, FactsFit DEF facts
      <3> QED
        BY <3>1 DEF Fits, By
    <2>5. ASSUME NEW t \in DOMAIN call.transcript
          PROVE  /\ call.transcript[t].mentions \in Seq(DateMentions)
                 /\ conversation[t].day = DayStated(call.transcript[t], call.date)
                 /\ t # None
      <3>1. call.transcript[t].mentions \in Seq(DateMentions) /\ t # None
        BY <2>2, CallsAreTranscripts DEF None
      <3> QED
        BY <2>2, <3>1 DEF Hearing, Heard
    <2>6. k \in Int /\ k # NoDay
      <3>1. k \in -13 .. 13
        BY DEF Meant
      <3> QED
        BY <3>1, NoDayIsNoNumber
    <2> HIDE DEF commitment, x, y
    <2> DEFINE States(t) == t # None /\ conversation[t].day # NoDay
    <2>7. ASSUME NEW t \in DOMAIN call.transcript \cup {None}, Mentions(t) = << >>
          PROVE  ~States(t)
      <3>1. CASE t = None
        BY <3>1
      <3>2. CASE t \in DOMAIN call.transcript
        BY <2>3, <2>5, <2>7, <3>2, DayOfFirstMention
      <3> QED
        BY <3>1, <3>2
    <2>8. ASSUME NEW t \in DOMAIN call.transcript \cup {None}, Mentions(t) # << >>,
                 said = Mentions(t)
          PROVE  States(t) /\ conversation[t].day = k
      <3>1. t \in DOMAIN call.transcript /\ Mentions(t) = call.transcript[t].mentions
        BY <2>8
      <3> DEFINE turn == call.transcript[t]
      <3>2. turn.mentions \in Seq(DateMentions) /\ turn.mentions # << >>
            /\ k \in Meant(turn.mentions[1], call.date, -13 .. 13)
        BY <2>5, <2>8, <3>1
      <3> HIDE DEF turn
      <3>3. DayStated(turn, call.date) = k
        BY <2>3, <3>2, DayOfFirstMention
      <3> QED
        BY <2>5, <2>6, <3>1, <3>3 DEF turn
    <2> HIDE DEF Mentions, States
    <2> DEFINE turn == CommittedTurn(conversation, commitment)
    <2>9. turn = IF States(x) THEN x ELSE IF States(y) THEN y ELSE None
      BY DEF CommittedTurn, States, x, y
    <2>10. turn # None /\ conversation[turn].day = k
      <3>1. CASE Mentions(x) # << >>
        <4>1. States(x) /\ conversation[x].day = k
          BY <2>4, <2>8, <3>1
        <4> QED
          BY <2>9, <4>1 DEF States
      <3>2. CASE Mentions(x) = << >>
        <4>1. ~States(x)
          BY <2>4, <2>7, <3>2
        <4>2. States(y) /\ conversation[y].day = k
          BY <2>4, <2>8, <3>2
        <4> QED
          BY <2>9, <4>1, <4>2 DEF States
      <3> QED
        BY <3>1, <3>2
    <2>11. DateIsConcrete(conversation, facts) = Complies({turn})
      BY <2>10 DEF DateIsConcrete, commitment
    <2>12. DateWithinWindow(conversation, facts) =
              IF conversation[turn].day \in 0 .. MAX_DAYS_TO_PAY THEN Complies({turn})
              ELSE Violates({turn})
      BY <2>10 DEF DateWithinWindow, commitment
    <2> HIDE DEF turn
    <2> QED
      BY <2>1, <2>10, <2>11, <2>12 DEF Complies, Violates
  <1> QED
    BY <1>1, InitAudits, NextAudits, PTL DEF Spec
-----------------------------------------------------------------------------
(* The disclosure.                                                         *)

(* The detectors agree on who hears what in a turn.                        *)
LEMMA AmountIsHeard ==
  ASSUME NEW x \in Calls, NEW t \in DOMAIN x.transcript,
         NEW n \in Amounts, x.transcript[t].words = Spoken[n], x.transcript[t].written = {}
  PROVE  "amount" \in Hearing(x)[t].says <=> n = x.customer.amount
  <1> DEFINE turn == x.transcript[t]
  <1>1. ExtractAmounts(turn.words, turn.written) = {n}
    <2>1. n \in Nat /\ n >= MIN_AMOUNT /\ n <= 999999999
      BY AmountsCanBeSaid
    <2>2. ExtractAmounts(<<"debe">> \o Said(n) \o <<"pesos">>, {}) = {n}
      BY <2>1, SaidIsHeard
    <2>3. turn.words = <<"debe">> \o Said(n) \o <<"pesos">>
      BY DEF Spoken
    <2> QED
      BY <2>2, <2>3
  <1>2. AmountSignals(turn, x.customer)
           = {IF n = x.customer.amount THEN "amount" ELSE "otherAmount"}
    BY <1>1 DEF AmountSignals
  <1>3. "amount" \notin turn.says
    BY CallsAreTranscripts DEF Detected
  <1>4. /\ "amount" \notin DueDateSignals(turn, x.date, x.customer)
        /\ "amount" \notin DigitSignals(turn, x.customer)
        /\ "amount" \notin UnreadableSignals(turn)
    BY DEF DueDateSignals, DigitSignals, UnreadableSignals
  <1>5. Hearing(x)[t] = Heard(turn, x)
    BY DEF Hearing
  <1> HIDE DEF turn
  <1>6. Heard(turn, x).says = turn.says \cup AmountSignals(turn, x.customer)
                 \cup DueDateSignals(turn, x.date, x.customer)
                 \cup DigitSignals(turn, x.customer)
                 \cup UnreadableSignals(turn)
    BY DEF Heard
  <1>7. "amount" \in Heard(turn, x).says <=> "amount" \in AmountSignals(turn, x.customer)
    BY <1>3, <1>4, <1>6 DEF turn
  <1>8. "amount" \in AmountSignals(turn, x.customer) <=> n = x.customer.amount
    BY <1>2
  <1> QED
    BY <1>5, <1>7, <1>8

LEMMA DueDateIsHeard ==
  ASSUME NEW x \in Calls, NEW t \in DOMAIN x.transcript,
         NEW j \in DOMAIN x.transcript[t].mentions,
         x.transcript[t].mentions[j].day = x.customer.due.day,
         x.transcript[t].mentions[j].month = x.customer.due.month,
         Agrees(x.transcript[t].mentions[j].year, x.customer.due.year),
         Ordinal(x.date) - Ordinal(x.customer.due) \in -182 .. 182
  PROVE  "dueDate" \in Hearing(x)[t].says
  <1> DEFINE turn == x.transcript[t]
             m == turn.mentions[j]
             due == x.customer.due
             date == x.date
  <1>1. date \in CalendarDates /\ due \in CalendarDates
    BY CallsAreDated
  <1>2. m \in DateMentions
    <2>1. turn.mentions \in Seq(DateMentions)
      BY CallsAreTranscripts
    <2>2. j \in 1 .. Len(turn.mentions)
      BY <2>1, LenProperties
    <2> QED
      BY <2>1, <2>2, ElementOfSeq
  <1>3. m.day = due.day /\ m.month = due.month /\ Agrees(m.year, due.year)
        /\ j \in DOMAIN turn.mentions
    OBVIOUS
  <1>4. Ordinal(date) - Ordinal(due) \in -182 .. 182
    OBVIOUS
  <1>5. Hearing(x)[t] = Heard(turn, x)
    BY DEF Hearing
  <1>12. turn.mentions[j] = m
    OBVIOUS
  <1>13. date = x.date /\ due = x.customer.due
    OBVIOUS
  <1> HIDE DEF turn, m, due, date
  <1>6. m.ahead = Unsaid
    <2>1. m.day \in Int
      BY <1>1, <1>3 DEF CalendarDates
    <2> QED
      BY <1>2, <2>1, MentionsName, UnsaidIsNoNumber
  <1>7. Ordinal(date) \in Int /\ Ordinal(due) \in Int
    BY <1>1, OrdinalOf
  <1>8. Away(Ordinal(due), Ordinal(date)) <= 182
    BY <1>4, <1>7 DEF Away
  <1>9. Resolve(m, date) = {Ordinal(due)}
    BY <1>1, <1>3, <1>6, <1>8, ResolveDated
  <1>10. Ordinal(due) \in ExplicitDates(turn.mentions, date)
    <2>1. j \in {i \in DOMAIN turn.mentions : turn.mentions[i].ahead = Unsaid}
      BY <1>3, <1>6, <1>12
    <2> QED
      BY <1>9, <1>12, <2>1 DEF ExplicitDates
  <1>11. "dueDate" \in DueDateSignals(turn, date, x.customer)
    BY <1>10, <1>13 DEF DueDateSignals
  <1> QED
    BY <1>5, <1>11, <1>13 DEF Heard

(* The disclosure is heard as it was said, the amount and the due date.    *)
THEOREM DisclosureHolds == Spec => []DisclosureIsHeard
  <1>1. AuditsInv => DisclosureIsHeard
    <2> DEFINE t == facts.debt_disclosure_turn
               turn == call.transcript[t]
               due == call.customer.due
    <2> SUFFICES ASSUME AuditsInv, facts.interlocutor # "third_party", t # None,
                        NEW i \in Delivered("complete")
                 PROVE  /\ \A n \in Amounts : turn.words = Spoken[n] /\ turn.written = {} =>
                             audits[i].criteria["R4a"].status =
                                IF n = call.customer.amount THEN "complies" ELSE "violates"
                        /\ (\E j \in DOMAIN turn.mentions :
                              /\ turn.mentions[j].day = due.day /\ turn.mentions[j].month = due.month
                              /\ Agrees(turn.mentions[j].year, due.year)
                              /\ Ordinal(call.date) - Ordinal(due) \in -182 .. 182)
                           => audits[i].criteria["R4b"].status = "complies"
      BY DEF DisclosureIsHeard
    <2>1. /\ audits[i].criteria["R4a"] = DisclosureStates(conversation, facts, "amount")
          /\ audits[i].criteria["R4b"] = DisclosureStates(conversation, facts, "dueDate")
      BY CompleteAudit, CriteriaAre, ModelFindingsAre
    <2>2. call \in Calls /\ conversation = Hearing(call)
      BY DEF AuditsInv
    <2>3. t \in DOMAIN call.transcript
      <3>1. Fits(facts, call.transcript)
        BY <2>2, FactsFit DEF facts
      <3> QED
        BY <3>1 DEF Fits, By, AgentPointers
    <2>4. ASSUME NEW signal
          PROVE  DisclosureStates(conversation, facts, signal).status =
                    IF signal \in conversation[t].says THEN "complies" ELSE "violates"
      BY DEF DisclosureStates, Complies, Violates
    <2>5. ASSUME NEW n \in Amounts, turn.words = Spoken[n], turn.written = {}
          PROVE  audits[i].criteria["R4a"].status =
                    IF n = call.customer.amount THEN "complies" ELSE "violates"
      <3>1. "amount" \in conversation[t].says <=> n = call.customer.amount
        BY <2>2, <2>3, <2>5, AmountIsHeard
      <3> QED
        BY <2>1, <2>4, <3>1
    <2>6. ASSUME NEW j \in DOMAIN turn.mentions,
                 turn.mentions[j].day = due.day, turn.mentions[j].month = due.month,
                 Agrees(turn.mentions[j].year, due.year),
                 Ordinal(call.date) - Ordinal(due) \in -182 .. 182
          PROVE  audits[i].criteria["R4b"].status = "complies"
      <3>1. "dueDate" \in conversation[t].says
        BY <2>2, <2>3, <2>6, DueDateIsHeard
      <3> QED
        BY <2>1, <2>4, <3>1
    <2> QED
      BY <2>5, <2>6
  <1> QED
    BY <1>1, InitAudits, NextAudits, PTL DEF Spec
=============================================================================
