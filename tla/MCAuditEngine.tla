--------------------------- MODULE MCAuditEngine ---------------------------
(***************************************************************************)
(* Calls for AuditEngine, in families: each varies the turns and the facts *)
(* one group of criteria reads and leaves the other facts at their         *)
(* defaults, so that every branch of every criterion is taken.             *)
(***************************************************************************)
EXTENDS AuditEngine

Mention(weekday, day, month, year) ==
    [weekday |-> weekday, day |-> day, month |-> month, year |-> year, ahead |-> Unsaid]
Relative(days) == [Mention(Unsaid, Unsaid, Unsaid, Unsaid) EXCEPT !.ahead = days]

CallDate == On(2026, 9, 22)
DueDate == On(2026, 9, 15)
TheCustomer == [amount |-> 300000, due |-> DueDate, lastFour |-> <<1, 3, 5, 2>>]

MCNumerals == [x \in {"1352", "24"} |-> IF x = "24" THEN <<2, 4>> ELSE <<1, 3, 5, 2>>]

(* What has to be said for a signal of Rubric, in words and figures.       *)
WordsFor(signal) ==
    CASE signal = "amount" -> <<"son", "trescientos", "mil", "pesos">>
      [] signal = "lastFour" -> <<"claro", "uno", "tres", "cinco", "dos">>
      [] signal = "otherDigits" -> <<"termina", "24">>
      [] OTHER -> << >>
Turn(by, signals, mentions) ==
    [by |-> by,
     says |-> signals \ {"amount", "otherAmount", "dueDate", "lastFour", "otherDigits"},
     words |-> IF "amount" \in signals THEN WordsFor("amount")
               ELSE IF "lastFour" \in signals THEN WordsFor("lastFour")
               ELSE IF "otherDigits" \in signals THEN WordsFor("otherDigits")
               ELSE <<"y", "bueno">>,
     written |-> IF "otherAmount" \in signals THEN {20, 250000} ELSE {},
     mentions |-> IF "dueDate" \in signals THEN mentions \o <<Mention(Unsaid, 15, 9, Unsaid)>>
                  ELSE mentions]
Agent(signals) == Turn("agent", signals, << >>)
Client(signals) == Turn("client", signals, << >>)

Nothing ==
    [interlocutor |-> "holder", interlocutor_turn |-> 0, debt_disclosure_turn |-> 0,
     payment_commitment |-> NoCommitment, benefit_request_turn |-> 0,
     benefit_offer_turn |-> 0, benefit_referral_turn |-> 0,
     escalation_request_turn |-> 0, escalation_turn |-> 0,
     payment_reported_turn |-> 0, paid_details_request_turn |-> 0,
     reflection_delay_notice_turn |-> 0, insistence_turns |-> {},
     callback_request_turn |-> 0, closing_summary_turn |-> 0, farewell_turn |-> 0,
     legal_threat_turns |-> {}, pressure_turns |-> {}]

Greeting == {"lina", "assistant", "company", "recording", "fullName"}
Good == <<Agent(Greeting \cup {"asksDigits"}), Client({"lastFour"}), Agent({}), Client({}),
          Agent({})>>
Hangup == <<Agent(Greeting), Client({}), Agent({}), Client({})>>

Call(c, f) == [transcript |-> c, date |-> CallDate, customer |-> TheCustomer, facts |-> f]

(* What the holder was asked and answered, and when the debt came up.      *)
Identity ==
    {Call(<<Agent(o), Client(a), Agent(m), Client(b), Agent({})>>,
          [Nothing EXCEPT !.interlocutor = who, !.interlocutor_turn = 2,
                          !.debt_disclosure_turn = d]) :
        o \in {{}, Greeting, {"lina", "company", "asksDigits"}},
        a \in {{}, {"otherDigits"}},
        m \in {Greeting, {"asksDigits"}, {"amount", "dueDate"}, {"otherAmount"}},
        b \in {{}, {"lastFour"}, {"otherDigits"}},
        who \in {"holder", "unidentified"},
        d \in {0, 1, 3, 5}}

(* What a third party was told, and what of it the model saw.              *)
ThirdParty ==
    {Call(<<Agent(o), Client({}), Agent(m), Client({}), Agent(e)>>,
          [Nothing EXCEPT !.interlocutor = "third_party", !.interlocutor_turn = it,
                          !.debt_disclosure_turn = d]) :
        o \in {{}, Greeting}, m \in {{}, {"amount", "dueDate"}, {"otherAmount"}},
        e \in {{}, {"product"}}, it \in {0, 2}, d \in {0, 1, 3, 5}}

(* A commitment, its two turns and the dates they state: yesterday, today, *)
(* Sunday 27, Monday 28, none, and dates that nobody can read.             *)
DatesStated ==
    {<< >>, <<Relative(-1)>>, <<Relative(0)>>, <<Mention(6, 27, Unsaid, Unsaid)>>,
     <<Mention(0, 28, 9, Unsaid)>>, <<Mention(Unsaid, 31, 4, Unsaid), Relative(1)>>,
     <<Mention(5, 0, Unsaid, Unsaid)>>}
Commitments ==
    {Call(<<Agent(Greeting), Turn("client", {}, p), Turn("agent", {}, q)>>,
          [Nothing EXCEPT !.payment_commitment =
              [client_proposal_turn |-> x, agent_confirmation_turn |-> y]]) :
        p \in DatesStated, q \in DatesStated, x \in {0, 2}, y \in {0, 1, 3}}

(* Payment dates in every form, on calls at the end of a month or a year,  *)
(* in a leap year and in an ordinary week, said by the agent or the client.*)
Near == {-12, -3, -1, 0, 4, 5, 6, 13}
Forms(d, weekday) ==
    {Mention(weekday, d.day, Unsaid, Unsaid), Mention(Unsaid, d.day, d.month, Unsaid),
     Mention(Unsaid, d.day, d.month, d.year), Mention(weekday, d.day, d.month, Unsaid),
     Mention((weekday + 1) % 7, d.day, Unsaid, Unsaid)}
DatesSaid ==
    UNION {{[Call(<<Agent(Greeting), Turn("client", {}, IF w = 2 THEN <<m>> ELSE << >>),
                    Turn("agent", {}, IF w = 3 THEN <<m>> ELSE << >>)>>,
                  [Nothing EXCEPT !.payment_commitment =
                      [client_proposal_turn |-> 2, agent_confirmation_turn |-> 3]])
              EXCEPT !.date = date] :
                m \in Forms(DayAt(date, k), (Weekday(Ordinal(date)) + k) % 7), w \in {2, 3}} :
        date \in {CallDate, On(2026, 12, 29), On(2027, 1, 3), On(2024, 2, 27), On(2026, 2, 26)},
        k \in Near}

(* Debts told in words, the registered one or another, with their dates,   *)
(* also such as lie 182 days after and before the call.                    *)
MCAmounts ==
    {1000, 1001, 1100, 2016, 21000, 30031, 100000, 101000, 300000, 999999, 1000000, 1250000,
     2001000, 21000021, 415000016}
DebtsTold ==
    {[Call(<<Agent(Greeting \cup {"asksDigits"}), Client({"lastFour"}),
             [Agent({}) EXCEPT !.words = Spoken[n], !.mentions = <<m>>]>>,
           [Nothing EXCEPT !.debt_disclosure_turn = 3])
       EXCEPT !.customer.amount = a, !.customer.due = due] :
        n \in MCAmounts, a \in {1000, 300000, 415000016},
        m \in {Mention(Unsaid, 15, 9, Unsaid), Mention(Unsaid, 20, 12, Unsaid),
                Mention(Unsaid, 20, 12, 2025)},
        due \in {DueDate, On(2026, 12, 20)}}
    \cup
    {[Call(<<Agent(Greeting \cup {"asksDigits"}), Client({"lastFour"}),
             [Agent({}) EXCEPT !.words = Spoken[300000], !.mentions = <<m>>]>>,
           [Nothing EXCEPT !.debt_disclosure_turn = 3])
       EXCEPT !.customer.due = due] :
        m \in {Mention(Unsaid, 23, 3, Unsaid), Mention(Unsaid, 24, 3, Unsaid)},
        due \in {On(2027, 3, 23), On(2026, 3, 24)}}

(* Benefits, escalation and payments reported, also at the last turn.      *)
Requests ==
    {Call(c, [Nothing EXCEPT !.benefit_request_turn = b, !.benefit_offer_turn = o,
                             !.benefit_referral_turn = r]) :
        c \in {Good, Hangup}, b \in {0, 2, 4}, o \in {0, 1, 3}, r \in {0, 3}}
    \cup
    {Call(c, [Nothing EXCEPT !.escalation_request_turn = e, !.escalation_turn = t]) :
        c \in {Good, Hangup}, e \in {0, 2, 4}, t \in {0, 3}}
    \cup
    {Call(c, [Nothing EXCEPT !.payment_reported_turn = p, !.paid_details_request_turn = a,
                             !.reflection_delay_notice_turn = n, !.insistence_turns = i]) :
        c \in {Good, Hangup}, p \in {0, 2, 4}, a \in {0, 3}, n \in {0, 3},
        i \in SUBSET {1, 3}}

(* Threats that the lexicon sees, that only the model sees, and pressure.  *)
Conduct ==
    {Call(<<Agent(o), Client({}), Agent(m)>>,
          [Nothing EXCEPT !.legal_threat_turns = l, !.pressure_turns = p,
                          !.closing_summary_turn = s, !.farewell_turn = s]) :
        o \in {Greeting, {"legal"}}, m \in {{}, {"legal"}},
        l \in SUBSET {1, 3}, p \in SUBSET {1, 3}, s \in {0, 3}}

(* Third parties and the callback; all rules kept; transcripts without a   *)
(* turn of the agent.                                                      *)
Rest ==
    {Call(Good, [Nothing EXCEPT !.interlocutor = "third_party", !.interlocutor_turn = 2,
                                !.callback_request_turn = k, !.farewell_turn = k]) :
        k \in {0, 3}}
    \cup
    {Call(c, [Nothing EXCEPT !.closing_summary_turn = 3, !.farewell_turn = 3]) :
        c \in {Good, Hangup}}
    \cup {Call(<<Client({})>>, Nothing), Call(<<Turn("system", {}, << >>)>>, Nothing)}

MCCalls == Identity \cup ThirdParty \cup Commitments \cup DatesSaid \cup DebtsTold \cup Requests \cup Conduct
               \cup Rest

(* Two audits of one call under one identifier or two, and what annotators *)
(* said of the calls, one that is not in the run included.                 *)
MCLabelings == {<<"call", "call">>, <<"call", "other">>}
Verdict(failed, severity) == [failed |-> failed, severity |-> severity]
MCTruths ==
    {[id \in {"call", "other"} |->
         IF id = "call" THEN Verdict({"R9a", "R9b"}, "minor")
         ELSE Verdict({"R8a", "R8b", "R8c", "R9a", "R9b"}, "major")],
     [id \in {"call", "absent"} |-> Verdict({"R5a", "R2b", "R9a"}, "critical")],
     [id \in {"other"} |-> Verdict({}, "none")]}
=============================================================================
