---------------------------- MODULE DatasetReport ----------------------------
(***************************************************************************)
(* domain/report.py: the aggregate report over the audits of a run.        *)
(*                                                                         *)
(* A run is a sequence of [id, audit], the audits as Rubric delivers them; *)
(* nothing makes the identifiers of its conversations different.  Shares   *)
(* are in ten-thousandths and scores in tenths, rounded as in Rubric.      *)
(***************************************************************************)
EXTENDS Rubric
FSets == INSTANCE FiniteSetsExt

CONSTANT NoRate  \* a rate or a ratio over nothing: None

ASSUME NoRateIsNoNumber == NoRate \notin Int

DEFAULT_TOP_FAILURES == 5

Ratio(n, d, unit) == IF d = 0 THEN NoRate ELSE Rounded(unit * n, d)

(* The audits of the run, by position, where the criterion has the status. *)
Having(run, id, status) == {i \in DOMAIN run : run[i].audit.criteria[id].status = status}

(* _criterion_stats; the failing conversations by their position.          *)
CriterionStats(run, id) ==
    LET Count(status) == Cardinality(Having(run, id, status))
    IN  [complied |-> Count("complies"), violated |-> Count("violates"),
         not_applicable |-> Count("not_applicable"), undetermined |-> Count("undetermined"),
         compliance_rate |-> Ratio(Count("complies"), Count("complies") + Count("violates"), 10000),
         failing_conversations |-> Having(run, id, "violates")]

(* The identifiers in the order of their text, in which R10.a follows R1.b. *)
IdOrder ==
    <<"R1a", "R1b", "R10a", "R10b", "R2a", "R2b", "R2c", "R3a", "R3b", "R4a", "R4b", "R5a",
      "R5b", "R6a", "R6b", "R7a", "R8a", "R8b", "R8c", "R9a", "R9b">>
Position(id) == CHOOSE i \in DOMAIN IdOrder : IdOrder[i] = id

(* A plausible bug: failures of the same count go by the smaller weight.   *)
MutantRanksBefore(violated, a, b) ==
    \/ violated[a] > violated[b]
    \/ /\ violated[a] = violated[b]
       /\ \/ Weight({a}) < Weight({b})
          \/ Weight({a}) = Weight({b}) /\ Position(a) < Position(b)

(* The key of sorted: more occurrences, more weight, the identifier.       *)
RanksBefore(violated, a, b) ==
    \/ violated[a] > violated[b]
    \/ /\ violated[a] = violated[b]
       /\ \/ Weight({a}) > Weight({b})
          \/ Weight({a}) = Weight({b}) /\ Position(a) < Position(b)

(* most_frequent_failures: the identifiers at the top of the ranking.      *)
TopFailures(violated) ==
    LET failed == {id \in Criteria : violated[id] > 0}
        Rank(id) == Cardinality({o \in failed : RanksBefore(violated, o, id)}) + 1
    IN  [n \in 1 .. FSets!Min({Cardinality(failed), DEFAULT_TOP_FAILURES}) |->
            CHOOSE id \in failed : Rank(id) = n]

BuildReport(run) ==
    LET stats == [id \in Criteria |-> CriterionStats(run, id)]
        scores == FSets!MapThenSumSet(LAMBDA i : run[i].audit.score, DOMAIN run)
    IN  [total_conversations |-> Len(run),
         fully_analyzed |-> Cardinality({i \in DOMAIN run : run[i].audit.analysis = "complete"}),
         average_score |-> IF run = << >> THEN 0 ELSE Rounded(scores, Len(run)),
         severity_distribution |->
             [s \in {"none", "minor", "major", "critical"} |->
                  Cardinality({i \in DOMAIN run : run[i].audit.severity = s})],
         criteria |-> stats,
         most_frequent_failures |-> TopFailures([id \in Criteria |-> Cardinality(Having(run, id, "violates"))])]
=============================================================================
