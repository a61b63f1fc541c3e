------------------------------ MODULE Evaluation ------------------------------
(***************************************************************************)
(* evaluation.py: a run compared with the verdicts of a human annotator.   *)
(*                                                                         *)
(* The ground truth is a function from conversation identifiers to         *)
(* [failed, severity].  What is counted are pairs of a conversation and a  *)
(* criterion; ratios are in thousandths.                                   *)
(***************************************************************************)
EXTENDS DatasetReport

Ids(run) == {run[i].id : i \in DOMAIN run}

(* Of two audits of one conversation the later stays in the dictionary.    *)
AuditOf(run, id) == run[FSets!Max({i \in DOMAIN run : run[i].id = id})].audit

Skipped(run, truth) ==
    {id \in DOMAIN truth \cap Ids(run) : AuditOf(run, id).analysis = "partial"}
Compared(run, truth) == (DOMAIN truth \cap Ids(run)) \ Skipped(run, truth)

(* The failures the service marks in the conversations compared.           *)
Predicted(run, truth) ==
    UNION {{id} \X AuditOf(run, id).failed : id \in Compared(run, truth)}

(* A plausible bug: only the criteria the service marked are looked at.    *)
MutantReal(run, truth) ==
    UNION {{id} \X (truth[id].failed \cap AuditOf(run, id).failed) : id \in Compared(run, truth)}

(* The failures the annotator marks in them.                               *)
Real(run, truth) == UNION {{id} \X truth[id].failed : id \in Compared(run, truth)}

(* _f1: the harmonic mean of two rounded ratios.                           *)
F1(precision, recall) ==
    IF precision = NoRate \/ recall = NoRate THEN NoRate
    ELSE IF precision + recall = 0 THEN 0
    ELSE Rounded(2 * precision * recall, precision + recall)

(* compare_run with the criteria asked for.                                *)
CompareRun(run, truth, asked) ==
    LET Asked(pairs) == {pair \in pairs : pair[2] \in asked}
        predicted == Asked(Predicted(run, truth))
        real == Asked(Real(run, truth))
        tp == Cardinality(predicted \cap real)
        fp == Cardinality(predicted \ real)
        fn == Cardinality(real \ predicted)
        precision == Ratio(tp, tp + fp, 1000)
        recall == Ratio(tp, tp + fn, 1000)
    IN  [compared |-> Compared(run, truth),
         skipped_partial |-> Skipped(run, truth),
         missing_from_run |-> DOMAIN truth \ Ids(run),
         not_in_ground_truth |-> Ids(run) \ DOMAIN truth,
         exact_matches |-> Cardinality({id \in Compared(run, truth) :
                               AuditOf(run, id).failed = truth[id].failed}),
         severity_matches |-> Cardinality({id \in Compared(run, truth) :
                               AuditOf(run, id).severity = truth[id].severity}),
         true_positives |-> tp, false_positives |-> fp, false_negatives |-> fn,
         precision |-> precision, recall |-> recall, f1 |-> F1(precision, recall)]
=============================================================================
