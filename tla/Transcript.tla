------------------------------ MODULE Transcript ------------------------------
(***************************************************************************)
(* What the text detectors make of a transcript: Rubric judges turns with  *)
(* the signals, the date and the digits this module finds in them.         *)
(*                                                                         *)
(* A call is [transcript, date, customer, facts].  A turn of a transcript  *)
(* is [by, says, words, written, mentions]: says holds what the lexicon    *)
(* and the names of the customer and the product match, words its tokens,  *)
(* written its amounts in figures, mentions its dates (CallDates).  The    *)
(* customer is [amount, due, lastFour], of the record of the bank.         *)
(***************************************************************************)
EXTENDS Rubric, CallDates, SpokenNumbers

(* The signals found in the words, the figures and the dates of a turn.    *)
Detected == {"amount", "otherAmount", "dueDate", "lastFour", "otherDigits", "unreadable"}

(* The turn states the registered amount, or another one.                  *)
AmountSignals(turn, customer) ==
    {IF n = customer.amount THEN "amount" ELSE "otherAmount" :
        n \in ExtractAmounts(turn.words, turn.written)}

(* The turn states the registered due date.                                *)
DueDateSignals(turn, date, customer) ==
    IF Ordinal(customer.due) \in ExplicitDates(turn.mentions, date) THEN {"dueDate"} ELSE {}

(* Any digits, and whether they end in the registered four.                *)
DigitSignals(turn, customer) ==
    LET given == SpokenDigits(turn.words)
    IN  IF given = << >> THEN {}
        ELSE IF Len(given) >= 4 /\ SubSeq(given, Len(given) - 3, Len(given)) = customer.lastFour
        THEN {"lastFour"}
        ELSE {"otherDigits"}

(* A turn whose dates cannot be read: extract_dates raises on it.          *)
UnreadableSignals(turn) ==
    IF \E i \in DOMAIN turn.mentions : Unreadable(turn.mentions[i]) THEN {"unreadable"} ELSE {}

(* The first date of the turn, in days from the call.                      *)
DayStated(turn, date) ==
    LET stated == FirstDate(turn.mentions, date)
    IN  IF stated = {} THEN NoDay ELSE (CHOOSE o \in stated : TRUE) - Ordinal(date)

Heard(turn, call) ==
    [by |-> turn.by,
     says |-> turn.says \cup AmountSignals(turn, call.customer)
                 \cup DueDateSignals(turn, call.date, call.customer)
                 \cup DigitSignals(turn, call.customer)
                 \cup UnreadableSignals(turn),
     day |-> DayStated(turn, call.date)]

Hearing(call) == [t \in DOMAIN call.transcript |-> Heard(call.transcript[t], call)]
=============================================================================
