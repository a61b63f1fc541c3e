---------------------------- MODULE SpokenNumbers ----------------------------
(***************************************************************************)
(* domain/text/numbers.py: the amounts of money and the digits of a        *)
(* document in the words of a turn.                                        *)
(*                                                                         *)
(* Words are the tokens of normalize.tokenize: folded, without punctuation.*)
(***************************************************************************)
EXTENDS Integers, Sequences
Seqs == INSTANCE SequencesExt

CONSTANT Numerals  \* a token written in figures -> the sequence of its digits

(* _SMALL_NUMBERS; feminine and short forms have the value of these.       *)
SmallNumbers ==
    [un |-> 1, uno |-> 1, dos |-> 2, tres |-> 3, cuatro |-> 4, cinco |-> 5, seis |-> 6,
     siete |-> 7, ocho |-> 8, nueve |-> 9, diez |-> 10, once |-> 11, doce |-> 12, trece |-> 13,
     catorce |-> 14, quince |-> 15, dieciseis |-> 16, diecisiete |-> 17, dieciocho |-> 18,
     diecinueve |-> 19, veinte |-> 20, veintiun |-> 21, veintiuno |-> 21, veintidos |-> 22,
     veintitres |-> 23, veinticuatro |-> 24, veinticinco |-> 25, veintiseis |-> 26,
     veintisiete |-> 27, veintiocho |-> 28, veintinueve |-> 29, treinta |-> 30, cuarenta |-> 40,
     cincuenta |-> 50, sesenta |-> 60, setenta |-> 70, ochenta |-> 80, noventa |-> 90,
     cien |-> 100, ciento |-> 100, doscientos |-> 200, trescientos |-> 300,
     cuatrocientos |-> 400, quinientos |-> 500, seiscientos |-> 600, setecientos |-> 700,
     ochocientos |-> 800, novecientos |-> 900]

DigitWords ==
    [cero |-> 0, uno |-> 1, un |-> 1, dos |-> 2, tres |-> 3, cuatro |-> 4, cinco |-> 5,
     seis |-> 6, siete |-> 7, ocho |-> 8, nueve |-> 9]

Millions == {"millon", "millones"}

MIN_AMOUNT == 1000

IsNumberWord(w) == w \in DOMAIN SmallNumbers \cup {"mil"} \cup Millions

OneIfNone(n) == IF n = 0 THEN 1 ELSE n

(* A plausible bug: "mil" alone multiplies nothing.                        *)
MutantAddWord(sum, w) ==
    IF w \in DOMAIN SmallNumbers THEN [sum EXCEPT !.current = @ + SmallNumbers[w]]
    ELSE IF w = "mil" THEN [sum EXCEPT !.current = 1000 * @]
    ELSE IF w \in Millions
    THEN [total |-> sum.total + 1000000 * OneIfNone(sum.current), current |-> 0]
    ELSE sum

(* One word of _words_to_int, which passes over words it does not know.    *)
AddWord(sum, w) ==
    IF w \in DOMAIN SmallNumbers THEN [sum EXCEPT !.current = @ + SmallNumbers[w]]
    ELSE IF w = "mil" THEN [sum EXCEPT !.current = 1000 * OneIfNone(@)]
    ELSE IF w \in Millions
    THEN [total |-> sum.total + 1000000 * OneIfNone(sum.current), current |-> 0]
    ELSE sum

WordsToInt(run) ==
    LET sum == Seqs!FoldLeft(AddWord, [total |-> 0, current |-> 0], run)
    IN  sum.total + sum.current

(* A word belongs to a run if it is a number, or the "y" between two.      *)
InRun(words, i) ==
    \/ IsNumberWord(words[i])
    \/ /\ words[i] = "y" /\ i \in 2 .. Len(words) - 1
       /\ IsNumberWord(words[i - 1]) /\ IsNumberWord(words[i + 1])

(* _spoken_runs: the longest stretches of such words.  The code leaves the *)
(* "y" out of a run; here it stays, and adds nothing.                      *)
SpokenRuns(words) ==
    LET inside == {i \in DOMAIN words : InRun(words, i)}
        starts == {i \in inside : i - 1 \notin inside}
        End(i) == CHOOSE j \in inside : i <= j /\ i .. j \subseteq inside /\ j + 1 \notin inside
    IN  {SubSeq(words, i, End(i)) : i \in starts}

(* extract_amounts; written amounts are taken as the pattern finds them.   *)
ExtractAmounts(words, written) ==
    {n \in {WordsToInt(run) : run \in SpokenRuns(words)} \cup written : n >= MIN_AMOUNT}

(* extract_spoken_digits.                                                  *)
SpokenDigits(words) ==
    LET Digits(w) == IF w \in DOMAIN Numerals THEN Numerals[w]
                     ELSE IF w \in DOMAIN DigitWords THEN <<DigitWords[w]>>
                     ELSE << >>
    IN  Seqs!FlattenSeq([i \in DOMAIN words |-> Digits(words[i])])

-----------------------------------------------------------------------------
(* What the parser is compared with: how an amount below a thousand        *)
(* millions is said.                                                       *)

Word(n) == <<CHOOSE w \in DOMAIN SmallNumbers : SmallNumbers[w] = n>>

SaidBelow100(n) ==
    IF n = 0 THEN << >>
    ELSE IF n <= 30 \/ n % 10 = 0 THEN Word(n)
    ELSE Word(n - (n % 10)) \o <<"y">> \o Word(n % 10)

SaidBelow1000(n) ==
    IF n < 100 THEN SaidBelow100(n) ELSE Word(n - (n % 100)) \o SaidBelow100(n % 100)

Said(n) ==
    LET millions == n \div 1000000
        thousands == (n % 1000000) \div 1000
    IN  (IF millions = 0 THEN << >> ELSE SaidBelow1000(millions) \o <<"millones">>)
            \o (IF thousands = 0 THEN << >>
                ELSE (IF thousands = 1 THEN << >> ELSE SaidBelow1000(thousands)) \o <<"mil">>)
            \o SaidBelow1000(n % 1000)
=============================================================================
