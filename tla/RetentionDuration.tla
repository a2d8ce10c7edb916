------------------------- MODULE RetentionDuration -------------------------
(***************************************************************************)
(* The parsing of the retention_duration setting in                        *)
(* LocalModelBackground.__init__                                           *)
(* (src/caikit/core/model_management/local_background_base.py): the       *)
(* string is matched against _timedelta_expr                               *)
(*                                                                         *)
(*   ^((\d+?)d)?((\d+?)h)?((\d+?)m)?((\d*\.?\d*?)s)?$                      *)
(*                                                                         *)
(* and every group that took part in the match is passed through float()   *)
(* into timedelta(days=, hours=, minutes=, seconds=). A string that does   *)
(* not match makes .groupdict() raise AttributeError, which __init__ turns *)
(* into the "Invalid retention_duration" error; float() of a group that    *)
(* matched but holds no digit raises ValueError, which it does not catch.  *)
(*                                                                         *)
(* The matcher is checked against the grammar of the setting as the spec   *)
(* states it, generated rather than scanned, over every string of up to    *)
(* MaxLen characters.                                                      *)
(***************************************************************************)
EXTENDS Naturals, SequencesExt

CONSTANTS
    Digits,   \* the decimal digits the strings are built from, as 1-character strings
    MaxLen,   \* longest string considered
    None      \* model value: the setting is absent / a group did not take part

ASSUME MaxLen <= 4   \* at most two fractional digits, held exactly in hundredths

VARIABLES
    config,     \* config.get("retention_duration")
    retention,  \* self._retention_duration
    state       \* "new" before __init__, "ready" after it, "raised" if it raised

vars == <<config, retention, state>>

Units == <<"d", "h", "m", "s">>           \* the groups days, hours, minutes, seconds
UnitSeconds == <<86400, 3600, 60, 1>>    \* what timedelta multiplies each by
Alphabet == Digits \cup {"."} \cup {Units[k] : k \in 1..4}
Strings == BoundedSeq(Alphabet, MaxLen)

(* A duration as timedelta holds it: whole seconds and hundredths. *)
Duration == {d \in [{"sec", "centi"} -> Nat] : d.centi < 100}
(* __init__ raising: "Invalid retention_duration", or float()'s ValueError. *)
Raised == {[raised |-> "invalid"], [raised |-> "float_error"]}

DigitValue(c) == CHOOSE v \in 0..9 : <<"0","1","2","3","4","5","6","7","8","9">>[v + 1] = c
HasDigit(n) == \E i \in DOMAIN n : n[i] \in Digits
Dots(n) == {i \in DOMAIN n : n[i] = "."}

-----------------------------------------------------------------------------
(***************************************************************************)
(* _timedelta_expr. The characters a group's number may hold: \d for days, *)
(* hours and minutes, \d and "." for seconds.                              *)
(***************************************************************************)
NumberChars(k) == IF k = 4 THEN Digits \cup {"."} ELSE Digits

(* Length of the longest prefix of s made of NumberChars(k). *)
RECURSIVE Span(_, _)
Span(s, k) == IF s # <<>> /\ Head(s) \in NumberChars(k) THEN 1 + Span(Tail(s), k) ELSE 0

(* A number group k may capture: \d+? for the first three, \d*\.?\d*? for seconds. *)
GroupNumber(k, n) == IF k = 4 THEN Cardinality(Dots(n)) <= 1 ELSE n # <<>>

(***************************************************************************)
(* re.match of _timedelta_expr on s from group k on: the set of the tuples *)
(* of what groups k..4 capture (None for a group that does not take part), *)
(* empty when there is no match. Group k takes part when a number of its   *)
(* pattern is followed by its unit letter; since no number holds a unit    *)
(* letter, skipping it then leaves that letter unmatched, so the match is  *)
(* unique. After the last group `$` requires the end of the string.        *)
(***************************************************************************)
(* Mutant: the pattern without its `$` anchor, so a matching prefix is enough. *)
RECURSIVE MatchFrom_Unanchored(_, _)
MatchFrom_Unanchored(s, k) ==
    IF k > 4 THEN {<<>>}
    ELSE LET p == Span(s, k)
             taken == p < Len(s) /\ s[p + 1] = Units[k] /\ GroupNumber(k, SubSeq(s, 1, p))
         IN  IF taken
             THEN {<<SubSeq(s, 1, p)>> \o r : r \in MatchFrom_Unanchored(SubSeq(s, p + 2, Len(s)), k + 1)}
             ELSE {<<None>> \o r : r \in MatchFrom_Unanchored(s, k + 1)}

RECURSIVE MatchFrom(_, _)
MatchFrom(s, k) ==
    IF k > 4 THEN IF s = <<>> THEN {<<>>} ELSE {}
    ELSE LET p == Span(s, k)
             taken == p < Len(s) /\ s[p + 1] = Units[k] /\ GroupNumber(k, SubSeq(s, 1, p))
         IN  IF taken
             THEN {<<SubSeq(s, 1, p)>> \o r : r \in MatchFrom(SubSeq(s, p + 2, Len(s)), k + 1)}
             ELSE {<<None>> \o r : r \in MatchFrom(s, k + 1)}

(* float() of a captured number, as whole part and hundredths. *)
IntPart(n) == IF Dots(n) = {} THEN n ELSE SubSeq(n, 1, Min(Dots(n)) - 1)
FracPart(n) == IF Dots(n) = {} THEN <<>> ELSE SubSeq(n, Min(Dots(n)) + 1, Len(n))
Whole(n) == FoldLeft(LAMBDA a, c : 10 * a + DigitValue(c), 0, IntPart(n))
Centi(n) == LET f == FracPart(n) \o <<"0", "0">> IN 10 * DigitValue(f[1]) + DigitValue(f[2])

(***************************************************************************)
(* __init__ on a retention_duration: no match raises "Invalid              *)
(* retention_duration"; a group without a digit makes float() raise;      *)
(* otherwise the sum timedelta builds from the groups that are not None.   *)
(***************************************************************************)
Parse(s) ==
    LET m == MatchFrom(s, 1)
    IN  IF m = {} THEN [raised |-> "invalid"]
        ELSE LET g == CHOOSE x \in m : TRUE
                 given == {k \in 1..4 : g[k] # None}
             IN  IF \E k \in given : ~HasDigit(g[k]) THEN [raised |-> "float_error"]
                 ELSE [sec |-> FoldFunctionOnSet(+, 0,
                                   [k \in 1..4 |-> IF k \in given THEN Whole(g[k]) * UnitSeconds[k] ELSE 0],
                                   1..4),
                       centi |-> IF 4 \in given THEN Centi(g[4]) ELSE 0]

Init ==
    /\ config \in Strings \cup {None}
    /\ retention = config
    /\ state = "new"

(* Mutant: the parse error is logged and __init__ goes on with the raw string. *)
Construct_SwallowError ==
    /\ state = "new"
    /\ LET r == IF config = None THEN None ELSE Parse(config)
       IN  retention' = IF r \in Raised THEN config ELSE r
    /\ state' = "ready"
    /\ UNCHANGED config

(* LocalModelBackground.__init__: parse the setting if there is one. *)
Construct ==
    /\ state = "new"
    /\ LET r == IF config = None THEN None ELSE Parse(config)
       IN  /\ retention' = r
           /\ state' = IF r \in Raised THEN "raised" ELSE "ready"
    /\ UNCHANGED config

Next == Construct

Spec == Init /\ [][Next]_vars

-----------------------------------------------------------------------------
(***************************************************************************)
(* Reference: the grammar of the setting (spec section 4.4),               *)
(* <days>d<hours>h<minutes>m<seconds>s with every component optional, the  *)
(* first three whole numbers and seconds a decimal number; the empty       *)
(* string is the zero duration. Each sentence is generated with its value  *)
(* in hundredths of a second.                                              *)
(***************************************************************************)
IntNumerals == {n \in BoundedSeq(Digits, MaxLen - 1) : n # <<>>}
DecNumerals == {n \in BoundedSeq(Digits \cup {"."}, MaxLen - 1) :
                    HasDigit(n) /\ Cardinality(Dots(n)) <= 1}
Component(k, n) == IF n = None THEN <<>> ELSE n \o <<Units[k]>>
Sentence(c) == Component(1, c[1]) \o Component(2, c[2]) \o Component(3, c[3]) \o Component(4, c[4])
Decompositions ==
    LET I == {None} \cup IntNumerals
    IN  {c \in I \X I \X I \X ({None} \cup DecNumerals) : Len(Sentence(c)) <= MaxLen}

(* A numeral's value in hundredths: its digits read as one integer, scaled *)
(* by the number of digits after the point.                                *)
NumeralCentis(n) ==
    LET digits == SelectSeq(n, LAMBDA ch : ch # ".")
        fraction == IF Dots(n) = {} THEN 0 ELSE Len(n) - Min(Dots(n))
    IN  FoldLeft(LAMBDA a, ch : 10 * a + DigitValue(ch), 0, digits) * 10^(2 - fraction)
Meaning(c) ==
    FoldFunctionOnSet(+, 0, [k \in 1..4 |-> IF c[k] = None THEN 0
                                            ELSE NumeralCentis(c[k]) * UnitSeconds[k]], 1..4)
Grammar == {<<Sentence(c), Meaning(c)>> : c \in Decompositions}

TypeOK ==
    /\ config \in Strings \cup {None}
    /\ state \in {"new", "ready", "raised"}
    /\ state = "new" => retention = config
    /\ state = "ready" => retention \in Duration \cup {None}
    /\ state = "raised" => retention \in Raised

(***************************************************************************)
(* __init__ accepts a retention_duration exactly when it is a sentence of  *)
(* the grammar, and then holds that sentence's duration; every other       *)
(* string makes it raise.                                                  *)
(***************************************************************************)
ParseMatchesGrammar ==
    (state # "new" /\ config # None) =>
        IF state = "ready"
        THEN <<config, 100 * retention.sec + retention.centi>> \in Grammar
        ELSE \A p \in Grammar : p[1] # config

====
