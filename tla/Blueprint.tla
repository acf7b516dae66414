------------------------------ MODULE Blueprint ------------------------------
(***************************************************************************)
(* The blueprint a token is minted with: the text IMX passes on, and how   *)
(* PortraitLayer and AccessoryLayer read it.  A character is a digit or    *)
(* Separator, which stands for every other byte.  Positions count from 0.  *)
(***************************************************************************)
EXTENDS Integers, Sequences, FiniteSets, FiniteSetsExt, SequencesExt

CONSTANTS Digits,       \* digits blueprints are made of
          Separator,
          MaxPosition,  \* the largest uint8
          MaxNumber,    \* the largest uint256
          Revert        \* the outcome of a parser that reverts

ASSUME BlueprintAssumption ==
    /\ Digits \subseteq 0 .. 9 /\ Separator \notin 0 .. 9
    /\ MaxPosition \in Nat /\ MaxNumber \in Nat

Chars == Digits \cup {Separator}

isDecimal(char) == char # Separator

-----------------------------------------------------------------------------
(* PortraitLayer._parseBlueprint.                                          *)

at(a, p) == a[p + 1]

skipNonDecimal(a, offset) ==
    Min({Len(a)} \cup {p \in offset .. Len(a) - 1 : isDecimal(at(a, p))})

skipDecimal(a, offset) ==
    Min({Len(a)} \cup {p \in offset .. Len(a) - 1 : ~isDecimal(at(a, p))})

\* The number that starts at or after an offset, and the position after it;
\* 0 when nothing but separators is left.
atoi(a, offset) ==
    LET first == skipNonDecimal(a, offset)
        end == skipDecimal(a, first)
        value[p \in first .. end] == IF p = first THEN 0 ELSE 10 * value[p - 1] + at(a, p - 1)
    IN  [value |-> value[end], next |-> end]

\* Mutant of tierIsFollowed: the digit itself is enough.
tierIsThere(a, p) == p < Len(a)

\* The first digit is the tier, and another digit must follow it: the skin
\* id starts there.
tierIsFollowed(a, p) == p + 1 < Len(a) /\ isDecimal(at(a, p + 1))

\* Positions are uint8 and numbers uint256, and what overflows reverts.  A
\* position that has to become the length cannot when that is beyond uint8;
\* a number is largest when its last digit has been added.
fits(number) == number.value <= MaxNumber

parsePortrait(a) ==
    LET p == skipNonDecimal(a, 0)
        skin == atoi(a, p + 1)
        body == atoi(a, skin.next)
        eye == atoi(a, body.next)
        head == atoi(a, eye.next)
        props == atoi(a, head.next)
    IN  IF /\ Len(a) <= MaxPosition /\ tierIsFollowed(a, p)
           /\ fits(skin) /\ fits(body) /\ fits(eye) /\ fits(head) /\ fits(props)
           /\ skipNonDecimal(a, props.next) = Len(a)
        THEN [tier |-> at(a, p), skinId |-> skin.value, bodyId |-> body.value,
              eyeId |-> eye.value, headId |-> head.value, propsId |-> props.value]
        ELSE Revert

-----------------------------------------------------------------------------
(* AccessoryLayer._parseBlueprint.                                         *)

\* parsedData is allocated with this length; an index beyond it panics.
ParsedLength == 2
ACCESSORY_TYPES == 5

parseAccessory(a) ==
    LET digits == SelectSeq(a, isDecimal)
        stored == Len(digits) <= ParsedLength
        parsedData(j) == IF j < Len(digits) THEN digits[j + 1] ELSE 0
    IN  IF stored /\ {1, 2} \subseteq 0 .. ParsedLength - 1 /\ parsedData(2) < ACCESSORY_TYPES
        THEN [tier |-> parsedData(1), accessoryType |-> parsedData(2)]
        ELSE Revert
=============================================================================
