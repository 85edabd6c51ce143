------------------------------- MODULE PriceText -------------------------------
(*****************************************************************************)
(* How a price travels from the feed to the comparison: the feed's scaled    *)
(* integer is printed as a decimal number (fetchPrice, chainlink.adapter.ts) *)
(* and read back with parseFloat (resolution.agent.ts).  A decimal number is *)
(* the record of its whole part and the digits after the point.              *)
(*****************************************************************************)
EXTENDS Integers, Sequences, SequencesExt, FiniteSetsExt

CONSTANTS
    SCALE,      \* more digits after the point than any number has
    SIG         \* significant digits that a double is sure to keep (15)

ASSUME PriceTextAssumption == {SCALE, SIG} \subseteq Nat \ {0}

Width(n) == CHOOSE k \in 1..(2 * SCALE + SIG) : n < 10 ^ k /\ (k > 1 => n >= 10 ^ (k - 1))

\* BigInt's toString, and padStart with zeros.
Digits(n) == [i \in 1..Width(n) |-> (n \div 10 ^ (Width(n) - i)) % 10]
PadStart(digits, length) == [i \in 1..(length - Len(digits)) |-> 0] \o digits

\* replace(/(\.\d{2,}?)0+$/, "$1"): trailing zeros go, two digits stay.
TrimZeros(frac) ==
    LET enough == {k \in 2..(Len(frac) - 1) : \A i \in (k + 1)..Len(frac) : frac[i] = 0}
    IN  IF enough = {} THEN frac ELSE SubSeq(frac, 1, Min(enough))

\* Mutant: a fraction printed without its leading zeros.
PrintPriceUnpadded(answer, decimals) ==
    LET raw == Max({answer, 0})
    IN  [whole |-> raw \div 10 ^ decimals,
         frac  |-> TrimZeros(Digits(raw % 10 ^ decimals))]

\* The feed's answer as text; a negative answer counts as zero.
PrintPrice(answer, decimals) ==
    LET raw == Max({answer, 0})
    IN  [whole |-> raw \div 10 ^ decimals,
         frac  |-> TrimZeros(PadStart(Digits(raw % 10 ^ decimals), decimals))]

\* The value of a text, in units of 10^-SCALE.
Exact(text) ==
    text.whole * 10 ^ SCALE
      + FoldLeft(LAMBDA n, d : 10 * n + d, 0, text.frac) * 10 ^ (SCALE - Len(text.frac))

\* The nearest number with SIG significant digits.
Rounded(n) ==
    LET unit == 10 ^ Max({Width(n) - SIG, 0})
    IN  ((n + unit \div 2) \div unit) * unit

ParseFloat(text) == Rounded(Exact(text))

Compare(operator, x, y) == CASE operator = "gt"  -> x > y
                             [] operator = "gte" -> x >= y
                             [] operator = "lt"  -> x < y
                             [] operator = "lte" -> x <= y
                             [] operator = "eq"  -> x = y
                             [] operator = "neq" -> x # y

=============================================================================
