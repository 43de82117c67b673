------------------------------ MODULE Versions ------------------------------
(***************************************************************************)
(* VersionCompare of version_comparator.hpp, round by round, on two texts   *)
(* and then on the same two the other way round. A character is a digit, or *)
(* one of two others: a separator or a letter.                              *)
(***************************************************************************)
EXTENDS Integers, SequencesExt

CONSTANTS
    VersionTexts, \* the texts that are compared
    LongMax       \* the largest long: 2^63 - 1 in the code

Separator == 10   \* '.', '-' or '_'
Letter == 11

ASSUME VersionsAssumption ==
    VersionTexts \subseteq Seq(0..Letter) /\ LongMax \in Nat

VARIABLES
    left, right,  \* the arguments
    il, ir,       \* where the loop is in each
    outcome,      \* what is returned, or Undecided
    mirrored,     \* what the first of the two calls returned, or Undecided
    keepsCheck    \* the build keeps ParseLong's test of rv >= 0

versionVars == <<left, right, il, ir, outcome, mirrored, keepsCheck>>

Undecided == 2

VersionStart(l, r, kept) ==
    /\ left = l /\ right = r /\ keepsCheck = kept
    /\ il = 1 /\ ir = 1 /\ outcome = Undecided /\ mirrored = Undecided

VersionInit == \E l \in VersionTexts, r \in VersionTexts, kept \in BOOLEAN : VersionStart(l, r, kept)

-----------------------------------------------------------------------------
(* ParseLong and NextSeparator *)

\* Overflow is undefined: the builds there are wrap, and may drop the test.
AsLong(n) == ((n + LongMax + 1) % (2 * (LongMax + 1))) - (LongMax + 1)

\* Other characters are passed over; a value below 0 ends the loop, if tested.
AddDigit(acc, c, kept) ==
    IF c > 9 \/ (kept /\ acc.rv < 0) THEN acc ELSE [rv |-> AsLong(acc.rv * 10 + c), any |-> TRUE]

\* What the loop holds after the characters from start up to end.
LongRead(s, start, end, kept) ==
    LET read[n \in 0..(end - start)] ==
            IF n = 0 THEN [rv |-> 0, any |-> FALSE] ELSE AddDigit(read[n - 1], s[start + n - 1], kept)
    IN read[end - start]

\* Mutant: a part without digits counts as 0.
BugParseLong(s, start, end, kept) == LongRead(s, start, end, kept).rv

ParseLong(s, start, end, kept) ==
    LET read == LongRead(s, start, end, kept) IN IF read.any THEN read.rv ELSE -1

NextSeparator(s, start) ==
    CHOOSE i \in start..(Len(s) + 1) :
        /\ i = Len(s) + 1 \/ s[i] = Separator
        /\ \A j \in start..(i - 1) : s[j] # Separator

\* The inner loop stops at the first part from start on that is not -1, and at
\* the last one whatever it is.
NextPart(s, start, kept) ==
    LET is(i) == ParseLong(s, i, NextSeparator(s, i), kept)
        stops == {i \in start..Len(s) :
                    /\ i = start \/ s[i - 1] = Separator
                    /\ is(i) # -1 \/ NextSeparator(s, i) >= Len(s)}
        i == CHOOSE i \in stops : \A j \in stops : i <= j
    IN [is |-> is(i), at |-> NextSeparator(s, i) + 1]

(* VersionCompare *)

SameText ==
    /\ outcome = Undecided /\ il = 1 /\ ir = 1 /\ left = right
    /\ outcome' = 0
    /\ UNCHANGED <<left, right, il, ir, mirrored, keepsCheck>>

\* A text is used up.
Shorter ==
    /\ outcome = Undecided /\ left # right
    /\ il > Len(left) \/ ir > Len(right)
    /\ outcome' = IF il <= Len(left) THEN 1 ELSE IF ir <= Len(right) THEN -1 ELSE 0
    /\ UNCHANGED <<left, right, il, ir, mirrored, keepsCheck>>

CompareParts ==
    /\ outcome = Undecided /\ left # right /\ il <= Len(left) /\ ir <= Len(right)
    /\ LET l == NextPart(left, il, keepsCheck)
           r == NextPart(right, ir, keepsCheck)
       IN /\ outcome' = IF l.is < r.is THEN -1 ELSE IF l.is > r.is THEN 1 ELSE Undecided
          /\ il' = l.at /\ ir' = r.at
    /\ UNCHANGED <<left, right, mirrored, keepsCheck>>

\* The caller compares the same two texts the other way round.
Mirror ==
    /\ outcome # Undecided /\ mirrored = Undecided
    /\ mirrored' = outcome /\ outcome' = Undecided
    /\ left' = right /\ right' = left /\ il' = 1 /\ ir' = 1
    /\ UNCHANGED keepsCheck

VersionNext == SameText \/ Shorter \/ CompareParts \/ Mirror

VersionSpec == VersionInit /\ [][VersionNext]_versionVars

-----------------------------------------------------------------------------
(* What a version is: the numbers between its separators. *)

Begins(s) == {b \in 1..Len(s) : b = 1 \/ s[b - 1] = Separator}

\* The digits from start up to end, in decimal.
Decimal(s, start, end) ==
    LET number[n \in 0..(end - start)] ==
            IF n = 0 THEN 0
            ELSE LET c == s[start + n - 1] IN IF c <= 9 THEN number[n - 1] * 10 + c ELSE number[n - 1]
    IN number[end - start]

NumberAt(s, b) ==
    LET e == NextSeparator(s, b) IN IF \E i \in b..(e - 1) : s[i] <= 9 THEN Decimal(s, b, e) ELSE -1

\* The values of f, in the order of their places.
InOrder(f) ==
    [k \in 1..Cardinality(DOMAIN f) |->
        f[CHOOSE b \in DOMAIN f : Cardinality({x \in DOMAIN f : x < b}) = k - 1]]

\* The numbers, and a -1 for what follows the last of them and is none.
Parts(s) ==
    InOrder([b \in {b \in Begins(s) : NumberAt(s, b) # -1 \/ NextSeparator(s, b) >= Len(s)} |->
                NumberAt(s, b)])

Fits(s) == \A b \in Begins(s) : NumberAt(s, b) <= LongMax

\* Part by part the first difference decides; what has no further part is less.
OrderOf(p, q) ==
    LET differs == {k \in 1..Len(p) : k <= Len(q) /\ p[k] # q[k]}
    IN IF differs # {}
       THEN LET k == CHOOSE k \in differs : \A j \in differs : k <= j
            IN IF p[k] < q[k] THEN -1 ELSE 1
       ELSE IF Len(p) < Len(q) THEN -1 ELSE IF Len(p) > Len(q) THEN 1 ELSE 0

\* Versions are ordered: the same two texts the other way round give the
\* opposite answer, numbers too large for a long included, and where the
\* numbers fit the answer is the order of the numbers, so that it is transitive.
VersionOrder ==
    outcome # Undecided =>
        /\ mirrored # Undecided => outcome = -mirrored
        /\ Fits(left) /\ Fits(right) => outcome = OrderOf(Parts(left), Parts(right))
=============================================================================
