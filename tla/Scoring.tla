------------------------------ MODULE Scoring ------------------------------
(***************************************************************************)
(* ScoringEngine.score() (clawlink_router/scoring.py) and what the router  *)
(* reads out of the agents' answers to call it.  A confidence is counted   *)
(* in parts of a point (100 points are a confidence of 1.0), a score in    *)
(* hundredths of such a part, so that all the arithmetic is exact.  The    *)
(* program computes with floats: it may round an exact tie either way.     *)
(***************************************************************************)
EXTENDS Integers, Sequences, Functions, FiniteSetsExt

CONSTANT Parts  \* the parts that a point of confidence is told in

ASSUME PartsAssumption == Parts \in Nat \ {0}

Points(n) == n * 100 * Parts
Clamp(n, low, high) == IF n < low THEN low ELSE IF n > high THEN high ELSE n

-----------------------------------------------------------------------------
(* What the agents say                                                     *)

\* decimals: the numbers with a point that follow the word "confidence".  A
\* whole number is not recognised: "confidence: 1" counts as one half.
Confidence(decimals) ==
    IF decimals = <<>> THEN 50 * Parts ELSE Clamp(Head(decimals), 0, 100 * Parts)

\* ratios: the n of every "n/100"; numbers: the words of one to three digits.
TeacherScore(ratios, numbers) ==
    LET scores == {i \in DOMAIN numbers : numbers[i] <= 100}
    IN  IF ratios # <<>> THEN Head(ratios)
        ELSE IF scores # {} THEN numbers[Min(scores)]
        ELSE 50

-----------------------------------------------------------------------------
(* The engine.  An assessment a is what one call of score() is given.      *)

\* Mutants of Blend: the weights are swapped; they do not add up to one.
BlendSwapped(teacher, student, w) == teacher * Parts * (100 - w) + student * w
BlendUnbalanced(teacher, student, w) == teacher * Parts * w + student * 100

\* The teacher's points and the student's parts, weighted by the strictness w.
Blend(teacher, student, w) == teacher * Parts * w + student * (100 - w)

TotalWeight(rubric) == SumFunction(rubric)

\* The router passes no rubric scores, so that each category counts as one
\* half and the weights cancel (the quotient is exact); a rubric without
\* positive weight is ignored.
Base(a, rubric) ==
    LET category == Blend(a.teacher, 50 * Parts, a.strictness)
    IN  IF TotalWeight(rubric) > 0
        THEN SumFunction([c \in DOMAIN rubric |-> category * rubric[c]]) \div TotalWeight(rubric)
        ELSE Blend(a.teacher, a.student, a.strictness)

Adjustment(a) == (IF a.listened THEN 200 * Parts ELSE 0) + (IF a.accepted THEN 150 * Parts ELSE 0)

Final(a, rubric) == Clamp(Base(a, rubric) + Adjustment(a), 0, Points(100))

\* Mutant of Verdicts: the score is rounded to whole points first.
VerdictsRounded(score, threshold) == {score + 50 * Parts >= Points(threshold)}

\* The verdict compares the score before it is rounded.
Verdicts(score, threshold) ==
    IF score = Points(threshold) THEN BOOLEAN ELSE {score > Points(threshold)}

\* What clients are shown: the score in hundredths of a point.
Shown(score) ==
    {h \in {score \div Parts, score \div Parts + 1} :
        2 * (score - h * Parts) \in -Parts .. Parts}
=============================================================================
