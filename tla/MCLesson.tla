------------------------------ MODULE MCLesson ------------------------------
(***************************************************************************)
(* Instances of Lesson for TLC.  The answers put scores below, at and      *)
(* above the threshold of 70: 68 points and 0.715 give 69.995 at           *)
(* strictness 43.                                                          *)
(***************************************************************************)
EXTENDS Lesson

MCRequests == {43, 120}

\* One with weight, and one without, which is as good as none.
MCRubrics == {<<3, 1>>, <<1, -1>>}

\* In half points: "confidence: 1" and 0.715.
MCStudentAnswers == {<<>>, <<143>>}

\* "70/100"; "101" and then "68".
MCTeacherAnswers ==
    {[ratios |-> <<70>>, numbers |-> <<70, 100>>], [ratios |-> <<>>, numbers |-> <<101, 68>>]}
=============================================================================
