------------------------------ MODULE Lesson -------------------------------
(***************************************************************************)
(* A SOLO session with what decides its verdicts: the strictness, which    *)
(* clients change while a cycle runs, the rubric it was created with, and  *)
(* the answers of the agents.  Each handler and each step of a loop is     *)
(* that of TeachingLoop; here the score is computed in place of any        *)
(* verdict, and a loop fails at the scoring only if the rubric makes it.   *)
(***************************************************************************)
EXTENDS TeachingLoop, Scoring

CONSTANTS
    PassThreshold,   \* session.pass_threshold, which no handler validates
    Requests,        \* the strictness values that clients put
    Rubrics,         \* functions from categories to weights; empty: no rubric
    Broken,          \* a rubric with a weight that is not a number
    StudentAnswers,  \* the decimals in a self-assessment
    TeacherAnswers   \* the ratios and the numbers in a teacher's feedback

ASSUME PassThresholdAssumption == PassThreshold \in Int
ASSUME RequestsAssumption == Requests \subseteq Int
ASSUME RubricsAssumption ==
    /\ Broken \notin Rubrics
    /\ \A r \in Rubrics : IsFiniteSet(DOMAIN r) /\ r \in [DOMAIN r -> Int]
ASSUME AnswersAssumption ==
    /\ StudentAnswers \subseteq Seq(Nat)
    /\ \A f \in TeacherAnswers : f.ratios \in Seq(0 .. 999) /\ f.numbers \in Seq(0 .. 999)

VARIABLES
    strictness,  \* session.strictness
    rubric,      \* session.rubric
    heard,       \* loop -> what it keeps of the student's answers of a cycle
    results      \* session.scores, each with the assessment it is the score of

lessonVars == <<vars, strictness, rubric, heard, results>>

Silence == [student |-> 0, accepted |-> FALSE]

LessonInit ==
    /\ Init
    /\ strictness \in Requests \intersect 0 .. 100
    /\ rubric \in Rubrics \union {Broken}
    /\ heard = [l \in Loops |-> Silence]
    /\ results = <<>>

-----------------------------------------------------------------------------
(* Handlers                                                                *)

\* Mutant of UpdateStrictness: the value is not clamped.
UpdateStrictnessUnclamped(w) ==
    /\ live
    /\ strictness' = w
    /\ UNCHANGED <<vars, rubric, heard, results>>

\* PUT /strictness clamps the value, and answers with the unclamped one.
UpdateStrictness(w) ==
    /\ live
    /\ strictness' = Clamp(w, 0, 100)
    /\ UNCHANGED <<vars, rubric, heard, results>>

\* The handlers that neither score nor set the strictness.
Handle ==
    /\ \/ \E m \in Messages, viaSocket \in BOOLEAN : Post(m, viaSocket)
       \/ FlushQueue
       \/ Delete
       \/ \E l \in Loops : StartTeaching(l)
    /\ UNCHANGED <<strictness, rubric, heard, results>>

-----------------------------------------------------------------------------
(* The loop                                                                *)

\* Step 4 is the student's reply to the challenge, step 5 its assessment.
Answer(l) ==
    /\ Reply(l)
    /\ \/ /\ loop[l].step = 4
          /\ \E accepted \in BOOLEAN : heard' = [heard EXCEPT ![l].accepted = accepted]
       \/ /\ loop[l].step = 5
          /\ \E decimals \in StudentAnswers :
                heard' = [heard EXCEPT ![l].student = Confidence(decimals)]
       \/ loop[l].step \notin {4, 5} /\ UNCHANGED heard
    /\ UNCHANGED <<strictness, rubric, results>>

\* Step 6 is the teacher's feedback, step 7 the scoring, which reads the
\* strictness as it is now, whatever step 1 told the teacher.
Assess(l) ==
    \E feedback \in TeacherAnswers, listened \in BOOLEAN :
        LET a == [strictness |-> strictness,
                  teacher |-> TeacherScore(feedback.ratios, feedback.numbers),
                  student |-> heard[l].student, accepted |-> heard[l].accepted,
                  listened |-> listened]
            score == Final(a, rubric)
        IN  /\ rubric # Broken
            /\ \E passed \in Verdicts(score, PassThreshold), shown \in Shown(score) :
                  /\ Score(l, passed)
                  /\ results' = Append(results, [a |-> a, shown |-> shown, passed |-> passed])
            /\ heard' = [heard EXCEPT ![l] = Silence]
            /\ UNCHANGED <<strictness, rubric>>

AssessFails(l) ==
    /\ rubric = Broken
    /\ ScoreFails(l)
    /\ heard' = [heard EXCEPT ![l] = Silence]
    /\ UNCHANGED <<strictness, rubric, results>>

LessonStep(l) ==
    \/ Begin(l) /\ UNCHANGED <<strictness, rubric, heard, results>>
    \/ Answer(l)
    \/ Assess(l)
    \/ AssessFails(l)
    \/ Fail(l) /\ heard' = [heard EXCEPT ![l] = Silence] /\ UNCHANGED <<strictness, rubric, results>>
    \/ /\ \E outcome \in Deliveries : Deliver(l, outcome)
       /\ UNCHANGED <<strictness, rubric, heard, results>>

LessonNext ==
    \/ Handle
    \/ \E w \in Requests : UpdateStrictness(w)
    \/ \E l \in Loops : LessonStep(l)

\* The fairness of TeachingLoop, of whose LoopStep each LessonStep is one.
LessonSpec == LessonInit /\ [][LessonNext]_lessonVars /\ \A l \in Loops : WF_vars(LoopStep(l))

-----------------------------------------------------------------------------
(* Properties                                                              *)

Assessments ==
    [strictness : 0 .. 100, teacher : 0 .. 999, student : 0 .. 100 * Parts,
     accepted : BOOLEAN, listened : BOOLEAN]

Heard == [student : 0 .. 100 * Parts, accepted : BOOLEAN]
Hundredths == 0 .. 10000
Results == [a : Assessments, shown : Hundredths, passed : BOOLEAN]

LessonTypeOK ==
    /\ strictness \in 0 .. 100
    /\ rubric \in Rubrics \union {Broken}
    /\ heard \in [Loops -> Heard]
    /\ results \in Seq(Results)

\* Although the verdict is taken from the unrounded score, what a client is
\* shown agrees with it: only a score shown equal to the threshold may stand
\* for either verdict.
ShownScoreDecides ==
    \A i \in DOMAIN results :
        LET r == results[i]
        IN  r.shown # 100 * PassThreshold => (r.passed <=> r.shown > 100 * PassThreshold)

\* The score lies between the two opinions that were blended, but for the
\* bonus of at most 3.5 points and the cut at 100.  (With a rubric the opinion
\* of the student is replaced by one half.)
Opinion(r) == IF TotalWeight(rubric) > 0 THEN 50 * Parts ELSE r.a.student
Between(low, n, high) == low <= n /\ n <= high
ScoreBetweenOpinions ==
    \A i \in DOMAIN results :
        LET r == results[i]
            s == r.a.teacher * Parts
            o == Opinion(r)
        IN  Between(Clamp(IF s < o THEN s ELSE o, 0, 100 * Parts) * 100 - Parts,
                    r.shown * Parts,
                    Clamp((IF s < o THEN o ELSE s) * 100 + 350 * Parts, 0, Points(100)) + Parts)

\* README.md:137 says that passing becomes harder at higher strictness.  It
\* does where the teacher gives less than the student: the same answers, with
\* the strictness raised while the cycle ran, would not have scored more.
\* Where the teacher gives more they may.
HarderIfTeacherStricter ==
    \A i \in DOMAIN results, w \in {Clamp(n, 0, 100) : n \in Requests} :
        LET a == results[i].a
        IN  a.strictness <= w /\ a.teacher * Parts <= Opinion(results[i]) =>
                Final([a EXCEPT !.strictness = w], rubric) <= Final(a, rubric)

\* A pass ends the lesson, also if messages of users were delivered before it
\* was acted on; a lesson completes by a pass or when its iterations are used
\* up, neither one earlier nor one later.
EndsByVerdict ==
    Alone =>
        LET limit == IF MaxIterations > 0 THEN MaxIterations ELSE 0
        IN  /\ Len(results) <= limit
            /\ \A i \in DOMAIN results : i < Len(results) => ~results[i].passed
            /\ live /\ status = "completed" =>
                \/ results # <<>> /\ results[Len(results)].passed
                \/ Len(results) = limit
=============================================================================
