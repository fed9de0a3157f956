\* One loop, one message of a user.  No symmetry, for the liveness property.
CONSTANTS
    Loops = {l1}
    Messages = {m1}
    UserMessages = {m1}
    NumAgents = 2
    MaxIterations = 2
    Parts = 2
    PassThreshold = 70
    Broken = Broken
    Requests <- MCRequests
    Rubrics <- MCRubrics
    StudentAnswers <- MCStudentAnswers
    TeacherAnswers <- MCTeacherAnswers
SPECIFICATION LessonSpec
INVARIANTS
    LessonTypeOK
    ShownScoreDecides
    ScoreBetweenOpinions
    HarderIfTeacherStricter
    EndsByVerdict
PROPERTIES
    LoopReturns
CHECK_DEADLOCK FALSE
