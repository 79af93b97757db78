SPECIFICATION FairSpec
CONSTANTS
    q1 = q1
    q2 = q2
    None = None
    Question = {q1, q2}
    Papered = {q2}
    MaxErrors = 2
    MaxFailures = 2
INVARIANTS MarksTrue FewDuplicates
PROPERTY EventuallyIn
