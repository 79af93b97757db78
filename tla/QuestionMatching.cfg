SPECIFICATION FairSpec
CONSTANTS
    t1 = t1  t2 = t2  w1 = w1  w2 = w2  o1 = o1  o2 = o2
    i1 = i1  i2 = i2  i3 = i3  i4 = i4  q1 = q1  a1 = a1  a2 = a2
    None = None
    Item = {i1, i2, i3, i4}
    LegacyQuestion = {q1}
    LegacyAnswer = {a1, a2}
    Place <- MCPlace
    WrittenOral <- MCWrittenOral
    Numbers <- MCNumbers
    Term <- MCTerm
    MaxErrors = 1
    MaxFailures = 1
INVARIANT OneToOne
PROPERTIES AnswersFit TextsArriveToStay UnblockedImported
