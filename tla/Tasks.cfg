SPECIFICATION TasksSpec
CONSTANTS
    alice = alice
    phone = phone
    email = email
    e1 = e1
    e2 = e2
    v1 = v1
    v2 = v2
    Person = {alice}
    Kind = {phone, email}
    Editor = {e1, e2}
    Volunteer = {v1, v2}
    None = None
    MaxTasks = 4
    MaxEdits = 4
    MaxViews = 2
SYMMETRY MCSymmetry
CHECK_DEADLOCK FALSE
INVARIANTS
    TasksMatch
PROPERTIES
    DeferralsStand
