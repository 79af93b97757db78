SPECIFICATION FairSpec
CONSTANTS
    s1 = s1
    s2 = s2
    s3 = s3
    s4 = s4
    plain = plain
    joint = joint
    None = None
    Source = {s1, s2, s3, s4}
    Rank <- MCRank
    Meeting <- MCMeeting
    Joint <- MCJoint
    Gone = {s4}
    Unparseable = {}
    MaxFailures = 2
    MaxOutages = 1
    MaxDeletes = 1
INVARIANTS
    PublishedWhole
    JointSittingOnce
    NothingLost
PROPERTIES
    TriedOnce
    ImplementsArchive
    UnblockedAttempted
CHECK_DEADLOCK FALSE
