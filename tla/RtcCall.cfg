SPECIFICATION Spec
CONSTANTS
    u1 = u1
    u2 = u2
    u3 = u3
    r1 = r1
    r2 = r2
    User = {u1, u2, u3}
    Request = {r1, r2}
    MESH_PARTICIPANT_CAP = 3
    NoUser = NoUser
SYMMETRY Symmetric
INVARIANTS
    SeatsAreCounted
    OneAnswer
    RingingHasInvitee
    NoDeadCall
    RecordingHasConsents
CHECK_DEADLOCK FALSE
