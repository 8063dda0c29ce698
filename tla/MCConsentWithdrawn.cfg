CONSTANTS
    Phones = {p1}
    Codes = {c1}
    Verifiers = {v1}
    Votes = {w1}
    MaxSends = 1
    MaxTries = 1
    None = None
SPECIFICATION Spec
INVARIANT NoSnapshotWithoutConsent
