CONSTANTS
    Challenges = {c1, c2}
    Followed = {c1}
    Devices = {laptop, phone}
    Guests = {phone}
    Procs = {p1, p2}
    CodeMaxAttempts = 1
    MaxCrashes = 1
SPECIFICATION Spec
SYMMETRY Symmetry
INVARIANTS TypeOK OneSessionPerChallenge RefusalHolds GuessesBounded PendingTogetherOverlapped
PROPERTY ChallengesLiveOnce
