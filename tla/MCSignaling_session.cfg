\* Two pages, one candidate of each peer.
SPECIFICATION FairSpec
CONSTANTS
    Pages = 2
    Candidates = 1
INVARIANTS
    CandidatesKept
PROPERTIES
    KeepsHandshake
    OfferAnswered
    AnswerConnects
CHECK_DEADLOCK FALSE
