\* The pages that the panel loads for one click.
SPECIFICATION FairSpec
CONSTANTS
    Pages = 3
    Candidates = 0
PROPERTIES
    ViewerControls
CHECK_DEADLOCK FALSE
