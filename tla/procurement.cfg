\* One quote that may go all the way and a rival, two requests at once.
CONSTANTS
    Quotes = {q1, q2}
    Negotiable = {q1}
    Calls = {c1, c2}
    MaxRequests = 11
SPECIFICATION Spec
SYMMETRY Symmetry
INVARIANTS
    OrdersComeFromAgreement
    
    
CHECK_DEADLOCK FALSE
