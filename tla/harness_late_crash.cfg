CONSTANTS
    k1 = k1
    k2 = k2
    q1 = q1
    q2 = q2
    q3 = q3
    h1 = h1
    h2 = h2
    Kids = {k1, k2}
    Pids = {q1, q2, q3}
    Checks = {h1, h2}
    MaxInputs = 2
    NoKid = NoKid
    NoPid = NoPid
    NoConn = NoConn
    Stops = FALSE
    PromptAccept = TRUE
    PidReuse = FALSE
SPECIFICATION Spec
SYMMETRY MCSymmetry
PROPERTIES
    OwedInputsLeft
