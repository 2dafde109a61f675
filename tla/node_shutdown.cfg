\* One connection the listener accepts, one the scheduler dials, and one
\* failed accept; Ctrl-C and Node::shutdown may come at any point.
CONSTANTS
    i1 = i1
    o1 = o1
    Inbound = {i1}
    Outbound = {o1}
    MaxAcceptErrors = 1

SPECIFICATION Spec

PROPERTY ShutdownCompletes
