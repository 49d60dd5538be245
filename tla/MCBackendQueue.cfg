CONSTANTS
    MAX_SIZE = 4
    Message = {Dot, m1, m2}
    Dot = Dot
    NULL = NULL
SPECIFICATION Spec
PROPERTY FifoSpec
