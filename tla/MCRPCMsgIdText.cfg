CONSTANTS
    Ints = {0, 1, 2}
    Texts = {"", "1", "a"}
SPECIFICATION Spec
INVARIANT
    HashIsValue
