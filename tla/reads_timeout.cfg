SPECIFICATION Spec
CONSTANTS
    Docs = {a}
    MaxGets = 2
    MaxVersion = 1
INVARIANT UnknownIsTimed
