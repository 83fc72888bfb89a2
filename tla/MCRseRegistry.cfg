CONSTANTS
    i1 = i1
    i2 = i2
    n1 = n1
    n2 = n2
    Id = {i1, i2}
    Name = {n1, n2}
    Value = {v1}
    p1 = p1
    p2 = p2
    Protocol = {p1, p2}
    Reader = {r1}
    Asked <- MCAsked
    Expiration = 1
    MaxRead = 1
    NoRse = NoRse
    NoValue = NoValue
    Unset = Unset
    NotFound = NotFound
SPECIFICATION Spec
INVARIANTS TypeOK NamesAgree AnswersAreRecent
PROPERTIES DeletedIsLeftAlone
SYMMETRY Symmetric
