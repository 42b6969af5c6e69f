SPECIFICATION Spec
CONSTANTS
    r1 = r1
    r2 = r2
    f1 = f1
    f2 = f2
    f3 = f3
    f4 = f4
    a = a
    b = b
    v1 = v1
    v2 = v2
    v3 = v3
    tile = tile
    inside = inside
    never = never
    Requests = {r1, r2}
    Values = {v1, v2, v3, tile}
    Params <- MCParams
    Urls <- MCUrls
    Filters <- PlainFilters
    Answers <- PlainAnswers
    Rows <- MCRows
    Fixed <- MCFixed
INVARIANTS
    RestrictionsHold
