CONSTANTS
    u = u
    v = v
    Urls = {u, v}
    Types = {s, t}
    Forms = {f}
    NoForm = NoForm
    Updates = {p, q}
    MaxRows = 2
    MaxInserts = 3
    MaxUsed = 1
    Publishable <- FormOrOne
SYMMETRY Symmetric
SPECIFICATION Spec
INVARIANTS
    TypeOK
    TablesMatchContent
    ReferencesHold
