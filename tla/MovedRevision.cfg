CONSTANTS
    text = text
    other = other
    any = any
    t = t
    u = u
    article = article
    talk = talk
    user = user
    NamespaceOf <- SmallNamespaceOf
    Scopes <- SmallScopes
    Revisions = {1, 2}
    None = None
SPECIFICATION Spec
INVARIANTS RecordsAllActions
CHECK_DEADLOCK FALSE
