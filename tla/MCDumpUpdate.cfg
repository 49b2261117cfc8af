CONSTANTS
    text = text
    other = other
    any = any
    t = t
    u = u
    article = article
    talk = talk
    user = user
    NamespaceOf <- MCNamespaceOf
    Scopes <- MCScopes
    Revisions = {1, 2}
    None = None
SPECIFICATION Spec
SYMMETRY Symmetry
INVARIANTS DumpIsWiki ListedAreStored NoChangeNoRecord ReplicaIsDump FailsForCause
CHECK_DEADLOCK FALSE
