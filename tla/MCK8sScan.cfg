CONSTANTS
    n1 = n1
    n2 = n2
    n3 = n3
    g1 = g1
    Namespaces = {n1, n2, n3}
    Groups = {g1, g2, g3}
    NamespaceOf <- MCNamespaceOf
    Producers = {w1, w2}
SPECIFICATION ScanSpec
INVARIANT CompletedAccountsForAll
PROPERTY EndsInTime
CHECK_DEADLOCK FALSE
