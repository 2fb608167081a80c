SPECIFICATION Spec
CONSTANTS
    Requests = {r1, r2, r3}
    Asks <- AllAsks
    Usernames = {"ann", "bob", "cat"}
    Names = {n1, n2, n3}
    Items = {"config"}
    FirstUsers <- TwoUsers
    FirstMachines <- ThreeMachines
    NoOne = NoOne
    KeyPairs = {k1, k2, k3, k4}
    Missing = Missing
    Now = 2
    u1 = u1  u2 = u2
    m1 = m1  m2 = m2  m3 = m3
    n1 = n1  n2 = n2  n3 = n3
    k1 = k1  k2 = k2  k3 = k3  k4 = k4
SYMMETRY RequestSymmetry
INVARIANTS TypeOK Isolation NamesUnique UploadMeetsRotation AuthorityIsCurrent AcceptedIsGenuine RegisteredCanSign NoOrphans AccountsInv RegistryInv
PROPERTIES OnlyOwnersChange OnlyOwnersSettle ImplementsRegistry
