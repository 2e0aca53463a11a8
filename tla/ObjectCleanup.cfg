\* A clean-up deletes an object that was saved after it had listed the key.
CONSTANTS
    c1 = c1
    c2 = c2
    Clients = {c1, c2}
    LastKey = 2
    PageSize = 1
    BatchSize = 1
    MaxSaves = 2
    Backends = {"aws", "gcp"}
SPECIFICATION FairSpec
PROPERTY
    CleanupSparesNew
