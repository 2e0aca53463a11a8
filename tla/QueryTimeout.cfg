\* A failure after the download is answered as a download timeout.
CONSTANTS
    mark = mark
    print = print
    none = none
    Clients = {"c"}
    Limit = 2
    Algs = {mark, print}
    Extractors = {mark}
    NoAlg = none
    Regions <- MCRegions
    MaxRedirects = 1
    MaxBytes = 3
    MaxChunk = 2
SPECIFICATION QuerySpec
INVARIANT TimeoutMeansDownload
