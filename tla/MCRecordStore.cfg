SPECIFICATION FairSpec
CONSTANTS
    Containers = {"app"}
    Null = Null
    Limit = 1
    MaxEntries = 3
    IdRank <- MCIdRank
    Lines <- MCLines
    Forwarders = {f1, f2}
    Exports = {e1}
    Queries <- MCQueries
INVARIANTS
    TypeOK
    StreamsWithinList
    PagesAscend
PROPERTIES
    ExportsList
    ExportsEnd
