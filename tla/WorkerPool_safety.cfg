SPECIFICATION Spec
CONSTANTS
    search = search
    ask = ask
    put = put
    putEmbed = putEmbed
    compatRead = compatRead
    Requests = {compatRead, ask, put, putEmbed}
    WriteRoutes = {put, putEmbed}
    Async = {ask, putEmbed}
    Mutators = {put, putEmbed, compatRead}
    TextSearch = {}
    NumWorkers = 2
    Capacity = 1
    NoRequest = NoRequest
    Writer = Writer
    NoThread = NoThread
INVARIANTS
    NothingLost
PROPERTIES
    ImplementsService
