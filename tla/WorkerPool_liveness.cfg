SPECIFICATION FairSpec
CONSTANTS
    search = search
    ask = ask
    put = put
    putEmbed = putEmbed
    compatRead = compatRead
    Requests = {search, ask, compatRead, putEmbed}
    WriteRoutes = {putEmbed}
    Async = {ask, putEmbed}
    Mutators = {putEmbed, compatRead}
    TextSearch = {search}
    NumWorkers = 2
    Capacity = 1
    NoRequest = NoRequest
    Writer = Writer
    NoThread = NoThread
PROPERTIES
    EveryoneAnswered
    ReadsProceed
