SPECIFICATION Spec
CONSTANTS
    Clients = {"a", "b"}
    Packages = {"p", "q"}
    Changing = {"q"}
    Apps = {"x", "y"}
    MaxVersion = 2
    Lists <- MCLists
    MaxLists = 2
    AppsOf <- MCAppsOf
    Owners = {"a", "b"}
    NamedPackages = {"p", "q"}
    NamedApps = {"x", "y"}
    Dummy = Dummy
    AppsIn <- MCAppsIn
    NamedGames = {"x", "y"}
    FamilyOnly = {}
    WithData = {"p", "q"}
    Pages <- MCPages
    MaxNameMessages = 1
    Members = {"m1", "m2"}
    AppIds = {"g", "h", "d", "e"}
    Dlcs <- MCDlcs
    HasInfo = {"g", "d", "e"}
    Wanted <- MCWanted
    NoMember = "nobody"
    MaxRestarts = 1
    OfferIds = {"o1", "o2"}
    FromBot = {"o1", "o2"}
    Gifts = {"o1"}
    Escrowed = {"o2"}
    Modes = {"None", "Gifts"}
    MaxPages = 2
    Items = {"i1", "i2"}
    Keys = {"k"}
    KeyOf <- MCKeyOf
    AppOfKey <- MCAppOfKey
    Tradable = {"k"}
    PageOf <- MCPageOf
    LastPage = 2
    ItemsPerTrade = 1
    OfferKeys = {"k"}
    Games = {"x", "y", "z"}
    Earned <- MCEarned
    Recent = {"z"}
    MaxGames = 2
    StartPlaytime <- MCStartPlaytime
    FirstOwned = {"x", "y"}
    MaxEvents = 1
    MaxPlays = 1
    MaxUpdates = 1
    Requests = {"r1", "r2", "r3"}
    Posts = {"r1"}
    HostOf <- MCHostOf
    Others = {"sticker"}
    MaxTokens = 3
    Calls = {"c1", "c2"}
    Codes = {"OK", "Busy", "Fail"}
    MaxRetries = 1
    JobNames = {"FriendMessages", "Other"}
    Registered = {"FriendMessages"}
    BoardFibers = {"f", "g"}
    Types = {"SteamID"}
    Sent = {"PlayGames"}
    MaxValues = 2
    MaxBoardMessages = 2
    Callers = {"f", "g"}
    QueueSize = 2
    MaxErrors = 2
    MaxRounds = 2
    Watchers = {"f", "g"}
    Urls = {"u", "v"}
    MaxStreams = 3
    MaxAttempts = 3
    MaxData = 2
    Cells = {"c", "d"}
    Askers = {"a", "b"}
    Blocking = {"b"}
    MaxQueries = 3
    Interval = 2
    MaxClock = 5
    MaxOutgoing = 1
    FreePackages = {"p", "q"}
    FreeApps = {"x"}
    MaxAdds = 3
    Accounts = {"a", "b"}
    OtherThreads = {"u"}
    HasFile = {"a"}
    Kinds = {"Bool", "BotName"}
    Values = {"b"}
    OnWords = {"on", "b"}
    OffWords = {"off"}
    BpeAccounts = {"a", "b"}
    MaxPause = 2
    Never <- MCNever
    LastDay = 5
    CloudFiles <- MCCloudFiles
    Broken = {"g"}
    MaxChanges = 2
    CloudPages <- MCCloudPages
    PageOfferIds = {"1", "2"}
    Partners = {"p"}
    TradeItems = {"i"}
    MaxTradeItems = 1
    MaxOffers = 3
    Speakers = {"f", "g"}
    Asks <- MCAsks
    MaxTexts <- MCMaxTexts
    Fibers = {"f"}
    Threads = {"r"}
    Nap = 1
    MaxTime = 1
    MaxHandlers = 2
    Names = {"a", "b"}
    Leaves <- MCLeaves
    MaxItems = 4
    MaxDepth = 3
    MessageTypes = {"Hello", "Off"}
    HeaderOf <- MCHeaderOf
    ContentOf <- MCContentOf
    Hosts <- MCHosts
    Addresses <- MCAddresses
    SetCookies <- MCSetCookies
    MaxSets = 3
    MaxRedirects = 1
    Sizes = {0, 1, 15, 16, 17, 32}
    CipherKeys = {"k", "l"}
    OurKey = "k"
    FieldValues <- MCFieldValues
    Sequences <- MCSequences
    MaxSteps = 3
    Elements <- MCElements
    ClassNames <- MCClassNames
    LowerOf <- MCLowerOf
    Strings <- MCStrings
    Digits = {"1"}
    MaxDigits = 2
    Paths <- MCPaths
INVARIANTS FrameworkTypeOK NothingIsMissed CallersAreAnswered OneAtATime CachesAreCurrent RecordsAreRight 
PROPERTY NothingGoesBack
CHECK_DEADLOCK FALSE
