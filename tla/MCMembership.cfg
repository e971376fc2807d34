SPECIFICATION WorkspaceSpec
CONSTANTS
    \* a private channel: three users, two requests, a link for one user; the
    \* creator keeps chat:moderate when someone else has become the owner
    User = {u1, u2, u3}
    Creator = u1
    Moderators = {u1}
    Req = {x1, x2}
    MaxUses = 1
    UseBound = 3
    NoReq = NoReq
    \* a direct conversation: three requests, a second row after a deletion
    Peer = {p1, p2}
    Row = {x1, x2}
    Visit = {v1, v2, v3}
    NoRow = NoRow
    \* presence: two tabs of a user, a key that outlives one lost heartbeat
    Tab = {x1, x2}
    Channel = {main, side}
    Main = main
    Room = main
    Ttl = 3
    Misses = 1
    InboxCap = 2
    \* reactions: two requests at a time, and a third user
    Fan = {f1, f2, f3}
    Press = {x1, x2}
    \* posting: two bans of a user, a request
    Ban = {x1, x2}
    Post = {o1}
    \* administrators: two removals of the role at a time
    Account = {u1, u2, u3}
    FirstAdmin = u1
    Call = {x1, x2}
    \* recovery: three tokens, two requests or resets at a time
    Token = {k1, k2, k3}
    Mail = {x1, x2}
    NoToken = NoToken
SYMMETRY Symmetries
INVARIANTS
    OwnerHoldsRole
    LinkAdmitsAtMostMaxUses
    PeersMeet
    PresentUnlessDisturbed
    GhostsExpire
    ViewFollows
    FlagObserved
    ReactionsShown
    BarsObeyed
    AdministratorRemains
    LatestTokenOnce
PROPERTIES
    JoinsOnlyLiveChannel
CHECK_DEADLOCK FALSE
