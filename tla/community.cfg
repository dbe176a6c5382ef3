\* Two people on a board of one element and two stamps; two devices, two
\* challenges and two requests; two clients of the TURN server from two
\* addresses, a quota of one, a range of two ports.
SPECIFICATION CommunitySpec
CONSTANTS
    Sockets = {s1, s2}
    Elements = {el1}
    MaxTs = 2
    SavesFail = TRUE
    Devices = {dev1, dev2}
    Users = {user1}
    Challenges = {chal1, chal2}
    Requests = {req1, req2}
    MaxCrashes = 1
    tab1 = tab1
    tab2 = tab2
    tab3 = tab3
    ann = ann
    bob = bob
    Tabs = {tab1, tab2, tab3}
    People = {ann, bob}
    AccountOf <- MCAccountOf
    Statuses = {busy}
    MaxWire = 2
    post1 = post1
    general = general
    Pages = {page1}
    Rooms = {general, offtopic}
    Posts = {post1}
    RoomOf <- MCRoomOf
    MaxEdits = 1
    MaxHandlers = 3
    c1 = c1
    c2 = c2
    ip1 = ip1
    ip2 = ip2
    Clients = {c1, c2}
    IpOf <- MCIpOf
    Allocs = {al1, al2}
    Tasks = {task1, task2}
    Peers = {peer1}
    Channels = {chan1}
    MaxTotal = 1
    MaxPerIp = 1
    Ports = 2
INVARIANTS
    CommunityTypeOK EditsAreKept SignInsAreCounted AllocationsServed
    PagesAgree PagesFollowChat
PROPERTY WhatIsWrittenStands
\* The last challenge may be decided and the last request made.
CHECK_DEADLOCK FALSE
