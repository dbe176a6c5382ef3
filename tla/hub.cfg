\* Two messages and two passes over them; three callers of one token row; two
\* addresses, one of them with two adds under way; two moderation jobs.
SPECIFICATION HubSpec
CONSTANTS
    Messages = {msg1, msg2}
    Passes = {pass1, pass2}
    BatchSize = 2
    MaxAttempts = 1
    MaxOutages = 1
    Callers = {call1, call2, call3}
    MaxTokens = 4
    MaxLost = 1
    Tracks = {track1, track2}
    a1 = a1
    a2 = a2
    a3 = a3
    ip1 = ip1
    ip2 = ip2
    Adders = {a1, a2, a3}
    Ips = {ip1, ip2}
    IpOf <- MCIpOf
    Overlays = {overlay1}
    MaxQueue = 1
    MaxSimult = 1
    MaxUnread = 1
    Mutes = {mute1}
    Jobs = {job1, job2}
    Checks = {check1}
    Threshold = 2
    MaxWarns = 2
    MaxEdits = 2
INVARIANTS
    HubTypeOK SentOnce RefreshesAreSafe QueueWithinLimits ModerationIsCurrent
PROPERTIES MessagesSettle MuteTakesHold
\* Every message can be settled and every queue empty.
CHECK_DEADLOCK FALSE
