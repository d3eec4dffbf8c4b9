CONSTANTS
    Path = {p1, p2}
    None = None
    MaxShares = 2
    MaxStarts = 3
    MaxCalls = 2
    MaxClicks = 3
SPECIFICATION SharesFairSpec
 
PROPERTIES PollConverges
