CONSTANTS
    JoinCode = {c1}
    Mount = {m1, m2}
    None = None
    MaxIds = 2
    MaxPolls = 1
    MaxClicks = 2
SPECIFICATION MountsFairSpec
 
PROPERTIES MountsConverge
