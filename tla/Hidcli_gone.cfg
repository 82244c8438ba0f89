CONSTANTS
    PageCount = 3
    PageSize  = 2
    BootPage  = 2
    FlashSize = 6
    Images    <- MCImages
    Elfs      <- MCElfs
SPECIFICATION FairSpec
PROPERTIES CsFollowsPower
