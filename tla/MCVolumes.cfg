SPECIFICATION Spec
CONSTANTS
    N = 4
    MaxRef = 5
    Kind <- FirstThree
INVARIANTS
    MountedIsUsable
    OpenWhileMounted
PROPERTIES
    UmountReleases
    MountsAllAvailable
