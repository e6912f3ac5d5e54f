\* A detached and a foreground container use one volume, again and again, while
\* it is created and removed by hand; the image has a regular file, a link and
\* a config.json of its own at the mount point.
CONSTANTS
    v1 = v1
    detached = detached
    foreground = foreground
    Volumes = {v1}
    Launches = {detached, foreground}
    Detached = {detached}
    Uses <- OneVolume
    Config = config
    ImageFiles = {f1, link, config}
    Regular = {f1, config}
    NewFiles = {}
    MaxInodes = 3
SPECIFICATION Spec
INVARIANTS SeedIsWhole
PROPERTY WritesSurvive
