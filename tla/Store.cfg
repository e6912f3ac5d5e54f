\* One process builds, and launches a container, pulls or publishes, again
\* and again; another removes layouts, and, if nothing is launched, images, at
\* any interleaving; each command may break off.
\* The image shrinks from two layers to one.
CONSTANTS
    k1 = k1
    k2 = k2
    Images = {base}
    Layouts = {app}
    Others = TRUE
    Containers = {c1}
    CLIs = {k1, k2}
    Roles <- BuilderAndRemover
    Versions = {"v1", "v2"}
    NumLayers <- TwoThenOne
    MaxLayers = 2
    Script <- WholeScript
    NumMounts = 2
    MaxContent = 1
    MaxMounts = 1
SPECIFICATION Spec
INVARIANTS TypeOK ImageIsWhole LayoutIsWhole UsedLayoutStays MountsGone
