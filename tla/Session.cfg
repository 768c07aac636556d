SPECIFICATION SSpec
CONSTANTS
    Proc = {p1, p2}
    fdbfs = fdbfs
    plugins = plugins
    forthpri = forthpri
    music = music
    Mib <- MCMibs
    PluginMibs <- MCPluginMibs
    Paths <- MCPaths
    Default <- forthpriMib
    Value = {on, off, text}
    Text = {text}
    On = on
    Off = off
    None = None
    MaxSets = 2
    MaxFailures = 1
SYMMETRY Symmetry
INVARIANTS
    TreeIsCopy
    ReportedIsStored
    FirstDirectoryLosesAllButLast
PROPERTY ImplementsMap
