\* Only a Device constructor inside getDevices may fail.
CONSTANTS
    d1 = d1
    d2 = d2
    d3 = d3
    d4 = d4
    Devs <- MCDevs
    FaultyCalls = {"getType", "remove"}
    Undefined = Undefined
    segMod = segMod
    devMod = devMod
    macMod = macMod
    SegMods = {segMod}
    DevMods = {devMod}
    MacMods = {macMod}
    None = None
SYMMETRY MCSymmetry
SPECIFICATION Spec
INVARIANT NoOverwriteOfExisting
\* As in MCDeviceRegistry.cfg, the registry may really stop.
CHECK_DEADLOCK FALSE
