\* Every call but device.exists may fault.
CONSTANTS
    d1 = d1
    d2 = d2
    d3 = d3
    d4 = d4
    Devs <- MCDevs
    FaultyCalls = {"getList", "getType", "load", "add", "remove",
                   "getReaderInfo", "getWriterInfo",
                   "listAvailableSegments", "listAvailableDevices",
                   "listAvailableMacros", "getPropertiesXML"}
    Undefined = Undefined
    segMod = segMod
    devMod = devMod
    macMod = macMod
    SegMods = {segMod}
    DevMods = {devMod}
    MacMods = {macMod}
    None = None
SPECIFICATION Spec
INVARIANTS
    TypeOK
    WholeRegistryMirrorsCE
    RowsOnCE
\* The registry may really stop: after a refresh whose Device constructor
\* throws, the tab can show no rows (nothing to remove) while a stale
\* devMgr.devices holds every name (every create refused).
CHECK_DEADLOCK FALSE
