------------------------------ MODULE Catalogue ------------------------------
(***************************************************************************)
(* The module catalogue (DLLManager.js, the DLL constructor of DLL.js):    *)
(* new DLLManager() lists the segment, device and macro modules the CE     *)
(* offers, builds one DLL per listed module, whose constructor reads its   *)
(* XML description (dll.getPropertiesXML, properties = null on a fault),   *)
(* and fills the "Add New Device" menu.  It runs once, when the page       *)
(* loads; the page keeps the object in dllMgr only if the constructor      *)
(* returns, and every menu link calls dllMgr.knownDeviceModules[i].        *)
(*                                                                         *)
(* A module is a model value of its kind; of a description only whether   *)
(* it loaded matters.  A listing that faults leaves its known...Modules    *)
(* undefined, which the display loops iterate as empty.                   *)
(***************************************************************************)
CONSTANTS
    SegMods,       \* the segment modules the CE offers
    DevMods,       \* the device modules the CE offers
    MacMods,       \* the macro modules the CE offers
    FaultyCalls,   \* the remote calls that may fault
    Undefined      \* JavaScript's undefined

CatalogueCalls == {"listAvailableSegments", "listAvailableDevices",
                   "listAvailableMacros", "getPropertiesXML"}

\* The results a remote call may return: TRUE is success.
Outcomes(call) == IF call \in FaultyCalls THEN BOOLEAN ELSE {TRUE}

VARIABLES
    catalogued,    \* new DLLManager() has run
    dllMgr,        \* the DLLManager kept by the page, or Undefined
    deviceMenu     \* the device modules the "Add New Device" menu links

catVars == <<catalogued, dllMgr, deviceMenu>>

\* What a known...Modules field may hold: the modules listed, or Undefined.
Known(S) == SUBSET S \cup {Undefined}

CatalogueTypeOK ==
    /\ catalogued \in BOOLEAN
    /\ dllMgr \in {Undefined} \cup
                  [segments : Known(SegMods), devices : Known(DevMods),
                   macros : Known(MacMods)]
    /\ deviceMenu \subseteq DevMods

CatalogueInit ==
    /\ catalogued = FALSE
    /\ dllMgr = Undefined
    /\ deviceMenu = {}

\* getAvailable...: dll.listAvailable... returns the CE's modules, or a
\* fault returns before any DLL is built.
GetAvailable(call, mods) ==
    {IF ok THEN mods ELSE Undefined : ok \in Outcomes(call)}

\* The modules a display loop visits: for (i in undefined) visits none.
Listed(k) == IF k = Undefined THEN {} ELSE k

\* The modules whose dll.getPropertiesXML may fault (properties = null).
Unloadable == IF "getPropertiesXML" \in FaultyCalls
              THEN SUBSET (SegMods \cup DevMods \cup MacMods) ELSE {{}}

\* getAvailableSegments: this.categories[modules[i].properties.cat] throws
\* on a SegmentDLL whose properties are null.
SegmentsThrow(segs, null) == Listed(segs) \cap null # {}

\* displayAvailableMacros: mod.properties.macro throws on a null one.
MacrosThrow(macs, null) == Listed(macs) \cap null # {}

\* displayAvailableDevices: the menu row is emptied, then a link appended
\* per device module, in the CE's order, until dev.properties.title
\* throws on a null one: the links built are some of the loaded modules.
DeviceLinks(devs, null) ==
    IF Listed(devs) \cap null = {} THEN {Listed(devs)}
    ELSE SUBSET (Listed(devs) \ null)

(***************************************************************************)
(* new DLLManager(): getAvailableSegments, getAvailableDevices and         *)
(* getAvailableMacros, then the device menu, then the macro menus (with    *)
(* no channel).  A throw ends the constructor and leaves dllMgr            *)
(* undefined; the menu keeps the links built before it.                    *)
(***************************************************************************)
LoadCatalogue ==
    /\ ~catalogued
    /\ catalogued' = TRUE
    /\ \E segs \in GetAvailable("listAvailableSegments", SegMods),
          devs \in GetAvailable("listAvailableDevices", DevMods),
          macs \in GetAvailable("listAvailableMacros", MacMods),
          null \in Unloadable :
        /\ IF SegmentsThrow(segs, null) THEN UNCHANGED deviceMenu
           ELSE deviceMenu' \in DeviceLinks(devs, null)
        /\ dllMgr' = IF \/ SegmentsThrow(segs, null)
                        \/ Listed(devs) \cap null # {}
                        \/ MacrosThrow(macs, null)
                     THEN Undefined
                     ELSE [segments |-> segs, devices |-> devs, macros |-> macs]

\* The device modules whose menu link opens a properties form: the link
\* evaluates dllMgr.knownDeviceModules[i], a TypeError while dllMgr is
\* undefined.
DeviceForms == IF dllMgr = Undefined THEN {} ELSE deviceMenu

=============================================================================
