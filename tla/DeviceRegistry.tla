---------------------------- MODULE DeviceRegistry ----------------------------
(***************************************************************************)
(* The client's device registry (DeviceManager.js, Device.js) against the  *)
(* CE's device list, and the new-device path of the properties form.       *)
(*                                                                         *)
(* getDevices builds its map in the implicit global `devices' and returns  *)
(* it, so after a complete run devMgr.devices and `devices' are one        *)
(* object; addDevice writes only through `devices'.  A Device constructor  *)
(* that throws (device.getType, or getReaderInfo/getWriterInfo of its      *)
(* queryCE, faulting) ends getDevices midway: `devices' is then a new,     *)
(* partial object and devMgr.devices keeps the old one.  mgr and glob are  *)
(* the two maps, aliased whether they are one object; rows the devices     *)
(* listed on the Devices tab.                                              *)
(*                                                                         *)
(* Remote calls are synchronous: each handler is one step.  The forms     *)
(* for new devices open from the menu the module catalogue built.         *)
(***************************************************************************)
EXTENDS FiniteSets, Catalogue

CONSTANTS
    Devs,          \* device names
    None           \* no device

Calls == CatalogueCalls \cup
         {"getList", "getType", "load", "add", "exists", "remove",
          "getReaderInfo", "getWriterInfo"}

ASSUME FaultyCalls \subseteq Calls

VARIABLES
    ceDevs,     \* the devices on the CE
    started,    \* the page has run new DeviceManager()
    mgr,        \* devMgr.devices: a set of names, or Undefined
    glob,       \* the global `devices': a set of names, or Undefined
    aliased,    \* devMgr.devices and `devices' are the same object
    rows,       \* the device rows on the Devices tab
    thrown,     \* the last handler ended in an exception
    overwrote   \* a new-device submission wrote into a device on the CE

devVars == <<ceDevs, started, mgr, glob, aliased, rows, thrown, overwrote>>

vars == <<devVars, catVars>>

TypeOK ==
    /\ ceDevs \subseteq Devs
    /\ started \in BOOLEAN
    /\ mgr \in SUBSET Devs \cup {Undefined}
    /\ glob \in SUBSET Devs \cup {Undefined}
    /\ aliased \in BOOLEAN
    /\ rows \subseteq Devs
    /\ thrown \in BOOLEAN
    /\ overwrote \in BOOLEAN
    /\ CatalogueTypeOK

Init ==
    /\ ceDevs \in SUBSET Devs
    /\ started = FALSE
    /\ mgr = Undefined
    /\ glob = Undefined
    /\ aliased = FALSE
    /\ rows = {}
    /\ thrown = FALSE
    /\ overwrote = FALSE
    /\ CatalogueInit

(***************************************************************************)
(* Device.queryCE of a device that device.exists reports present: its      *)
(* settings are loaded, then getReaderInfo and getWriterInfo are read, and *)
(* a faulting one returns null whose structMem throws.  The set of whether *)
(* it throws.                                                              *)
(***************************************************************************)
QueryThrows(present) ==
    IF present /\ ({"getReaderInfo", "getWriterInfo"} \cap FaultyCalls # {})
    THEN BOOLEAN ELSE {FALSE}

\* The device whose constructor throws during getDevices, or None: its
\* device.getType faults, or the queryCE it runs (doQuery) throws.
Culprits(list) ==
    IF "getType" \in FaultyCalls \/ TRUE \in QueryThrows(TRUE)
    THEN list \cup {None} ELSE {None}

(***************************************************************************)
(* DeviceManager.getDevices over the CE's list, with the rows shown before *)
(* it runs: device.getList faulting returns undefined; else `devices' = {} *)
(* and one new Device per listed name, in the CE's order, each displayed;  *)
(* a throwing constructor ends the loop and the caller's assignment of the *)
(* result to devMgr.devices never happens.                                 *)
(***************************************************************************)
GetDevices(list, shown) ==
    \E listed \in Outcomes("getList"), bad \in Culprits(list), done \in SUBSET list :
        \/ /\ ~listed
           /\ bad = None /\ done = {}
           /\ mgr' = Undefined /\ aliased' = FALSE /\ rows' = shown
           /\ UNCHANGED <<glob, thrown>>
        \/ /\ listed /\ bad = None /\ done = list
           /\ glob' = list /\ mgr' = list /\ aliased' = TRUE /\ rows' = shown \cup list
           /\ thrown' = FALSE
        \/ /\ listed /\ bad \in list /\ done \subseteq list \ {bad}
           /\ glob' = done /\ rows' = shown \cup done /\ aliased' = FALSE
           /\ thrown' = TRUE
           /\ UNCHANGED mgr

\* Mutant: refresh without removing the old rows first.
RefreshKeepingRows(list) == GetDevices(list, rows)

\* DeviceManager.refresh: remove the device rows, then getDevices.
Refresh(list) == GetDevices(list, {})

\* new DeviceManager() when the page loads.
Startup ==
    /\ ~started
    /\ started' = TRUE
    /\ GetDevices(ceDevs, rows)
    /\ UNCHANGED <<ceDevs, overwrote>>

\* Mutant: devices[devRef.name], a property a Device lacks: the key undefined.
AddDeviceByName(d) ==
    /\ glob' = glob \cup {Undefined}
    /\ rows' = rows \cup {d}
    /\ mgr' = IF aliased THEN glob' ELSE mgr

\* DeviceManager.addDevice: devices[devRef.id] = devRef, then display.
AddDevice(d) ==
    /\ glob' = glob \cup {d}
    /\ rows' = rows \cup {d}
    /\ mgr' = IF aliased THEN glob' ELSE mgr

\* Mutant: no duplicate check for devices.
IsDuplicateDeviceNever(d) == FALSE

\* The duplicate-identifier check of DLL.validate for a new device.
IsDuplicateDevice(d) == d \in mgr

\* Mutant: the device taken to exist whatever device.exists answers.
ExistsOnCEAssumed(d, seen) == TRUE

\* Device.existsOnCE, after the add: a fault reads as false.
ExistsOnCE(d, seen) == seen /\ d \in ceDevs'

(***************************************************************************)
(* Submitting the properties form of a new device named d: DLL.validate,   *)
(* whose duplicate check throws when devMgr.devices is undefined, then     *)
(* SegmentDLL.applyChangesToCE: load the DLL (a fault alerts and returns,  *)
(* a step that changes nothing), write Devices.d.devType and the settings, *)
(* <dll>.add (its result ignored), and devMgr.addDevice when               *)
(* device.exists says so (a fault reads as false); last, segRef.queryCE(), *)
(* which may throw.  The form was opened from a link of the device menu.  *)
(***************************************************************************)
CreateDevice(d) ==
    /\ started
    /\ DeviceForms # {}
    /\ \/ /\ mgr = Undefined
          /\ thrown' = TRUE
          /\ UNCHANGED <<ceDevs, mgr, glob, aliased, rows, overwrote>>
       \/ /\ mgr # Undefined
          /\ ~IsDuplicateDevice(d)
          /\ \E loaded \in Outcomes("load"), added \in Outcomes("add"),
                seen \in Outcomes("exists") :
               /\ loaded
               /\ overwrote' = (overwrote \/ d \in ceDevs)
               /\ ceDevs' = IF added THEN ceDevs \cup {d} ELSE ceDevs
               /\ IF ExistsOnCE(d, seen)
                     THEN AddDevice(d)
                     ELSE UNCHANGED <<mgr, glob, rows>>
               /\ thrown' \in QueryThrows(d \in ceDevs')
          /\ UNCHANGED aliased
    /\ UNCHANGED started

\* Device.destroy: <dll>.remove, a fault reported and the device kept.
Destroy(d) ==
    \E removed \in Outcomes("remove") :
        ceDevs' = IF removed THEN ceDevs \ {d} ELSE ceDevs

\* devMgr.devices is defined and has d.
Manages(d) == mgr # Undefined /\ d \in mgr

(***************************************************************************)
(* "Delete Device" in the dialog of the remove link of row d:              *)
(* devMgr.devices[d].destroy(), which throws when devMgr.devices is        *)
(* undefined or lacks d, then devMgr.refresh(): the rows are removed and   *)
(* getDevices runs again.                                                  *)
(***************************************************************************)
RemoveDevice(d) ==
    /\ started
    /\ d \in rows
    /\ \/ /\ ~Manages(d)
          /\ thrown' = TRUE
          /\ UNCHANGED <<ceDevs, mgr, glob, aliased, rows>>
       \/ /\ Manages(d)
          /\ Destroy(d)
          /\ Refresh(ceDevs')
    /\ UNCHANGED <<started, overwrote>>

\* The choices of a DeviceSetting: the keys of devMgr.devices, if defined.
DeviceChoices == IF mgr # Undefined THEN mgr ELSE {}

Next ==
    \/ LoadCatalogue /\ UNCHANGED devVars
    \/ (Startup \/ \E d \in Devs : CreateDevice(d) \/ RemoveDevice(d))
       /\ UNCHANGED catVars

Spec == Init /\ [][Next]_vars

-----------------------------------------------------------------------------
(* Properties *)

\* While devMgr.devices is the object addDevice writes into (getDevices
\* last ran to completion), it and the choices a DeviceSetting offers are
\* exactly the CE's devices: every create and every remove keeps them so.
WholeRegistryMirrorsCE == aliased => DeviceChoices = ceDevs

\* Every device row on the Devices tab, whose remove link calls
\* devMgr.removeDevice, names a device the CE has: a removal refreshes the
\* rows and a new row is displayed only for a device device.exists reports.
RowsOnCE == rows \subseteq ceDevs

\* The form for a new device never writes Devices.<name> settings of a
\* device that already exists on the CE: spec 4.3 has the duplicate check
\* refuse it before any write.
NoOverwriteOfExisting == ~overwrote

====
