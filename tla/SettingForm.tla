---------------------------- MODULE SettingForm ----------------------------
(***************************************************************************)
(* One properties form of a device/segment module (SegmentDLL in DLL.js)   *)
(* and the scalar Settings on it (Setting.js): the form is opened on an    *)
(* existing entity ("bound") or on a new instance, every field is filled   *)
(* by the default resolution cascade (findBestDefault), the operator       *)
(* edits fields, DLL.validate gates the submission, and applyChangesToCE   *)
(* calls sendIfNeeded on every field in form order, each call choosing a   *)
(* dedicated set/unset method, a config-file write or a config-file        *)
(* removal.  Every remote write may be rejected by the CE.                 *)
(*                                                                         *)
(* Data is abstracted: a value is a model value of Val, the empty input    *)
(* ("" or Setting.emptyVal) is Empty, an undefined defaultVal is None and  *)
(* a path holding nothing in the CE configuration is Absent.  Each field   *)
(* has exactly one resolved path for the form's entity; a global-eligible  *)
(* field's path has no segment placeholder, so it may hold a value before  *)
(* the entity exists.                                                      *)
(***************************************************************************)
EXTENDS Naturals, Sequences, FiniteSets

CONSTANTS
    Settings,       \* the fields of the module's schema
    FieldOrder,     \* their order on the form (schema order)
    Val,            \* non-empty values a field may hold
    None,           \* an undefined defaultVal
    Empty,          \* an empty input: "" or Setting.emptyVal
    Absent,         \* nothing stored at the path in the CE configuration
    ReadMayFail,    \* TRUE: a cascade lookup (exists/getAutoType) may fail
    AddMayFail      \* TRUE: the CE may refuse to add a new instance

ASSUME FieldOrder \in Seq(Settings) /\ Len(FieldOrder) = Cardinality(Settings)
ASSUME \A i, j \in 1..Len(FieldOrder) : FieldOrder[i] = FieldOrder[j] => i = j
ASSUME {None, Empty, Absent} \cap (Val \cup BOOLEAN) = {}

VARIABLES
    schema,     \* the descriptor of every field (props of makeFromProps)
    exists,     \* the entity exists on the CE
    store,      \* the CE configuration at every field's resolved path
    phase,      \* "idle", "open", "applying", "finishing", "done"
    bound,      \* the form was opened on the existing entity (segmentExists)
    snapshot,   \* segment.settings as loaded by queryCE when the form opened
    defaultVal, \* every field's defaultVal after findBestDefault
    input,      \* every field's input element value
    idx,        \* applyChangesToCE: position of the next field to send
    calls,      \* fields for which a remote write was issued in this submission
    reported,   \* fields reported to the operator as "Setting Rejected by CE"
    aborted     \* the submission stopped before any write (load failed)

vars == <<schema, exists, store, phase, bound, snapshot, defaultVal, input,
          idx, calls, reported, aborted>>

(***************************************************************************)
(* Descriptors.  kind "bool" is a BooleanSetting (a checkbox), "plain" any *)
(* other scalar Setting; setMethod/unsetMethod: the schema declares the    *)
(* dedicated method; global: substituting the channel name alone resolves  *)
(* the path (Setting.globalRegex does not match); dflt: the schema default.*)
(***************************************************************************)
Descriptor ==
    [kind: {"plain"}, setMethod: BOOLEAN, unsetMethod: BOOLEAN,
     global: BOOLEAN, required: BOOLEAN, dflt: Val \cup {None}]
    \cup
    [kind: {"bool"}, setMethod: BOOLEAN, unsetMethod: BOOLEAN,
     global: BOOLEAN, required: BOOLEAN, dflt: BOOLEAN \cup {None}]

IsBool(s) == schema[s].kind = "bool"

\* The values a field can hold at its path, or show in its input.
StoredVal(s) == IF IsBool(s) THEN BOOLEAN ELSE Val
InputVal(s)  == IF IsBool(s) THEN BOOLEAN ELSE Val \cup {Empty}

TypeOK ==
    /\ schema \in [Settings -> Descriptor]
    /\ exists \in BOOLEAN
    /\ \A s \in Settings : store[s] \in StoredVal(s) \cup {Absent}
    /\ phase \in {"idle", "open", "applying", "finishing", "done"}
    /\ bound \in BOOLEAN
    /\ \A s \in Settings : snapshot[s] \in StoredVal(s) \cup {Absent}
    /\ \A s \in Settings : defaultVal[s] \in StoredVal(s) \cup {None}
    /\ \A s \in Settings : input[s] \in InputVal(s)
    /\ idx \in 1..Len(FieldOrder) + 1
    /\ calls \subseteq Settings
    /\ reported \subseteq Settings
    /\ aborted \in BOOLEAN

(***************************************************************************)
(* A per-segment path of an entity that does not exist holds nothing; a    *)
(* global path may hold a value already.                                   *)
(***************************************************************************)
Init ==
    /\ schema \in [Settings -> Descriptor]
    /\ exists \in BOOLEAN
    /\ store \in {st \in [Settings -> UNION {StoredVal(s) : s \in Settings} \cup {Absent}] :
                    \A s \in Settings :
                        /\ st[s] \in StoredVal(s) \cup {Absent}
                        /\ ~exists /\ ~schema[s].global => st[s] = Absent}
    /\ phase = "idle"
    /\ bound = FALSE
    /\ snapshot = [s \in Settings |-> Absent]
    /\ defaultVal = [s \in Settings |-> None]
    /\ input = [s \in Settings |-> IF IsBool(s) THEN FALSE ELSE Empty]
    /\ idx = 1
    /\ calls = {}
    /\ reported = {}
    /\ aborted = FALSE

(***************************************************************************)
(* Opening the form.                                                       *)
(***************************************************************************)

\* DLLInstance.loadNonMacroSettings: the entity's values, each lookup of a
\* missing one (exists, then getAutoType) possibly failing and skipped.
LoadSettings(s, ok) == IF ok THEN store[s] ELSE Absent

\* Mutation-test variant of BestDefault: the bound entity's loaded value
\* is ignored (tier 1 of the cascade dropped).
BestDefaultNoSnapshot(s, snap, ok) ==
    IF ~bound' /\ schema[s].global /\ ok /\ store[s] # Absent
    THEN store[s] ELSE schema[s].dflt

\* Setting.findBestDefault: the bound entity's loaded value; for a new
\* instance the global value when the path is global-eligible and the
\* lookup succeeds; otherwise the schema default.  For a new instance ok
\* is the setting.getAutoType that follows a true setting.exists; a
\* faulting setting.exists throws (null.scalarVal()) and the form never
\* opens, a step that changes nothing.
BestDefault(s, snap, ok) ==
    IF bound'
    THEN IF snap[s] # Absent THEN snap[s] ELSE schema[s].dflt
    ELSE IF schema[s].global /\ ok /\ store[s] # Absent
         THEN store[s] ELSE schema[s].dflt

\* Setting.insertNewInput / BooleanSetting.insertNewInput: the input starts
\* at defaultVal; input.val(undefined) empties it; the checkbox is checked
\* iff String(defaultVal) matches /true/i.
\* BooleanSetting.insertNewInput: the checkbox is checked when the value
\* shown reads "true".
BoolShownInput(dv) == dv = TRUE

ShownInput(s, dv) ==
    IF IsBool(s) THEN BoolShownInput(dv)
    ELSE IF dv = None THEN Empty ELSE dv

\* SegmentDLL.propertiesForm: existingSegment.queryCE() reloads the
\* snapshot, then makeFromProps builds every field and runs the cascade.
OpenForm ==
    /\ phase \in {"idle", "done"}
    /\ \E b \in {TRUE, FALSE} :
        /\ b => exists
        /\ ~b => ~exists
        /\ bound' = b
    /\ \E ok \in [Settings -> IF ReadMayFail THEN BOOLEAN ELSE {TRUE}] :
        LET snap == IF bound' THEN [s \in Settings |-> LoadSettings(s, ok[s])]
                    ELSE snapshot
            dv   == [s \in Settings |-> BestDefault(s, snap, ok[s])]
        IN /\ snapshot' = snap
           /\ defaultVal' = dv
           /\ input' = [s \in Settings |-> ShownInput(s, dv[s])]
    /\ phase' = "open"
    /\ calls' = {}
    /\ reported' = {}
    /\ aborted' = FALSE
    /\ idx' = 1
    /\ UNCHANGED <<schema, exists, store>>

\* The operator types into (or ticks, or selects) one field.
Edit(s, v) ==
    /\ phase = "open"
    /\ v \in InputVal(s)
    /\ input' = [input EXCEPT ![s] = v]
    /\ UNCHANGED <<schema, exists, store, phase, bound, snapshot, defaultVal,
                   idx, calls, reported, aborted>>

(***************************************************************************)
(* Submitting.                                                             *)
(***************************************************************************)

\* Setting.static_inputIsEmpty: "" or the empty option of a select.  A
\* checkbox's value is "on", never empty.
StaticInputIsEmpty(s) == ~IsBool(s) /\ input[s] = Empty

\* DLL.validate: a required field may not be empty.  Every value of Val
\* passes its type's validator (the validators are modelled elsewhere).
Validate == \A s \in Settings : schema[s].required => ~StaticInputIsEmpty(s)

\* The form's submit handler runs applyChangesToCE only when validate()
\* passes.  applyChangesToCE: a new instance first needs its DLL loaded;
\* when "load" fails it alerts and returns before any write.
Submit ==
    /\ phase = "open"
    /\ Validate
    /\ \/ /\ phase' = "applying"
          /\ UNCHANGED aborted
       \/ /\ ~bound
          /\ phase' = "done"
          /\ aborted' = TRUE
    /\ UNCHANGED <<schema, exists, store, bound, snapshot, defaultVal, input,
                   idx, calls, reported>>

\* Mutation-test variant of NeedsUpdate: a bound field is compared with
\* emptiness, as a new instance's is, instead of with defaultVal.
NeedsUpdateNoBaseline(s) ==
    IF IsBool(s) THEN ~bound \/ (defaultVal[s] = TRUE) # input[s]
    ELSE input[s] # Empty

\* BooleanSetting.needsUpdate: a checkbox of a new instance always needs
\* writing; a bound one when the truth of defaultVal (boolStr2Int) differs
\* from its checked state.
BoolNeedsUpdate(s) == ~bound \/ (defaultVal[s] = TRUE) # input[s]

\* Setting.needsUpdate: a field of a new instance needs writing when
\* non-empty; a bound one when its input differs from defaultVal, and
\* undefined != "" in JavaScript.
NeedsUpdate(s) ==
    IF IsBool(s) THEN BoolNeedsUpdate(s)
    ELSE IF ~bound THEN input[s] # Empty
         ELSE defaultVal[s] = None \/ defaultVal[s] # input[s]

\* BooleanSetting.inputIsEmpty: a checkbox is "empty" when unchanged.
BoolInputIsEmpty(s) == ~BoolNeedsUpdate(s)

\* Setting.inputIsEmpty.
InputIsEmpty(s) == IF IsBool(s) THEN BoolInputIsEmpty(s) ELSE input[s] = Empty

\* Mutation-test variant of Written: a cleared field is written as
\* undefined instead of being removed.
WrittenUndefined(s) == IF InputIsEmpty(s) THEN None ELSE input[s]

\* The value a successful write leaves at the field's path.
Written(s) == IF InputIsEmpty(s) THEN Absent ELSE input[s]

\* Setting.sendIfNeeded on the next field: when it needs an update, one
\* remote call (the dedicated set/unset method of a bound entity, else
\* setting.setAutoType for a value, else setting.remove for a bound
\* entity), which the CE applies or rejects; a rejection is reported.
SendIfNeeded ==
    /\ phase = "applying"
    /\ idx <= Len(FieldOrder)
    /\ LET s == FieldOrder[idx] IN
        IF NeedsUpdate(s) /\ (~InputIsEmpty(s) \/ bound)
        THEN /\ calls' = calls \cup {s}
             /\ \E ok \in BOOLEAN :
                  /\ store' = IF ok THEN [store EXCEPT ![s] = Written(s)]
                              ELSE store
                  /\ reported' = IF ok THEN reported ELSE reported \cup {s}
        ELSE UNCHANGED <<store, calls, reported>>
    /\ idx' = idx + 1
    /\ UNCHANGED <<schema, exists, phase, bound, snapshot, defaultVal, input,
                   aborted>>

EndOfFields ==
    /\ phase = "applying"
    /\ idx = Len(FieldOrder) + 1
    /\ phase' = "finishing"
    /\ UNCHANGED <<schema, exists, store, bound, snapshot, defaultVal, input,
                   idx, calls, reported, aborted>>

\* applyChangesToCE, after the fields: a new instance is created with
\* "add", which reads the configuration just written; the CE may refuse
\* it (logged, nothing undone).  The settings are then read back.
Finish ==
    /\ phase = "finishing"
    /\ \/ bound /\ UNCHANGED exists
       \/ ~bound /\ exists' = TRUE
       \/ ~bound /\ AddMayFail /\ UNCHANGED exists
    /\ phase' = "done"
    /\ UNCHANGED <<schema, store, bound, snapshot, defaultVal, input,
                   idx, calls, reported, aborted>>

Next ==
    \/ OpenForm
    \/ \E s \in Settings, v \in Val \cup BOOLEAN \cup {Empty} : Edit(s, v)
    \/ Submit
    \/ SendIfNeeded
    \/ EndOfFields
    \/ Finish

Spec == Init /\ [][Next]_vars

(***************************************************************************)
(* Properties.                                                             *)
(***************************************************************************)

\* The value the running module uses for a field: the configured one, else
\* the schema default; for a checkbox, its truth.
Effective(s) ==
    LET v == IF store[s] # Absent THEN store[s] ELSE schema[s].dflt
    IN IF IsBool(s) THEN v = TRUE ELSE v

\* What the operator asked for: the input, an empty input meaning "use the
\* default".
Intended(s) ==
    IF IsBool(s) THEN input[s]
    ELSE IF input[s] = Empty THEN schema[s].dflt ELSE input[s]

\* A cleared field of a new instance whose path is global: spec 4.4 writes
\* a new instance's field only when it is non-empty.
ClearedGlobalOfNew(s) ==
    ~bound /\ ~IsBool(s) /\ input[s] = Empty /\ schema[s].global

(***************************************************************************)
(* SubmittedIsEffective: once applyChangesToCE has finished, every field   *)
(* whose write the CE did not reject (and which was not abandoned by a     *)
(* failed DLL load) is in effect with the value the operator submitted --  *)
(* across the cascade that pre-filled it, the needsUpdate comparison and   *)
(* the write strategy of sendIfNeeded.  The cleared global field of a new  *)
(* instance is excepted: the spec leaves it untouched.                     *)
(***************************************************************************)
SubmittedIsEffective ==
    phase = "done" /\ ~aborted =>
        \A s \in Settings :
            s \in reported \/ ClearedGlobalOfNew(s) \/ Effective(s) = Intended(s)

\* A field whose input still shows what the cascade put there.
FieldUntouched(s) == input[s] = ShownInput(s, defaultVal[s])

(***************************************************************************)
(* UntouchedKeepsEffective: while a form is applied, a field the operator  *)
(* did not edit never changes the value in effect for it: the cascade      *)
(* showed the value in effect and sendIfNeeded either writes nothing or    *)
(* writes that value back.                                                 *)
(***************************************************************************)
UntouchedKeepsEffective ==
    [][phase = "applying" =>
         \A s \in Settings : FieldUntouched(s) => Effective(s)' = Effective(s)]_vars
(***************************************************************************)
(* The refinement mapping onto SettingsStore: the value in effect for each *)
(* field; a submission that got past the DLL load is busy from Submit on   *)
(* and done at Finish; its goal is what the operator asked for, on every   *)
(* field but the cleared global field of a new instance (spec 4.4 leaves   *)
(* it alone); the refused fields are the ones reported.                    *)
(***************************************************************************)
Store == INSTANCE SettingsStore WITH
    Values  <- Val \cup BOOLEAN \cup {None},
    eff     <- [s \in Settings |-> Effective(s)],
    busy    <- phase \in {"applying", "finishing", "done"} /\ ~aborted,
    goal    <- [s \in {f \in Settings : ~ClearedGlobalOfNew(f)} |-> Intended(s)],
    refused <- reported,
    done    <- phase = "done" /\ ~aborted

(***************************************************************************)
(* ImplementsSettingsStore: applyChangesToCE implements spec 4.5's         *)
(* promise at every step, not only at the end: no field's effective value  *)
(* changes outside a submission; inside one, sendIfNeeded moves a field    *)
(* only to the value the operator asked for, whichever of the dedicated    *)
(* method, setAutoType or remove it chose; every refused write is          *)
(* reported; and Finish comes only when every field holds its goal or was  *)
(* reported refused.                                                       *)
(***************************************************************************)
ImplementsSettingsStore == Store!Spec
=============================================================================
