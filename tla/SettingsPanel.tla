---------------------------- MODULE SettingsPanel ----------------------------
(***************************************************************************)
(* A configuration between its three readers: the panel, which fills it in *)
(* as it mounts (normalize-config.ts), edits, saves and discards it        *)
(* (config-reducer.ts, use-config.ts, PluginConfigurationPanel.tsx); the   *)
(* host, which keeps it; and the plugin, whose modules each resolve their  *)
(* own fields as it starts.  A field is of one of the kinds below, and a   *)
(* number is counted in halves, to tell whole ones.                        *)
(***************************************************************************)
EXTENDS Integers, Sequences, SequencesExt

CONSTANTS
    Forms,          \* the sets of fields of one kind to look at together
    PoiFlags,       \* the POI-type toggles among them
    Numbers,        \* the numbers a stored field can hold
    NoNumber,       \* an absent or unusable one
    Largest, Fallback,      \* a number's upper bound, and its default
    MinYear,
    Endpoints       \* the usable endpoint addresses

Toggles == PoiFlags \cup {"optIn", "optOut"}
Numeric == {"capped", "clamped", "debounce", "periodic", "year", "airDraft"}
Fields == Toggles \cup Numeric \cup {"primary", "mirrors"}

\* The defaults are whole numbers, and what is absent is no number a field resolves to.
ASSUME SettingsAssumption ==
    /\ \A form \in Forms : form \subseteq Fields
    /\ PoiFlags \cap ({"optIn", "optOut", "primary", "mirrors"} \cup Numeric) = {}
    /\ Numbers \subseteq Int /\ NoNumber \in Int \ (Numbers \cup 0..Largest)
    /\ Largest \in Nat /\ Fallback \in 1..Largest /\ Fallback % 2 = 0
    /\ MinYear \in 1..Largest
    /\ {"blank", "junk"} \cap Endpoints = {}

VARIABLES
    stored,     \* the configuration on the server's disk
    running,    \* the one the plugin runs with
    prop,       \* the one the host hands to the panel
    state,      \* what the panel shows
    requested,  \* what it last asked to save, or mounted with
    same,       \* state and requested are one object
    saved       \* history: the last request that got through showed this

settingsVars == <<stored, running, prop, state, requested, same, saved>>

Junk == "junk"
NotAList == <<"not a list">>
Lines == BoundedSeq(Endpoints \cup {"blank", Junk}, 2)

\* What a stored file, by hand or from another version, can hold.
StoredValues(f) ==
    CASE f \in Toggles -> {"absent", "true", "false", Junk}
      [] f \in Numeric -> Numbers \cup {NoNumber}
      [] f = "primary" -> Endpoints \cup {"blank", Junk}
      [] f = "mirrors" -> Lines \cup {NotAList}

-----------------------------------------------------------------------------
(* The shared helpers. *)

Least(a, b) == IF a < b THEN a ELSE b
Greatest(a, b) == IF a > b THEN a ELSE b
Truncated(x) == x - (x % 2)

PositiveCapped(raw) == Least(Largest, IF raw # NoNumber /\ raw > 0 THEN raw ELSE Fallback)
ClampNumber(raw, min) == IF raw = NoNumber THEN Fallback ELSE Least(Largest, Greatest(min, raw))
ClampDebounce(raw) == IF raw = NoNumber THEN Fallback ELSE Truncated(ClampNumber(raw, 0))
EffectivePeriodic(raw) == IF ClampDebounce(raw) > 0 THEN ClampDebounce(raw) ELSE Fallback

ClampYear(raw) ==
    IF raw = NoNumber \/ raw <= 0 THEN 0 ELSE Truncated(ClampNumber(raw, MinYear))

PrimaryEndpoint(raw) == IF raw \in Endpoints THEN raw ELSE "default"

\* normalizeFallbackEndpoints: the usable ones, each once, in order.
Mirrors(raw) ==
    LET Add(kept, one) == IF one \in Endpoints /\ ~Contains(kept, one)
                            THEN Append(kept, one) ELSE kept
    IN  FoldLeft(Add, <<>>, raw)

-----------------------------------------------------------------------------
(* The panel and the plugin, each resolving a configuration. *)

\* Fault: the panel takes the interval for a window, which may be zero.
ShownAsWindow(raw) == ClampDebounce(raw)

\* The refresh interval of the notices, where zero means the default.
ShownInterval(raw) == EffectivePeriodic(raw)

\* normalizeConfig.
Shown(f, raw) ==
    CASE f \in PoiFlags \cup {"optOut"} -> IF raw = "false" THEN "false" ELSE "true"
      [] f = "optIn"    -> IF raw = "true" THEN "true" ELSE "false"
      [] f = "capped"   -> PositiveCapped(raw)
      [] f = "clamped"  -> ClampNumber(raw, 0)
      [] f = "debounce" -> ClampDebounce(raw)
      [] f = "periodic" -> ShownInterval(raw)
      [] f = "year"     -> ClampYear(raw)
      [] f = "airDraft" -> IF raw # NoNumber /\ raw >= 0 THEN raw ELSE 0
      [] f = "primary"  -> PrimaryEndpoint(raw)
      [] f = "mirrors"  -> Mirrors(raw)

NormalizeConfig(config) == [f \in DOMAIN config |-> Shown(f, config[f])]

\* buildPoiTypesString: the ticked ones; all of them for a configuration without
\* any of the flags.
Selected(config) ==
    LET flags == DOMAIN config \cap PoiFlags IN
    IF \A f \in flags : config[f] = "absent" THEN flags
    ELSE {f \in flags : config[f] = "true"}

\* What the modules take from it: isEnabled, isDedupeEnabled, createSource, start.
Used(config, f) ==
    CASE f \in PoiFlags -> IF f \in Selected(config) THEN "true" ELSE "false"
      [] f = "optIn"    -> IF config[f] = "true" THEN "true" ELSE "false"
      [] f = "optOut"   -> IF config[f] = "false" THEN "false" ELSE "true"
      [] f = "capped"   -> PositiveCapped(config[f])
      [] f = "clamped"  -> ClampNumber(config[f], 0)
      [] f = "debounce" -> ClampDebounce(config[f])
      [] f = "periodic" -> EffectivePeriodic(config[f])
      [] f = "year"     -> ClampYear(config[f])
      [] f = "airDraft" -> IF config[f] # NoNumber /\ config[f] > 0 THEN config[f] ELSE 0
      [] f = "primary"  -> PrimaryEndpoint(config[f])
      [] f = "mirrors"  -> Mirrors(config[f])

-----------------------------------------------------------------------------
(* The panel's session. *)

\* Mounting: the prop is read once.
Mounts(config) ==
    /\ state' = NormalizeConfig(config)
    /\ requested' = state'
    /\ same' = TRUE

SettingsInit ==
    /\ \E form \in Forms :
          /\ stored \in [form -> UNION {StoredValues(f) : f \in form}]
          /\ \A f \in form : stored[f] \in StoredValues(f)
    /\ running = stored /\ prop = stored
    /\ state = NormalizeConfig(stored)
    /\ requested = state
    /\ same = TRUE
    /\ saved = <<>>

\* What the controls of a field can set it to; the endpoint fields take any text, and
\* the interval of the notices is entered as a window, which may be zero.
Editable(f) ==
    CASE f \in Toggles -> {"true", "false"}
      [] f = "periodic" -> {ClampDebounce(raw) : raw \in Numbers}
      [] f \in Numeric \ {"periodic"} -> {Shown(f, raw) : raw \in Numbers}
      [] f = "primary" -> Endpoints \cup {"blank", Junk}
      [] f = "mirrors" -> Lines

\* Fault: the field is set where it stands.
SetInPlace(f, value) == same

\* setField: a change makes another object, and no change keeps this one.
SetField(f, value) == same /\ state[f] = value

Edit ==
    \E f \in DOMAIN state : \E value \in Editable(f) :
        /\ state' = [state EXCEPT ![f] = value]
        /\ same' = SetField(f, value)
        /\ UNCHANGED <<stored, running, prop, requested, saved>>

\* Fault: the save bar does not look at the endpoints.
NoProblem(config) == TRUE

\* endpointInvalidMessage: no unusable primary, no unusable line.
EndpointsValid(config) ==
    \A f \in DOMAIN config :
        /\ f = "primary" => config[f] # Junk
        /\ f = "mirrors" => ~Contains(config[f], Junk)

\* handleSave.  The host hands the object straight back, and keeps it when the
\* request fails; one that gets through restarts the plugin.
Save ==
    /\ ~same
    /\ EndpointsValid(state)
    /\ prop' = state
    /\ requested' = state
    /\ same' = TRUE
    /\ \/ stored' = state /\ running' = state /\ saved' = state
       \/ UNCHANGED <<stored, running, saved>>
    /\ UNCHANGED state

\* handleDiscard.
Discard ==
    /\ ~same
    /\ state' = requested
    /\ same' = TRUE
    /\ UNCHANGED <<stored, running, prop, requested, saved>>

\* The panel is closed and opened again, in this page or in a new one.
Reopen ==
    /\ prop' \in {prop, stored}
    /\ Mounts(prop')
    /\ UNCHANGED <<stored, running, saved>>

SettingsNext == Edit \/ Save \/ Discard \/ Reopen

SettingsSpec == SettingsInit /\ [][SettingsNext]_settingsVars

-----------------------------------------------------------------------------
\* What a field on screen claims: an empty endpoint is the default one, blank lines and
\* repetitions are not mirrors, and an interval "left at 0" is the default.
Meant(f, value) ==
    CASE f = "primary" -> IF value = "blank" THEN "default" ELSE value
      [] f = "periodic" -> IF value = 0 THEN Fallback ELSE value
      [] f = "mirrors" -> Mirrors(value)
      [] OTHER -> value

\* Once a save has got through, the plugin runs with what the panel showed, and a
\* panel opened on what was saved shows what the plugin runs with; a panel that
\* is not dirty shows what it asked for.
SettingsSound ==
    /\ saved # <<>> => \A f \in DOMAIN saved :
          /\ Used(running, f) = Meant(f, saved[f])
          /\ f = "mirrors" => ~Contains(saved[f], Junk)
          /\ Shown(f, stored[f]) = Used(running, f)
    /\ same => state = requested

\* The panel resolves an absent toggle the way the plugin does: opened on any
\* stored configuration, it shows what the plugin runs with.  (Not so of a selection stored
\* in part.)
ShownIsUsed == \A f \in DOMAIN stored : Shown(f, stored[f]) = Used(running, f)
=============================================================================
