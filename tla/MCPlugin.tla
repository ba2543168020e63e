------------------------------- MODULE MCPlugin -------------------------------
(***************************************************************************)
(* The plugin from its start to its status rows: a run is one of           *)
(*   - two starts of the plugin, with two outputs;                         *)
(*   - the World Port Index, of two ports in two viewports and one that    *)
(*     cannot be placed, with two callers;                                 *)
(*   - a chart source with a refresh window, listed by two callers;        *)
(*   - the settings panel, a group of its fields at a time, whose numbers  *)
(*     are below, at and above their bounds;                               *)
(*   - the box of a tick of three zones, twelve degrees being half a turn. *)
(* What a run does not move stays as it began.                             *)
(***************************************************************************)
EXTENDS PluginLifecycle, WholeSetSource, SettingsPanel, BoundingBoxes

CONSTANTS notes, alarms, c1, c2, x, y, z, enc, chart, monitor

MCStopOrder == [r \in Resources |->
    CASE r = "monitor" -> 0 [] r \in Outputs -> 1 [] r = "resolver" -> 2 [] r = "source" -> 3]

MCForms == {{"marinas", "airports"}, {"optIn", "optOut"}, {"capped"}, {"clamped"}, {"debounce"},
            {"periodic"}, {"year"}, {"airDraft"}, {"primary"}, {"mirrors"}}
MCFlags == {"marinas", "airports"}
MCEndpoints == {"a", "b"}
MCNumbers == {-3, 0, 1, 3, 6, 12, 25}
MCViews == {{x, y}, {z}}
MCPlaces == {<<-12, 0>>, <<-10, 2>>, <<0, 0>>, <<10, 4>>, <<6, 0>>}

VARIABLES
    part,   \* which of the five this run is
    board, tile, polls, observed, details, inside

Listing == INSTANCE SourceListing WITH
    Sources <- {enc}, Polls <- {chart, monitor}, Kind <- [s \in {enc} |-> "arcgis"],
    Cached <- {enc}, rows <- board, late <- observed

ASSUME LifecycleConstants
ASSUME Listing!SourceListingAssumption

listingVars == <<board, tile, polls, observed, details, inside>>
pluginVars == <<part, lifecycleVars, wholeVars, listingVars, settingsVars, boxVars>>

PluginInit ==
    /\ part \in {"lifecycle", "ports", "listing", "settings", "boxes"}
    /\ part # "ports" => cache = {}
    /\ part # "listing" => inside = TRUE
    /\ part # "settings" => stored = [f \in {"optIn", "optOut"} |-> "absent"]
    /\ LifecycleInit /\ WholeInit /\ Listing!ListInit /\ SettingsInit /\ BoxInit

Lists(step) ==
    /\ part = "listing"
    /\ step
    /\ UNCHANGED <<part, lifecycleVars, wholeVars, settingsVars, boxVars>>

PluginNext ==
    \/ /\ part = "lifecycle"
       /\ LifecycleNext
       /\ UNCHANGED <<part, wholeVars, listingVars, settingsVars, boxVars>>
    \/ /\ part = "ports"
       /\ WholeNext
       /\ UNCHANGED <<part, lifecycleVars, listingVars, settingsVars, boxVars>>
    \/ Lists(Listing!ListNext)
    \/ /\ part = "settings"
       /\ SettingsNext
       /\ UNCHANGED <<part, lifecycleVars, wholeVars, listingVars, boxVars>>
    \/ /\ part = "boxes"
       /\ BoxNext
       /\ UNCHANGED <<part, lifecycleVars, wholeVars, listingVars, settingsVars>>

\* ListFairness of SourceListing.
ListingFairness ==
    /\ \A p \in {chart, monitor} :
          /\ WF_pluginVars(Lists(Listing!EndPoll(p)))
          /\ WF_pluginVars(Lists(Listing!Quiet /\ Listing!Timeout(p)))
          /\ SF_pluginVars(Lists(Listing!Quiet /\ Listing!BeginPoll(p)))
    /\ SF_pluginVars(Lists(Listing!Quiet /\ Listing!WindowEnds(enc)))
    /\ SF_pluginVars(Lists(Listing!Quiet /\ Listing!FetchResolves(enc, FALSE)))
    /\ SF_pluginVars(Lists(Listing!Quiet /\ Listing!RefreshResolves(enc, FALSE)))
    /\ WF_pluginVars(Lists(Listing!Quiet /\ \E ok \in BOOLEAN : Listing!DetailEnds(enc, ok)))
    /\ []<>(tile[enc].pending) => []<><<Listing!ReadInTime(enc)>>_pluginVars

PluginSpec == PluginInit /\ [][PluginNext]_pluginVars /\ ListingFairness

-----------------------------------------------------------------------------
\* A source that keeps answering again comes to show it (its status row in the API).
OutageEndShows == part = "listing" => Listing!OutageEndShows
===============================================================================
