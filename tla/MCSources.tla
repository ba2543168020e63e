------------------------------ MODULE MCSources -------------------------------
(***************************************************************************)
(* What the chart sources ask for and make of the answers: a run is one of *)
(*   - a source with a refresh window and one without, listed together;    *)
(*   - one query of the Overpass client over up to three endpoints;        *)
(*   - two queries of an ArcGIS layer of four features, two to a page, two *)
(*     of them east, one west and one on both sides of the antimeridian;   *)
(*   - the points of a poll, three at most, eight degrees being half a     *)
(*     turn and the parallels getting shorter towards a pole;              *)
(*   - a record of a chart source, three of its fields filled in;          *)
(*   - a point of interest of ActiveCaptain, two of its fields filled in.  *)
(* What a run does not move stays as it began.                             *)
(***************************************************************************)
EXTENDS PoiDetails, SourceListing, OverpassClient, ArcgisQuery, DedupePois, TLC

CONSTANTS osm, captain, e2, e3, q1, q2

MCKind == [s \in {osm, captain} |-> IF s = osm THEN "overpass" ELSE "captain"]

MCBodies == {<<>>, <<"malformed", "whole">>}

MCStored == {[s \in Sides |-> <<>>],
             [s \in Sides |-> IF s = "west" THEN <<2, 4>> ELSE <<1, 2, 3>>]}

R(s, lon, lat, t, c) == [source |-> s, lon |-> lon, lat |-> lat, type |-> t, clearance |-> c]
MCReports ==
    {R(s, lon, lat, "Bridge", Unknown) : s \in {"ac", "osm", "enc"}, lon \in {-2, 2}, lat \in {0, 2}}
    \cup {R(s, lon, 0, "Bridge", c) : s \in {"ac", "osm"}, lon \in {0, 3}, c \in {1, 2}}
    \cup {R("osm", 0, 0, "Lock", Unknown), R("uscg", 0, 0, "Bridge", 1)}
    \cup {R("enc", lon, 0, "Bridge", 1) : lon \in {-8, 8}}

MCRadius == [s \in {"osm"} |-> 8]
MCScale == [lat \in 0..2 |-> 4 - lat]

MCSymmetry == Permutations({q1, q2}) \cup Permutations({e2, e3})

MCChartKinds == {"port", "wreck", "obstruction", "rock", "lock", "dam", "notice",
                 "discrepancy", "light", "station", "seamark"}

VARIABLE part   \* which of the six this run is

sourcesVars == <<part, listVars, overpassVars, arcgisVars, dedupeVars, chartVars, marinaVars>>

SourcesInit ==
    /\ part \in {"listing", "overpass", "arcgis", "dedupe", "chart", "marina"}
    /\ part # "listing" => inside = TRUE
    /\ part # "overpass" => endpointList = <<Default>> /\ health = [e \in {Default} |-> "good"]
    /\ part # "arcgis" => renumbered = FALSE /\ stored = [s \in Sides |-> <<>>]
    /\ part # "dedupe" => pois = <<>>
    /\ part # "chart" => kind = "rock"
    /\ part # "marina" => type = "Hazard"
    /\ ListInit /\ OverpassInit /\ ArcgisInit /\ DedupeInit
    /\ DetailsInit

SourcesNext ==
    /\ UNCHANGED part
    /\ \/ /\ part = "listing"
          /\ ListNext
          /\ UNCHANGED <<overpassVars, arcgisVars, dedupeVars, chartVars, marinaVars>>
       \/ /\ part = "overpass"
          /\ OverpassNext
          /\ UNCHANGED <<listVars, arcgisVars, dedupeVars, chartVars, marinaVars>>
       \/ /\ part = "arcgis"
          /\ ArcgisNext
          /\ UNCHANGED <<listVars, overpassVars, dedupeVars, chartVars, marinaVars>>
       \/ /\ part = "dedupe"
          /\ DedupeNext
          /\ UNCHANGED <<listVars, overpassVars, arcgisVars, chartVars, marinaVars>>
       \/ /\ part = "chart"
          /\ Carries
          /\ UNCHANGED <<listVars, overpassVars, arcgisVars, dedupeVars, marinaVars>>
       \/ /\ part = "marina"
          /\ MarinaCarries
          /\ UNCHANGED <<listVars, overpassVars, arcgisVars, dedupeVars, chartVars>>

SourcesSpec == SourcesInit /\ [][SourcesNext]_sourcesVars

===============================================================================
