---------------------------- MODULE MarinaDetails ---------------------------
(***************************************************************************)
(* The two renderings of an ActiveCaptain point of interest: the           *)
(* Handlebars templates of its HTML description, each section of which is  *)
(* shown where a predicate of its own finds something to show, and the     *)
(* sections of a structured client, each of which is shown where it has an *)
(* item.  A point of interest is a function from the fields it carries,    *)
(* <<section, field>>, to what they hold; a rendering is the set of facts  *)
(* <<section, field, what is shown>>.  Wording is left out.                *)
(***************************************************************************)
EXTENDS Integers, FiniteSets

CONSTANTS
    MarinaTypes,    \* the PoiTypes of the points of interest
    ReviewTypes,    \* those that carry reviews
    MaxFilled       \* bound: how many fields of a point of interest are filled in

VARIABLES type, filled

marinaVars == <<type, filled>>

ASSUME MarinaAssumption ==
    ReviewTypes \subseteq MarinaTypes /\ "Hazard" \in MarinaTypes \ ReviewTypes

Capabilities == {"dockage", "mooring", "fuel", "amenities", "services", "retail", "navigation",
                 "business"}

-----------------------------------------------------------------------------
(* The fields of each section, by how they are read. *)

\* The sections' availability fields.
Availabilities == [
    dockage |-> {"liveaboard", "secureAccess", "securityPatrol"},
    mooring |-> {"hasMoorings", "dinghy", "launch", "liveaboard"},
    fuel |-> {"diesel", "ethanolFree", "gas", "propane", "electric"},
    amenities |-> {"bar", "cellReception", "boatRamp", "laundry", "courtesyCar", "pets", "lodging",
                   "restroom", "restaurant", "transportation", "shower", "water", "trash", "wifi"},
    services |-> {"haulOut", "pumpOut", "repair", "mechanical", "repairDieselEngines",
                  "repairGasEngines", "electronics", "sailsAndRigging", "fiberglass", "welding",
                  "propellerRepair", "canvasAndUpholstery", "paint", "bottomPainting", "washAndWax",
                  "marineHvac", "plumbing", "carpentry", "storage", "charter", "boatBrokers",
                  "surveyors", "towing", "rescueAndSalvage", "waterTaxi"},
    retail |-> {"grocery", "ice", "fishingSupplies", "marineRetail", "hardware"},
    navigation |-> {"fixedBridge"},
    business |-> {"seasonal", "public", "cash", "check", "credit"}]

\* Their counts and measurements.
Measurements == [
    dockage |-> {"total", "transient", "loaMax", "beamMax"}, mooring |-> {"total", "transient"},
    fuel |-> {"depthFuel"}, amenities |-> {}, services |-> {}, retail |-> {},
    navigation |-> {"bridgeHeight", "tide", "depthApproach"}, business |-> {}]

Priced == {"dockage", "mooring"}            \* with isFree
ContactTexts == {"vhfChannel", "phone", "afterHourContact", "email"}

\* What the wire may carry: the sections' fields, and the contact, the reviews, the
\* notes and the date of the point itself.
Carried ==
    (UNION {({s} \X Availabilities[s] \X {"Yes", "Nearby", "Unknown"})
            \cup ({s} \X Measurements[s] \X {"positive", "zero", "negative"})
            \cup {<<s, "notes", v>> : v \in {"text", "none"}} : s \in Capabilities})
    \cup (Priced \X {"isFree"} \X {"true", "false"})
    \cup {<<"navigation", "current", v>> : v \in {"Strong", "Unknown"}}
    \cup ({"contact"} \X ContactTexts \X {"text", ""})
    \cup {<<"contact", "website", v>> : v \in {"https", "javascript"}}
    \cup {<<"point", "notes", v>> : v \in {"text", "none"}}
    \cup {<<"point", "dateLastModified", v>> : v \in {"recent", "old", "unreadable"}}
    \cup {<<"reviewSummary", "numberOfReviews", v>> : v \in {"positive", "zero"}}
    \cup {<<"featuredReview", "text", v>> : v \in {"text", ""}}

Holds(s, f) == IF <<s, f>> \in DOMAIN filled THEN filled[<<s, f>>] ELSE "absent"
Facts(s, fields, shown) == {<<s, f, Holds(s, f)>> : f \in {g \in fields : Holds(s, g) \in shown}}

\* isDefiniteAvailability
Definite == {"Yes", "No", "Nearby"}
IsDefinite(s) == \E f \in Availabilities[s] : Holds(s, f) \in Definite

\* poiTypeShowsReviews
PoiTypeShowsReviews == type \in ReviewTypes

-----------------------------------------------------------------------------
(* The HTML description. *)

\* What {{#if}} takes for a value: any but zero and the empty.
Truthy == {"text", "positive", "negative"}

HasNotes(s) == Holds(s, "notes") = "text"
IsPositive(s, fields) == \E f \in fields : Holds(s, f) = "positive"

HasDockage ==
    \/ IsDefinite("dockage") \/ HasNotes("dockage")
    \/ Holds("dockage", "isFree") # "absent"
    \/ IsPositive("dockage", {"total", "transient", "loaMax", "beamMax"})
HasMooring ==
    IsDefinite("mooring") \/ IsPositive("mooring", {"transient", "total"}) \/ HasNotes("mooring")

\* Fault: a depth is no reason to show the fuel section.
HasFuelForSale == IsDefinite("fuel") \/ HasNotes("fuel")

HasFuel == IsDefinite("fuel") \/ IsPositive("fuel", {"depthFuel"}) \/ HasNotes("fuel")
HasNavigation ==
    \/ IsDefinite("navigation") \/ Holds("navigation", "current") = "Strong"
    \/ IsPositive("navigation", {"bridgeHeight", "tide", "depthApproach"})
    \/ HasNotes("navigation")
\* hasAmenities, hasBusiness, hasServices, hasRetail
HasPlain(s) == IsDefinite(s) \/ HasNotes(s)

HasContact ==
    \/ \E f \in ContactTexts : Holds("contact", f) = "text"
    \/ Holds("contact", "website") # "absent"

IsShown(s) ==
    CASE s = "dockage" -> HasDockage
      [] s = "mooring" -> HasMooring
      [] s = "fuel" -> HasFuel
      [] s = "navigation" -> HasNavigation
      [] OTHER -> HasPlain(s)

\* The partial of a section: the templates.
SectionLines(s) ==
    Facts(s, Availabilities[s], Definite) \cup Facts(s, Measurements[s], Truthy)
    \cup Facts(s, {"isFree"}, {"true", "false"}) \cup Facts(s, {"current"}, {"Strong"})
    \cup Facts(s, {"notes"}, {"text"})

ContactLines == Facts("contact", ContactTexts, Truthy) \cup Facts("contact", {"website"}, {"https"})

\* isStaleHazard: a warning, of a hazard alone
StaleHazard ==
    IF type = "Hazard" THEN Facts("point", {"dateLastModified"}, {"old"}) ELSE {}

\* fromNow: how long ago the point was updated, of every point; "an unknown time ago"
\* where the date says nothing.
LastUpdated ==
    LET date == Holds("point", "dateLastModified")
    IN {<<"point", "lastUpdated", IF date \in {"recent", "old"} THEN date ELSE "unknown">>}

HeaderLines ==
    LastUpdated \cup StaleHazard \cup Facts("point", {"notes"}, {"text"})
    \cup (IF PoiTypeShowsReviews
            THEN Facts("reviewSummary", {"numberOfReviews"}, Truthy)
                 \cup Facts("featuredReview", {"text"}, Truthy)
            ELSE {})

\* renderDescription
RenderDescription ==
    HeaderLines \cup (IF HasContact THEN ContactLines ELSE {})
    \cup UNION {SectionLines(s) : s \in {c \in Capabilities : IsShown(c)}}

-----------------------------------------------------------------------------
(* The sections. *)

\* Fault: a zero is an item.
PushAnyMeasure(s) == Facts(s, Measurements[s], {"positive", "zero"})

\* pushCount, pushMeasure: of a positive number only
PushMeasure(s) == Facts(s, Measurements[s], {"positive"})
PushAvailability(s) == Facts(s, Availabilities[s], Definite)
PushFreeFlag(s) == Facts(s, {"isFree"}, {"true", "false"})

ContactItems == Facts("contact", ContactTexts, {"text"}) \cup Facts("contact", {"website"}, {"https"})

BuildActiveCaptainSections ==
    (IF PoiTypeShowsReviews
       THEN Facts("reviewSummary", {"numberOfReviews"}, {"positive"})
            \cup Facts("featuredReview", {"text"}, {"text"})
       ELSE {})
    \cup Facts("point", {"notes"}, {"text"}) \cup ContactItems
    \cup UNION {PushFreeFlag(s) \cup PushMeasure(s) \cup PushAvailability(s)
                \cup Facts(s, {"current"}, {"Strong"}) \cup Facts(s, {"notes"}, {"text"}) : s \in Capabilities}

-----------------------------------------------------------------------------
MarinaInit == type \in MarinaTypes /\ filled = <<>>

\* The point of interest carries one more field.
MarinaCarries ==
    /\ Cardinality(DOMAIN filled) < MaxFilled
    /\ \E c \in Carried :
          /\ <<c[1], c[2]>> \notin DOMAIN filled
          /\ filled' = [f \in DOMAIN filled \cup {<<c[1], c[2]>>} |->
                            IF f = <<c[1], c[2]>> THEN c[3] ELSE filled[f]]
    /\ UNCHANGED type

MarinaSpec == MarinaInit /\ [][MarinaCarries]_marinaVars

-----------------------------------------------------------------------------
\* The sections tell a skipper what the description does, with four exceptions: a price
\* of a mooring that nothing else is known of is in the sections alone, and in the
\* description alone are the line of the last update, the warning of an old report, and
\* a number below zero where the section is shown for something else.
MarinaDetailsAgree ==
    LET html == RenderDescription  sections == BuildActiveCaptainSections
    IN /\ sections \ html = IF HasMooring THEN {} ELSE PushFreeFlag("mooring")
       /\ html \ sections = LastUpdated \cup StaleHazard \cup
             UNION {Facts(s, Measurements[s], {"negative"}) : s \in {c \in Capabilities : IsShown(c)}}

\* A section of the description is shown for something it shows, but for a contact of
\* which only the address of a website is known, and that is not to be followed.
NoEmptyHeading ==
    /\ \A s \in Capabilities : IsShown(s) => SectionLines(s) # {}
    /\ HasContact => ContactLines # {} \/ Holds("contact", "website") = "javascript"

\* What both renderings owe the skipper.
MarinaDetailsSound == MarinaDetailsAgree /\ NoEmptyHeading

\* poi-detail-renderer.ts:5-8: an absent field is never rendered as an empty section;
\* active-captain-sections.ts:10-13: the two stay in lockstep.
\* (Not so of a mooring of which only the flag is known.)
MarinaLockstep == BuildActiveCaptainSections \subseteq RenderDescription

\* docs/notes-resource-format.md:195-197: no information in the HTML is missing from the
\* sections.  (Not so of the line of the last update, of any point of interest.)
MarinaHtmlMirrored == RenderDescription \subseteq BuildActiveCaptainSections
=============================================================================
