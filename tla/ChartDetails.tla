---------------------------- MODULE ChartDetails ----------------------------
(***************************************************************************)
(* The two renderings of a point of interest of the chart sources: the     *)
(* HTML description, and the sections a structured client draws instead.   *)
(* Each source writes them twice, from the same wire record, in a module   *)
(* of its own.  A record is a function from the fields it carries to what  *)
(* they hold; a rendering is the set of facts <<field, what is shown>> a   *)
(* reader learns from it.  Names, disclaimers and wording are left out.    *)
(* Records are built up one field at a time, as the wire may leave out any.*)
(***************************************************************************)
EXTENDS Integers, FiniteSets

CONSTANTS
    ChartKinds,     \* the kinds of record to render
    MaxFields       \* bound: how many fields of a record are filled in

VARIABLES kind, poi

chartVars == <<kind, poi>>

-----------------------------------------------------------------------------
(* What a field of the wire may hold, by how it is read. *)

Texts == {"text", "blank"}
Codes == {"code", "unlisted"}           \* in the table of the field, or not
Flags == {"Y", "N", "U"}
Numbers == {"number", "null"}

\* presentString
Present(r, fields) == {<<f, r[f]>> : f \in {g \in fields \cap DOMAIN r : r[g] # "blank"}}

\* finiteOrUndefined
Finite(r, fields) == {<<f, "number">> : f \in {g \in fields \cap DOMAIN r : r[g] = "number"}}

-----------------------------------------------------------------------------
(* NGA World Port Index ports. *)

PortCodes == {"harborSize", "harborType", "shelter", "harborUse", "repairCode", "drydock"}
PortFlags == {"erTide", "erSwell", "erIce", "erOther", "overheadLimits", "ptCompulsory",
              "ptAdvisable", "tugsAssist", "tugsSalvage", "medFacilities", "qtPratique",
              "suProvisions", "suWater", "suFuel", "suDiesel"}
PortNumbers == {"chDepth", "anDepth", "cpDepth", "otDepth", "tide", "maxVesselLength",
                "maxVesselBeam", "maxVesselDraft"}
PortTexts == {"alternateName", "countryName", "publicationNumber", "chartNumber", "navArea"}

\* labelFor: an unlisted code is shown nowhere.
LabelFor(r, fields) == {<<f, "code">> : f \in {g \in fields \cap DOMAIN r : r[g] = "code"}}

WpiFlag(r, f) == IF f \in DOMAIN r /\ r[f] \in {"Y", "N"} THEN r[f] ELSE "U"
Granted(r, fields) == {<<f, "Y">> : f \in {g \in fields : WpiFlag(r, g) = "Y"}}

MeterValue(r, fields) == Finite(r, fields)

EntranceRestrictions(r) == Granted(r, {"erTide", "erSwell", "erIce", "erOther"})
AvailableSupplies(r) == Granted(r, {"suProvisions", "suWater", "suFuel", "suDiesel"})

Overhead(r) == {<<"overheadLimits", v>> : v \in {WpiFlag(r, "overheadLimits")} \ {"U"}}

\* Salvage tugs are told of only where none assist.
Tugs(r) ==
    IF WpiFlag(r, "tugsAssist") = "Y" THEN {<<"tugsAssist", "Y">>}
    ELSE Granted(r, {"tugsSalvage"})

PilotagePhrase(r) ==
    CASE WpiFlag(r, "ptCompulsory") = "Y" -> {<<"ptCompulsory", "Y">>}
      [] WpiFlag(r, "ptCompulsory") # "Y" /\ WpiFlag(r, "ptAdvisable") = "Y" -> {<<"ptAdvisable", "Y">>}
      [] OTHER -> {<<"ptCompulsory", v>> : v \in {WpiFlag(r, "ptCompulsory")} \ {"U"}}

PilotageItems(r) ==
    IF WpiFlag(r, "ptCompulsory") # "U" THEN {<<"ptCompulsory", WpiFlag(r, "ptCompulsory")>>}
    ELSE Granted(r, {"ptAdvisable"})

\* portDisplayName: the header adds the other name and the country to the name.
PortDisplayName(r) == Present(r, {"alternateName", "countryName"})

RenderWpiDetail(r) ==
    PortDisplayName(r) \cup LabelFor(r, PortCodes) \cup EntranceRestrictions(r) \cup Overhead(r)
    \cup MeterValue(r, PortNumbers) \cup PilotagePhrase(r) \cup Tugs(r)
    \cup Granted(r, {"medFacilities", "qtPratique"}) \cup AvailableSupplies(r)
    \cup Present(r, {"publicationNumber", "chartNumber", "navArea"})

BuildWpiSections(r) ==
    LabelFor(r, PortCodes) \cup EntranceRestrictions(r) \cup Overhead(r)
    \cup MeterValue(r, PortNumbers) \cup PilotageItems(r) \cup Tugs(r)
    \cup Granted(r, {"medFacilities", "qtPratique"}) \cup AvailableSupplies(r)
    \cup Present(r, {"publicationNumber", "chartNumber", "navArea"})

-----------------------------------------------------------------------------
(* NOAA ENC wrecks, obstructions and rocks. *)

EncKinds == {"wreck", "obstruction", "rock"}

ASSUME ChartAssumption ==
    ChartKinds \subseteq EncKinds \cup {"port", "lock", "dam", "notice", "discrepancy", "light",
                                        "station", "seamark"}

Categories == {"dangerous", "non-dangerous", "foul ground", "blank"}
Qualities == {"least depth", "depth known", "unlisted"}
Dates == {"month", "day", "no date"}

LookupCode(r, fields) == LabelFor(r, fields)

\* lookupParsedCode of QUASOU, which the depth's label reads too
PositionQuality(r) ==
    {<<"QUASOU", r[f]>> : f \in {g \in {"QUASOU"} \cap DOMAIN r : r[g] # "unlisted"}}
EncDepthLabel(r) ==
    IF <<"QUASOU", "least depth">> \in PositionQuality(r) THEN "least depth" ELSE "charted depth"

CategoryLabel(layer, r) ==
    CASE layer = "wreck" -> Present(r, {"CATWRK"})
      [] layer = "obstruction" -> Present(r, {"CATOBS"})
      [] OTHER -> {}

ClassifyDangerous(category) == {c \in category : c[2] \in {"dangerous", "non-dangerous"}}

\* parseSordat: a month or a day that is none is no date at all.
Surveyed(r) == {<<"SORDAT", r[f]>> : f \in {g \in {"SORDAT"} \cap DOMAIN r : r[g] # "no date"}}

\* The sounding, and its accuracy with it.
Sounding(r) ==
    IF Finite(r, {"VALSOU"}) = {} THEN {}
    ELSE {<<"VALSOU", EncDepthLabel(r)>>} \cup Finite(r, {"SOUACC"})

RenderEncDirectDetail(layer, r) ==
    CategoryLabel(layer, r) \cup LookupCode(r, {"WATLEV", "TECSOU"}) \cup Sounding(r)
    \cup PositionQuality(r) \cup Present(r, {"OBJNAM", "INFORM", "DSNM"})
    \cup (IF Present(r, {"DSNM"}) = {} THEN {} ELSE Surveyed(r))

\* The category is a flag where it tells of danger, and a text where it does not.
BuildNoaaEncSections(layer, r) ==
    LET category == CategoryLabel(layer, r)
        dangerous == ClassifyDangerous(category)
    IN (IF dangerous # {} THEN dangerous ELSE category)
       \cup LookupCode(r, {"WATLEV", "TECSOU"}) \cup Sounding(r) \cup PositionQuality(r)
       \cup Present(r, {"OBJNAM", "INFORM", "DSNM"}) \cup Surveyed(r)

-----------------------------------------------------------------------------
(* USACE locks and dams. *)

LockTexts == {"PMSNAME", "RIVER", "GATETYPE", "STATE"}
LockNumbers == {"RIVERMI", "LENGTH", "WIDTH", "LIFT", "YEAROPEN"}
DamTexts == {"NAME", "RIVER_OR_STREAM", "CITY", "STATE", "PRIMARY_PURPOSE", "PRIMARY_DAM_TYPE",
             "HAZARD_POTENTIAL", "CONDITION_ASSESSMENT", "PRIMARY_OWNER_TYPE"}
DamNumbers == {"DAM_HEIGHT", "DAM_LENGTH", "YEAR_COMPLETED"}

\* riverParagraph: the mile is told only of a river that has a name.
RiverParagraph(r, river, mile) ==
    IF Present(r, {river}) = {} THEN {} ELSE Present(r, {river}) \cup Finite(r, mile)

RenderLock(r) ==
    Present(r, LockTexts \ {"RIVER"}) \cup RiverParagraph(r, "RIVER", {"RIVERMI"})
    \cup Finite(r, LockNumbers \ {"RIVERMI"})
RenderDam(r) ==
    Present(r, DamTexts \ {"RIVER_OR_STREAM"}) \cup RiverParagraph(r, "RIVER_OR_STREAM", {})
    \cup Finite(r, DamNumbers)

LockSections(r) == Present(r, LockTexts) \cup Finite(r, LockNumbers)
DamSections(r) == Present(r, DamTexts) \cup Finite(r, DamNumbers)

-----------------------------------------------------------------------------
(* USCG local notices, notices and discrepancies. *)

NoticeFields == {"subCategory", "noticeType", "waterway", "description", "beginDate", "endDate",
                 "district", "timestamp"}
DiscrepancyFields == {"waterway", "llnr", "bnm", "district", "timestamp"}

\* The parsed record has a field only where the wire has something to say.
Given(r, fields) == {<<f, r[f]>> : f \in fields \cap DOMAIN r}

\* humanizeStatus: a code that is not listed is shown as it is.
HumanizeStatus(r) == Given(r, {"status"})

\* aidPhrase: the color and the structure, each as it is where it is not listed.
AidPhrase(r) == Given(r, {"color", "descriptionType"})

Correction(r) ==
    {fact \in Given(r, {"correctionStatus"}) : fact[2] # "unreported"}

Provenance(r) == Given(r, {"district", "timestamp"})

NoticeCategory(r) ==
    CASE {"subCategory", "noticeType"} \subseteq DOMAIN r -> Given(r, {"subCategory", "noticeType"})
      [] "subCategory" \in DOMAIN r /\ "noticeType" \notin DOMAIN r -> Given(r, {"subCategory"})
      [] OTHER -> Given(r, {"noticeType"})

\* Fault: the dates are told of a notice that has both.
EffectiveOfBoth(r) ==
    IF {"beginDate", "endDate"} \subseteq DOMAIN r THEN Given(r, {"beginDate", "endDate"}) ELSE {}

\* Each date is told on its own.
Effective(r) ==
    CASE {"beginDate", "endDate"} \subseteq DOMAIN r -> Given(r, {"beginDate", "endDate"})
      [] "beginDate" \in DOMAIN r /\ "endDate" \notin DOMAIN r -> Given(r, {"beginDate"})
      [] OTHER -> Given(r, {"endDate"})

RenderNotice(r) ==
    NoticeCategory(r) \cup Given(r, {"waterway", "description"}) \cup Effective(r) \cup Provenance(r)

RenderDiscrepancy(r) ==
    HumanizeStatus(r) \cup Correction(r) \cup AidPhrase(r) \cup Given(r, {"waterway", "llnr", "bnm"})
    \cup Provenance(r)

NoticeSections(r) ==
    Given(r, {"subCategory", "noticeType", "waterway", "beginDate", "endDate", "description"})
    \cup Provenance(r)

LnmDiscrepancySections(r) ==
    HumanizeStatus(r) \cup Correction(r) \cup AidPhrase(r) \cup Given(r, {"waterway", "llnr", "bnm"})
    \cup Provenance(r)

-----------------------------------------------------------------------------
(* USCG Light List aids. *)

LightFields == {"nominalRange", "focalPlane", "structureType", "structureHeight", "daymarkColor",
                "daymarkShape", "soundEmitterType", "racon", "remark", "modifiedDate", "inactive"}

\* A character that comes to no words is none.
LightCharacterPhrase(r) ==
    {fact \in Given(r, {"lightChar"}) : fact[2] # "blank"}

LightLine(r) == LightCharacterPhrase(r) \cup Given(r, {"nominalRange", "focalPlane"})
StructureLine(r) == Given(r, {"structureType", "structureHeight"})
DaymarkLine(r) == Given(r, {"daymarkColor", "daymarkShape"})

RenderLightListDetail(r) ==
    LightLine(r) \cup StructureLine(r) \cup DaymarkLine(r)
    \cup Given(r, {"soundEmitterType", "racon", "remark", "modifiedDate", "inactive"})

BuildLightListSections(r) ==
    LightCharacterPhrase(r) \cup Given(r, LightFields)

-----------------------------------------------------------------------------
(* NOAA CO-OPS stations. *)

RenderCoopsDetail(r) == Given(r, {"state", "timezone"})
BuildCoopsSections(r) == Given(r, {"state", "timezone"})

-----------------------------------------------------------------------------
(* OpenSeaMap elements.  The family of attributes is that of the type, so an element *)
(* without one has none. *)

LightTags == {"light:character", "light:colour", "light:period", "light:range", "light:height",
              "light:exhibition"}
FamilyTags == {"category", "colour", "shape"}

ReadFamilyTags(r) ==
    IF Present(r, {"seamark:type"}) = {} THEN {} ELSE Present(r, FamilyTags)
ReadLightTags(r) == Present(r, LightTags)

\* buildHeader: the words for the type, where it is listed
SeamarkLabel(r) == LabelFor(r, {"seamark:type"})

RenderOpenSeaMapDetail(r) ==
    SeamarkLabel(r) \cup ReadFamilyTags(r) \cup ReadLightTags(r) \cup Present(r, {"information", "notice"})

BuildOpenSeaMapSections(r) ==
    ReadFamilyTags(r) \cup ReadLightTags(r) \cup Present(r, {"information", "notice"})

-----------------------------------------------------------------------------
(* All of them. *)

All(fields, values) == fields \X values

\* The fields a record of the kind may carry, with what they may hold.
Wire(k) ==
    CASE k = "port" -> All(PortCodes, Codes) \cup All(PortFlags, Flags)
                       \cup All(PortNumbers, Numbers) \cup All(PortTexts, Texts)
      [] k \in EncKinds ->
            All({"CATWRK", "CATOBS"}, Categories) \cup All({"QUASOU"}, Qualities)
            \cup All({"WATLEV", "TECSOU"}, Codes) \cup All({"VALSOU", "SOUACC"}, Numbers)
            \cup All({"OBJNAM", "INFORM", "DSNM"}, Texts) \cup All({"SORDAT"}, Dates)
      [] k = "lock" -> All(LockTexts, Texts) \cup All(LockNumbers, Numbers)
      [] k = "dam" -> All(DamTexts, Texts) \cup All(DamNumbers, Numbers)
      [] k = "notice" -> All(NoticeFields, {"text"})
      [] k = "discrepancy" -> All(DiscrepancyFields, {"text"})
            \cup All({"status", "color", "descriptionType"}, Codes)
            \cup All({"correctionStatus"}, {"text", "unreported"})
      [] k = "light" -> All(LightFields, {"text"}) \cup All({"lightChar"}, Texts)
      [] k = "station" -> All({"state", "timezone"}, {"text"})
      [] k = "seamark" -> All({"seamark:type"}, Codes)
            \cup All(FamilyTags \cup LightTags \cup {"information", "notice"}, Texts)

Html(k, r) ==
    CASE k = "port" -> RenderWpiDetail(r)
      [] k \in EncKinds -> RenderEncDirectDetail(k, r)
      [] k = "lock" -> RenderLock(r)
      [] k = "dam" -> RenderDam(r)
      [] k = "notice" -> RenderNotice(r)
      [] k = "discrepancy" -> RenderDiscrepancy(r)
      [] k = "light" -> RenderLightListDetail(r)
      [] k = "station" -> RenderCoopsDetail(r)
      [] k = "seamark" -> RenderOpenSeaMapDetail(r)

Sections(k, r) ==
    CASE k = "port" -> BuildWpiSections(r)
      [] k \in EncKinds -> BuildNoaaEncSections(k, r)
      [] k = "lock" -> LockSections(r)
      [] k = "dam" -> DamSections(r)
      [] k = "notice" -> NoticeSections(r)
      [] k = "discrepancy" -> LnmDiscrepancySections(r)
      [] k = "light" -> BuildLightListSections(r)
      [] k = "station" -> BuildCoopsSections(r)
      [] k = "seamark" -> BuildOpenSeaMapSections(r)

ChartInit == kind \in ChartKinds /\ poi = <<>>

\* The record carries one more field.
Carries ==
    /\ Cardinality(DOMAIN poi) < MaxFields
    /\ \E fact \in Wire(kind) :
          /\ fact[1] \notin DOMAIN poi
          /\ poi' = [f \in DOMAIN poi \cup {fact[1]} |-> IF f = fact[1] THEN fact[2] ELSE poi[f]]
    /\ UNCHANGED kind

ChartSpec == ChartInit /\ [][Carries]_chartVars

-----------------------------------------------------------------------------
\* What the description tells and the sections do not: the header's other name and
\* country of a port, the words for a seamark's type, and that a pilot is advisable
\* where none is compulsory.
OnlyInHtml(k, r) ==
    CASE k = "port" -> PortDisplayName(r) \cup
            (IF WpiFlag(r, "ptCompulsory") = "N" THEN Granted(r, {"ptAdvisable"}) ELSE {})
      [] k = "seamark" -> SeamarkLabel(r)
      [] OTHER -> {}

\* What the sections tell and the description does not: that no pilot is compulsory
\* where one is advisable, the survey date of a feature without a data set, and the
\* mile of a river without a name.
OnlyInSections(k, r) ==
    CASE k = "port" /\ Granted(r, {"ptAdvisable"}) # {} ->
            {<<"ptCompulsory", v>> : v \in {WpiFlag(r, "ptCompulsory")} \cap {"N"}}
      [] k \in EncKinds /\ Present(r, {"DSNM"}) = {} -> Surveyed(r)
      [] k = "lock" /\ Present(r, {"RIVER"}) = {} -> Finite(r, {"RIVERMI"})
      [] OTHER -> {}

\* The description and the sections of a record tell the same, but for the facts
\* named above, whichever of its fields the wire leaves out: no sounding, clearance,
\* danger or date of a notice is lost to either kind of client.
ChartDetailsAgree ==
    /\ Html(kind, poi) \ Sections(kind, poi) = OnlyInHtml(kind, poi)
    /\ Sections(kind, poi) \ Html(kind, poi) = OnlyInSections(kind, poi)

\* docs/notes-resource-format.md:196 says they tell the same, without exception.
\* (Not so: ChartDetailsAgree names the exceptions.)
SectionsMirrorHtml == Html(kind, poi) = Sections(kind, poi)
=============================================================================
