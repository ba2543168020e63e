------------------------------ MODULE PoiDetails ------------------------------
(***************************************************************************)
(* The details a client asks for: a record of one of the chart sources, or *)
(* a point of interest of ActiveCaptain, each rendered twice.              *)
(***************************************************************************)
EXTENDS ChartDetails, MarinaDetails

DetailsInit == ChartInit /\ MarinaInit

DetailsNext ==
    \/ Carries /\ UNCHANGED marinaVars
    \/ MarinaCarries /\ UNCHANGED chartVars

DetailsSpec == DetailsInit /\ [][DetailsNext]_<<chartVars, marinaVars>>

-----------------------------------------------------------------------------
\* Whatever a source leaves out, the description and the sections of a point of interest
\* tell a skipper the same, but for the exceptions each of the two names, and no section
\* of the description stands without a line (the renderers and the *-sections modules).
DetailsAgree == ChartDetailsAgree /\ MarinaDetailsSound
=============================================================================
