------------------------- MODULE MCResearchCampaign -------------------------
EXTENDS ResearchCampaign

CONSTANTS momentum, reversion, volatility, malformed

SomeSpecs == <<momentum, malformed, reversion, momentum, volatility, reversion>>

RepeatedSpecs == <<momentum, reversion, momentum>>

(* One of them has walk-forward windows that reach into the TEST period.    *)
SomeConfigs ==
    [eligibility : Eligibilities, candidates : {5, 6}, experiments : {1, 3, 6},
     reaches : {FALSE}]
    \union [eligibility : {"recorded"}, candidates : {5}, experiments : {6},
            reaches : {TRUE}]

OpenConfig ==
    [eligibility : {"recorded"}, candidates : {3}, experiments : {6},
     reaches : {FALSE}]

MalformedSpecs == {malformed}
=============================================================================
