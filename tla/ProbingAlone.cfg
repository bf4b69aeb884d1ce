SPECIFICATION Spec
CONSTANTS
    good = good
    bad = bad
    resets = resets
    stays = stays
    named = named
    Probes <- MCProbes
    Cases <- MCCases
    Excluded <- MCExcluded
    Only <- MCCases
    FamilyOf <- MCFamilyOf
    Accepted <- MCAccepted
    Resetting <- MCResets
    Sticky <- MCSticky
    KeepProbes = FALSE
    FreshSession = TRUE
    MaxUpsets = 1
    MaxBacklog = 2
INVARIANTS
    CaseIsAlone
CHECK_DEADLOCK FALSE
