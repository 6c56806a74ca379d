\* A rule in every pass that sees part of what it names.
SPECIFICATION RulesSpec
CONSTANTS
    Cases <- MCCases
    Libraries <- MCLibraries
    unaliased <- Unalias
    plain <- Plain
    generic <- mentionsTypeParameter
    corresponds <- correspond
INVARIANTS
    ValidatedNeverFails
    PassesAgree
    SeeingAllApplies
    WrittenSlotsLink
CHECK_DEADLOCK FALSE
