\* One call at a time: a publisher and a contributor, two campaigns, two items.
SPECIFICATION Spec
CONSTANTS
    Users = {u1, u2}
    Publishers = {u1}
    k1 = k1
    k2 = k2
    i1 = i1
    i2 = i2
    Campaigns <- MCCampaigns
    Items <- MCItems
    CampaignOf <- MCCampaignOf
    Proposals = {p1, p2}
    Calls = {c1}
    None = None
    Faults = FALSE
SYMMETRY Symmetric
INVARIANTS
    RulesHold
PROPERTIES
    SettledStays
    ReviewerGates
