\* Two calls at a time, which may be cut off: one campaign, one item, one proposal.
SPECIFICATION FairSpec
CONSTANTS
    Users = {u1, u2}
    Publishers = {u1}
    k1 = k1
    k2 = k2
    i1 = i1
    i2 = i2
    Campaigns <- MCOneCampaign
    Items <- MCOneItem
    CampaignOf <- MCOneCampaignOf
    Proposals = {p1}
    Calls = {c1, c2}
    None = None
    Faults = TRUE
INVARIANTS
    NobodyReviewsOwn
PROPERTIES
    RecordSettles
