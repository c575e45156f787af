------------------------- MODULE MCReviewCampaigns -------------------------
(***************************************************************************)
(* ReviewCampaigns on small instances: one campaign with two items and one *)
(* without any.                                                            *)
(***************************************************************************)
EXTENDS ReviewCampaigns, TLC

CONSTANTS k1, k2, i1, i2

MCCampaigns == {k1, k2}
MCItems == {i1, i2}
MCCampaignOf == [i \in MCItems |-> k1]

\* One campaign; with one item.
MCOneCampaign == {k1}
MCOneItem == {i1}
MCOneCampaignOf == [i \in MCOneItem |-> k1]

Symmetric == Permutations(MCItems) \cup Permutations(Calls) \cup Permutations(Proposals)

=============================================================================
