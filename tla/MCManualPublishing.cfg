SPECIFICATION Spec
CONSTANTS
    None = None
    Emails = {}
    MunicipalityOf <- MCMunicipalityOf
    NumberShape <- MCNumberShape
    UrlShape <- MCUrlShape
    TextShape <- MCTextShape
    Types = {"Service", "Organization", "Connection", "EChannel", "PrintableForm", "Phone", "ServiceLocation"}
    Held <- MCHeld
    Base <- MCBase
    Proposed <- MCProposed
    Context <- MCContext
    MaxDay = 4
    MaxEdits = 1
INVARIANTS
    ConversionsAgree
    EnteredLeavesSheet
    ChecksAgree
PROPERTIES
    ConfirmedIsInPtv
CHECK_DEADLOCK FALSE
