SPECIFICATION Spec
CONSTANTS
    page_ = page_
    phone = phone
    client = client
    AddressIds = {a1, a2}
    MaxKeys = 2
    Areas = {north, south}
    Callers = {page_, phone, client}
    Page = page_
    May <- PageAndPhone
    Kinds = {"LOCAL_CURRENT", "OVERSEAS", "PAST"}
    Patches <- Moves
    Alone = {client}
    None = None
    Same = Same
INVARIANTS ReadyIsActive VotesWhereCurrent OneDeviceSigns
PROPERTIES ActivatedByBoth
CHECK_DEADLOCK FALSE
