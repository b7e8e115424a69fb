\* One purchase by either checkout whose capture the webhook fulfils, three
\* requests at a time, a death: redelivery finishes what a dead request left.
CONSTANTS
    Payments = {p1}
    Calls = {c1, c2, c3}
    Kinds = {"SUBSCRIPTION", "CREDIT_PACK_PURCHASE"}
    GenericKinds = {"CREDIT_PACK_PURCHASE"}
    EventIds = {TRUE, FALSE}
    Price = 2
    MaxDeclines = 0
    MaxFailures = 1
SPECIFICATION FairSpec

    
    
    
PROPERTIES
    
    
    
    WebhooksDrain
    
CHECK_DEADLOCK FALSE
