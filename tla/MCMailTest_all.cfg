SPECIFICATION FairSpec_MailTest
CONSTANTS
    NULL = NULL
    Machine = {0, 1}
    Client = {c1, c2}
    Main = c1
    Box = {0, 1}
    Destination <- ToOneBox
    MaxSent = 2
INVARIANTS DeliveredInOrder CanAcknowledge
PROPERTIES MailArrives MailTestEnds
