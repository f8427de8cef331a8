\* Two addresses, one payload type, a stream that begins anew once, one copy.
CONSTANTS
    Address = {1, 2}
    Port = {0, 4000}
    PayloadType = {0}
    MaxSource = 1
    MaxCopies = 1
SPECIFICATION NegotiationSpec
INVARIANTS
    NegotiationTypeOK
    ReadsWhatIsMeant
    
    HearsAsAgreed
