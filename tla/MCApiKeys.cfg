\* Two callees that share the store of records, and a caller.
SPECIFICATION Spec
CONSTANTS
    Segments <- Legal
    Callees <- TwoCallees
    KeyIds <- TwoKeyIds
    Secrets <- TwoSecrets
    Texts <- SomeTexts
INVARIANTS
    VerifiesExactlyIssued
    MaskedKeyUseless
