\* One component at a time; each within its own bounds.
CONSTANTS
    Calls = {c1, c2}
    None = None
    MaxOps = 4
    DefaultOpen = TRUE
    MaxResizes = 3
    MaxSlides = 3
    Keys = {k1, k2}
    Clicks = {x1, x2}
    MaxVersion = 2
    Providers = {"PostgreSQL checkout-db"}
    Leaks = {"sk_test_", "AKIA"}
    Integrations = {"GitHub Actions"}
    CommonNames = {"api.prod.acme.dev", "app.prod.acme.dev"}
    Plaintexts = {"Confidential Payload 2026"}
    SeedLeases <- MCSeedLeases
    SeedCertificates <- MCSeedCertificates
    SeedRequests <- MCSeedRequests
    MaxId = 1004
    Items <- MCItems
    PointLabels <- MCPointLabels
    Configs <- MCConfigs
    NameKeys <- MCNameKeys
    LabelKeys <- MCLabelKeys
    Fields = {f1, f2}
    Messages = {m1, m2}
SPECIFICATION Spec
INVARIANTS
    TypeOK
    LateIsHarmless
    ShownIsTrue
PROPERTIES
    EffectsCatchUp
\* A component may have nothing left to do.
CHECK_DEADLOCK FALSE
