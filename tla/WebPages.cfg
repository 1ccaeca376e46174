SPECIFICATION StartsSpec
CONSTANTS
    OpenPages = {"home", "create", "certificate", "credentials", "policy"}
    Names <- SomeNames
    MaxSans = 1
    Days <- EdgeDays
    FormFields = {"acme_email", "dns_credential_id"}
    PublicFiles = {"cert"}
    Listings <- SomeListings
    MaxRequests = 2
    Certificates <- SomeCertificates
    Items <- SomeItems
    Providers = {"cloudflare", "custom"}
    Hours = {3, 4}
    Minutes = {0, 30}
INVARIANTS
    SettledAgrees
    ContentMatchesTitle
    PasswordsNeedDialog
    ValuesMatchForm
    PresetMatchesCron
    FormAgreesWithService
PROPERTIES
    SignInShown
    KeyHiddenInTime
