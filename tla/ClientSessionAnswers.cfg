CONSTANTS
    alice = alice
    bob = bob
    Names <- DomainNames
    Unreadable <- AwkwardNames
    MaxInFlight = 2
SPECIFICATION Spec
INVARIANTS
    RegistrationIsLogin
