--------------------------- MODULE MCClientSession ---------------------------
(* TLC instances of ClientSession.                                          *)
EXTENDS ClientSession, TLC

CONSTANTS alice, bob

\* A user of a Windows domain, as such users are used to give their name: \u
\* begins an escape in JSON, and what follows here ends none.
DomainUser == "corp\\user"
AwkwardNames == {DomainUser}
DomainNames == {"admin"} \cup AwkwardNames
AllNames == {"admin", alice, bob} \cup AwkwardNames

UserSymmetry == Permutations({alice, bob})
=============================================================================
