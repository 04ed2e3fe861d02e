--------------------------- MODULE MCAccessGrants ---------------------------
EXTENDS AccessGrants, TLC

CredentialIds == Permutations(Credentials) \cup Permutations(Requests)

=============================================================================
