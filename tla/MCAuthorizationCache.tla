------------------------ MODULE MCAuthorizationCache ------------------------
EXTENDS AuthorizationCache, TLC

=============================================================================
