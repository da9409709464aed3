--------------------------- MODULE MCAuthSessions ---------------------------
EXTENDS AuthSessions, TLC

Symmetry == Permutations(Handlers) \cup Permutations(Sessions) \cup Permutations(Users)

=============================================================================
