------------------------------ MODULE MCWarden ------------------------------
\* The warden's calls on one tenant, for TLC: callers are interchangeable.
EXTENDS TenantWarden, TLC

Interchangeable == Permutations(Callers)
=============================================================================
