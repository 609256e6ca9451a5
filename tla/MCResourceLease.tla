-------------------------- MODULE MCResourceLease --------------------------
EXTENDS ResourceLease
CONSTANTS a, b, c
=============================================================================
