-------------------------- MODULE MCShadowSession --------------------------
EXTENDS ShadowSession
=============================================================================
