----------------------------- MODULE MCScopeRules -----------------------------
EXTENDS ScopeRules
=============================================================================
