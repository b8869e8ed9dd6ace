-------------------------- MODULE MCThreadLifecycle --------------------------
EXTENDS ThreadLifecycle
=============================================================================
