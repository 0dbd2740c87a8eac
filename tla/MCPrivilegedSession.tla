------------------------ MODULE MCPrivilegedSession ------------------------
EXTENDS PrivilegedSession
=============================================================================
