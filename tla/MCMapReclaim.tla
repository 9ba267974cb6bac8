---------------------------- MODULE MCMapReclaim ----------------------------
EXTENDS MapReclaim
=============================================================================
