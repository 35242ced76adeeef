--------------------------- MODULE MCOracleUpdates ---------------------------
EXTENDS OracleUpdates

=============================================================================
