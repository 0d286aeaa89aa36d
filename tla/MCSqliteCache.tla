---------------------------- MODULE MCSqliteCache ----------------------------
EXTENDS SqliteCache, MCBlobValues
==============================================================================
