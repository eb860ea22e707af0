------------------------------- MODULE MCDBPool --------------------------------
EXTENDS DBPool
================================================================================
