----------------------------- MODULE MCReading -----------------------------
EXTENDS Reading
=============================================================================
