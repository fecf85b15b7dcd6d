--------------------------- MODULE MCCarefulWrites --------------------------
EXTENDS CarefulWrites

CppOnly == {CppCarefulWrites}
=============================================================================
