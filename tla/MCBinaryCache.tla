---------------------------- MODULE MCBinaryCache ----------------------------
EXTENDS BinaryCache

CONSTANTS crackme, original, patched    \* a binary and what it contains
=============================================================================
