------------------------------ MODULE MCSession ------------------------------
\* Two playlists, of which one is there at first.
EXTENDS Session

CONSTANTS p1, p2
=============================================================================
