------------------------ MODULE MCDesktopApplication ------------------------
EXTENDS DesktopApplication

CONSTANTS home, user, d1, d2, f1, f2, x, y, n1, w1

MCHomePath == <<home, user>>

\* The paths that other clients use: the entries of /home/user.
MCPaths == [parents : {<<home, user>>}, name : {user}]
=============================================================================
