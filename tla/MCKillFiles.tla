----------------------------- MODULE MCKillFiles -------------------------------
EXTENDS KillFiles
CONSTANTS f, o1, o2, o3, o4, o5, l1, l2
MCReply == <<0, 1, 1>>
MCSubjectOf == <<1, 1, 2>>
MCWalk == <<1, 2, 3, f, o1, o2, o3, o4, o5>>
================================================================================
