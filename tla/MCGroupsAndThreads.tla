-------------------------- MODULE MCGroupsAndThreads ---------------------------
(* Newsrcs of three groups.                                                    *)
(* Three message ids, named before they arrive or after, on lines that agree,  *)
(* contradict each other, repeat an id or break off; two subjects that start   *)
(* alike and one that does not; equal and different dates.                     *)
EXTENDS GroupsAndThreads

MCNames == {"a", "b", "c", "d"}
MCRank == [a |-> 1, b |-> 2, c |-> 3, d |-> 4]
\* A sound newsrc, and one with a duplicate, a comment and a group turned off.
MCFiles == {<< <<"a", ":">>, <<"b", ":">>, <<"c", ":">> >>,
            << <<"b", ":">>, <<"a", "!">>, <<"b", ":">> >>,
            << <<"d", " ">>, <<"c", ":">>, <<"a", ":">> >>}
MCSuppose == {[a |-> 0, b |-> 1, c |-> 1, d |-> 1], [a |-> 1, b |-> 0, c |-> Gone, d |-> 0]}
MCLimits == {{}, {"a"}}

--------------------------------------------------------------------------------

CONSTANTS id1, id2, id3, s1, s2, s3

MCIds == {id1, id2, id3}
MCSubjects == {s1, s2, s3}
MCDates == 1 .. 2
MCPrefix == [s \in MCSubjects |-> IF s = s3 THEN s3 ELSE s1]

Of(a, subjs, dates, lines) == [id : {a}, subj : subjs, date : dates, refs : lines]
MCPosts ==
  Of(id1, {s1, s3}, {1, 2}, {<<>>, <<id2>>, <<id3>>, <<id2, id3>>, <<id3, id2>>})
  \cup Of(id2, {s2}, {1, 2}, {<<>>, <<id1>>, <<id3>>, <<id1, id3>>, <<id1, Junk, id3>>, <<id3, id1, id3>>})
  \cup Of(id3, {s3}, {2}, {<<>>, <<id1>>, <<id2>>, <<id1, id2>>, <<id2, id1>>, <<id2, id3>>, <<id2, Junk>>})
================================================================================
