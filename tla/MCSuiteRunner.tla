---------------------------- MODULE MCSuiteRunner ----------------------------
(* Suites and command lines on which TLC runs SuiteRunner.                 *)
EXTENDS SuiteRunner

File(id, level, conforms) ==
    [id |-> id, level |-> level, decodes |-> TRUE, conforms |-> conforms, lethal |-> FALSE]

\* Three tests of levels in Ls, each passed by the server or not.
Trios(Ls) ==
    {<<File(1, x[1], x[4]), File(2, x[2], x[5]), File(3, x[3], x[6])>>
        : x \in Ls \X Ls \X Ls \X BOOLEAN \X BOOLEAN \X BOOLEAN}

BadFile    == [File(1, 0, TRUE) EXCEPT !.decodes = FALSE]
LethalFile == [File(2, 1, TRUE) EXCEPT !.lethal = TRUE]

AllSuites ==
    Trios({0, 1, Ext}) \cup
    {<<File(1, 0, TRUE), BadFile>>, <<LethalFile, File(1, 0, TRUE)>>,
     <<File(2, 1, FALSE), File(2, 0, TRUE)>>}

Line(level, test, reset, file) ==
    [level |-> level, test |-> test, reset |-> reset, file |-> file]

AllRequests ==
    {Line(-1, NoTest, TRUE, TRUE), Line(-1, NoTest, FALSE, FALSE),
     Line(1, NoTest, TRUE, FALSE), Line(-1, 2, TRUE, FALSE), Line(4, NoTest, TRUE, TRUE)}

=============================================================================
