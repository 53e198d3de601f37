------------------------------ MODULE MCLeech -------------------------------
(***************************************************************************)
(* Small instances of Leech: metadata of one piece and a half.             *)
(***************************************************************************)
EXTENDS Leech

Info(p, pl, l, fs) == [pieces |-> p, pieceLength |-> pl, length |-> l, files |-> fs]

\* One file, several, none with contents, a negative size that the piece count
\* does not betray, two dictionaries that validateInfo refuses, and a negative
\* piece length that it accepts.
MCInfos == {Info(40, 2, 3, << >>), Info(40, 2, 0, <<3, 1>>), Info(0, 0, 0, << >>),
            Info(20, 2, 0, <<3, -1>>), Info(21, 2, 2, << >>), Info(20, 2, 5, << >>),
            Info(20, -1, 1, << >>)}
MCIndexes == -1..2
MCBoth == {TRUE, FALSE}
=============================================================================
