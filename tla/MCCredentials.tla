--------------------------- MODULE MCCredentials ----------------------------
(***************************************************************************)
(* Small instances of Credentials.                                         *)
(***************************************************************************)
EXTENDS Credentials

CONSTANTS u1, u2, p1, p2, r1

MCUser == {u1, u2}
MCHash == {p1, p2}
MCRequest == {r1}
Entry(u, p) == [user |-> u, hash |-> p]
File(ls, t) == [lines |-> ls, terminated |-> t]

\* Two users; one of them with a changed password; a user listed twice, with
\* no newline at the end; a malformed line in between.
MCFiles == {File(<<Entry(u1, p1), Entry(u2, p1)>>, TRUE),
            File(<<Entry(u1, p2)>>, TRUE),
            File(<<Entry(u2, p1), Entry(u2, p2)>>, FALSE),
            File(<<Entry(u1, p1), Malformed, Entry(u2, p2)>>, TRUE)}
MCBoth == {TRUE, FALSE}
MCNoAuth == {TRUE}
=============================================================================
