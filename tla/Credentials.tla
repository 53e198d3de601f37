---------------------------- MODULE Credentials -----------------------------
(***************************************************************************)
(* The credentials of magneticow (cmd/magneticow/main.go): the map that    *)
(* BasicAuth looks users up in, and the goroutine that clears and reloads  *)
(* it from a file on SIGHUP while requests are served.                     *)
(*                                                                         *)
(* A line of the file is an entry [user, hash] or malformed; a password is *)
(* identified with its hash.  The file may be replaced at any time, be     *)
(* unreadable, or fail to be read halfway.                                 *)
(***************************************************************************)
EXTENDS Integers, Sequences, FiniteSets, FiniteSetsExt, SequencesExt

CONSTANTS
    User, Hash,
    Files,     \* contents of the credentials file: [lines, terminated]
    Malformed, \* a line that the regular expression refuses
    Request,   \* concurrent requests
    NoAuth     \* whether --no-auth may be supplied: a set of booleans

Line == [user : User, hash : Hash] \cup {Malformed}

ASSUME CredentialsAssumption ==
    /\ Malformed \notin [user : User, hash : Hash]
    /\ Files \subseteq [lines : Seq(Line), terminated : BOOLEAN]
    /\ NoAuth \subseteq BOOLEAN

VARIABLES
    noAuth,      \* opts.Credentials = nil
    credentials, \* opts.Credentials: users -> hashes
    locked,      \* a writer holds CredentialsRWMutex between two steps
    file,        \* the file as it is on disk
    opened,      \* the file that loadCred has opened
    pc,          \* where the SIGHUP goroutine is
    sighup,      \* a signal waits in sighupChan, which has room for one
    request,     \* the requests being served
    unseen       \* history: a SIGHUP was sent since the file was last opened

vars == <<noAuth, credentials, locked, file, opened, pc, sighup, request, unseen>>

(***************************************************************************)
(* loadCred.                                                               *)
(***************************************************************************)
\* ReadBytes reports the end of the file together with a last line that has
\* no newline: that line is dropped.
ReadLines(f) == IF f.terminated \/ f.lines = << >> THEN f.lines ELSE Front(f.lines)

\* The lines before the first that is malformed, where loadCred gives up.
Accepted(lines) ==
    LET bad == {i \in DOMAIN lines : lines[i] = Malformed}
    IN  IF bad = {} THEN lines ELSE SubSeq(lines, 1, Min(bad) - 1)

\* The map after the lines have been entered one after the other.
Enter(cred, lines) ==
    LET of(u) == {i \in DOMAIN lines : lines[i].user = u}
    IN  [u \in DOMAIN cred \cup {lines[i].user : i \in DOMAIN lines} |->
            IF of(u) # {} THEN lines[Max(of(u))].hash ELSE cred[u]]

NoFile == [lines |-> << >>, terminated |-> TRUE]
Idle == [state |-> "idle"]

\* parseFlags: magneticow does not start with a file that does not load.
Init ==
    /\ noAuth \in NoAuth
    /\ file \in Files
    /\ IF noAuth
       THEN credentials = << >> /\ opened = NoFile
       ELSE /\ Accepted(ReadLines(file)) = ReadLines(file)
            /\ credentials = Enter(<< >>, ReadLines(file)) /\ opened = file
    /\ locked = FALSE
    /\ pc = "wait"
    /\ sighup = FALSE
    /\ request = [r \in Request |-> Idle]
    /\ unseen = FALSE

(***************************************************************************)
(* The SIGHUP goroutine.                                                   *)
(***************************************************************************)
\* Variant: the channel has no room, and a signal that finds nobody waiting is
\* lost.
BugSighup ==
    /\ sighup' = (sighup \/ pc = "wait")
    /\ unseen' = ~noAuth
    /\ UNCHANGED <<noAuth, credentials, locked, file, opened, pc, request>>

\* signal.Notify: a signal that finds the channel full is lost.
Sighup ==
    /\ sighup' = TRUE
    /\ unseen' = ~noAuth
    /\ UNCHANGED <<noAuth, credentials, locked, file, opened, pc, request>>

Receive ==
    /\ pc = "wait" /\ sighup
    /\ sighup' = FALSE
    /\ pc' = "clear"
    /\ UNCHANGED <<noAuth, credentials, locked, file, opened, request, unseen>>

\* Variant: the map is not cleared.
BugCleared == credentials

Cleared == << >>

\* Under --no-auth the goroutine goes back to the channel with the lock held.
Clear ==
    /\ pc = "clear" /\ ~locked
    /\ \/ noAuth /\ locked' = TRUE /\ pc' = "wait" /\ UNCHANGED credentials
       \/ ~noAuth /\ credentials' = Cleared /\ pc' = "open" /\ UNCHANGED locked
    /\ UNCHANGED <<noAuth, file, opened, sighup, request, unseen>>

\* os.Open; a failure is logged and leaves the map empty.
Open ==
    /\ pc = "open"
    /\ \/ opened' = file /\ pc' = "load"
       \/ opened' = NoFile /\ pc' = "wait"
    /\ unseen' = FALSE
    /\ UNCHANGED <<noAuth, credentials, locked, file, sighup, request>>

\* Variant: the error path forgets the lock.
BugLoadCred ==
    /\ pc = "load" /\ ~locked
    /\ credentials' = Enter(credentials, Accepted(ReadLines(opened)))
    /\ locked' = (Accepted(ReadLines(opened)) # ReadLines(opened))
    /\ pc' = "wait"
    /\ UNCHANGED <<noAuth, file, opened, sighup, request, unseen>>

\* The loop runs with the lock held.  It enters all lines up to the first bad
\* one, or fewer when reading fails.
loadCred ==
    /\ pc = "load" /\ ~locked
    /\ LET lines == Accepted(ReadLines(opened))
       IN  \E n \in 0..Len(lines) : credentials' = Enter(credentials, SubSeq(lines, 1, n))
    /\ pc' = "wait"
    /\ UNCHANGED <<noAuth, locked, file, opened, sighup, request, unseen>>

(***************************************************************************)
(* BasicAuth.  The lock is held for the lookup only.                       *)
(***************************************************************************)
Serve(r, new) ==
    /\ request' = [request EXCEPT ![r] = new]
    /\ UNCHANGED <<noAuth, credentials, locked, file, opened, pc, sighup, unseen>>

\* A request, with or without an Authorization header.
Arrive(r, u, p, header) ==
    /\ request[r].state = "idle"
    /\ Serve(r, [state |-> "arrived", user |-> u, password |-> p, header |-> header])

\* opts.Credentials is compared with nil without the lock.
BasicAuth(r) ==
    /\ request[r].state = "arrived"
    /\ \/ noAuth /\ Serve(r, [state |-> "granted"])
       \/ ~noAuth /\ ~request[r].header /\ Serve(r, [state |-> "denied"])
       \/ ~noAuth /\ request[r].header /\ Serve(r, [request[r] EXCEPT !.state = "lookup"])

Lookup(r) ==
    /\ request[r].state = "lookup" /\ ~locked
    /\ LET u == request[r].user
       IN  Serve(r, IF u \in DOMAIN credentials
                    THEN [state |-> "compare", password |-> request[r].password,
                          hashed |-> credentials[u]]
                    ELSE [state |-> "denied"])

Compare(r) ==
    /\ request[r].state = "compare"
    /\ Serve(r, [state |-> IF request[r].hashed = request[r].password
                           THEN "granted" ELSE "denied"])

Answered(r) == request[r].state \in {"granted", "denied"}

\* The handler has run, or authenticate has, and another request may come.
Finish(r) == Answered(r) /\ Serve(r, Idle)

\* The file is replaced by another.
Edit ==
    /\ file' \in Files
    /\ UNCHANGED <<noAuth, credentials, locked, opened, pc, sighup, request, unseen>>

-----------------------------------------------------------------------------
Serving(r) == BasicAuth(r) \/ Lookup(r) \/ Compare(r) \/ Finish(r)

Next ==
    \/ Sighup \/ Receive \/ Clear \/ Open \/ loadCred
    \/ \E r \in Request :
          \/ Serving(r)
          \/ \E u \in User, p \in Hash, header \in BOOLEAN : Arrive(r, u, p, header)
    \/ Edit

Spec == Init /\ [][Next]_vars

\* Goroutines run.  A reader that waits for the lock gets it: Go's RWMutex
\* lets the readers that wait go before the next writer.
FairSpec ==
    /\ Spec
    /\ WF_vars(Receive) /\ WF_vars(Clear) /\ WF_vars(Open) /\ WF_vars(loadCred)
    /\ \A r \in Request : WF_vars(Serving(r))

-----------------------------------------------------------------------------
\* Every variable has its type, and the lock is left behind only by --no-auth.
TypeOK ==
    /\ noAuth \in BOOLEAN /\ locked \in BOOLEAN /\ sighup \in BOOLEAN /\ unseen \in BOOLEAN
    /\ locked => noAuth
    /\ DOMAIN credentials \subseteq User
    /\ \A u \in DOMAIN credentials : credentials[u] \in Hash
    /\ file \in Files /\ opened \in Files \cup {NoFile}
    /\ pc \in {"wait", "clear", "open", "load"}
    /\ \A r \in Request :
          request[r].state \in {"idle", "arrived", "lookup", "compare", "granted", "denied"}

\* Once a reload is over, failed or not, every credential in force is a line
\* of the file that it opened: nothing of an earlier file survives.
NothingSurvivesReload ==
    pc = "wait" => \A u \in DOMAIN credentials :
        \E i \in DOMAIN opened.lines : opened.lines[i] = [user |-> u, hash |-> credentials[u]]

\* A SIGHUP, even one that finds the channel full and is lost, is followed by
\* opening the file: the last edit before a signal is always read.
SighupReloads == unseen ~> ~unseen

\* Every request is answered, also while credentials are reloaded and after
\* --no-auth has left the lock behind.
RequestsAnswered == \A r \in Request : request[r].state = "arrived" ~> Answered(r)

\* "Ignoring SIGHUP since `no-auth` was supplied": a signal is obeyed or ignored,
\* and the goroutine waits for the next.
SignalsAreHeard == pc = "clear" ~> pc = "wait"
=============================================================================
