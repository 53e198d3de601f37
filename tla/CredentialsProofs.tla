-------------------------- MODULE CredentialsProofs -------------------------
(***************************************************************************)
(* Proofs about Credentials, for all contents of the file, all users and   *)
(* any number of requests: what is in force after a reload comes from the  *)
(* file that it opened, and the lock is left behind by --no-auth only.     *)
(***************************************************************************)
EXTENDS Credentials, WellFoundedInduction, TLAPS

(***************************************************************************)
(* Least and greatest elements.                                            *)
(***************************************************************************)
\* Min finds the first malformed line.
LEMMA Least ==
    ASSUME NEW S \in SUBSET Nat, S # {}
    PROVE  Min(S) \in S /\ \A y \in S : Min(S) <= y
<1>1. \E x \in S : \A y \in S : ~(<<y, x>> \in OpToRel(<, Nat))
  BY NatLessThanWellFounded, WFMin
<1>2. PICK x \in S : \A y \in S : ~(y < x)
  BY <1>1 DEF OpToRel
<1>3. \A y \in S : x <= y
  BY <1>2
<1> QED
  BY <1>3 DEF Min

\* Max finds the last line for a user.
LEMMA Greatest ==
    ASSUME NEW n \in Nat, NEW S \in SUBSET (1..n), S # {}
    PROVE  Max(S) \in S
<1> DEFINE R == {k \in Nat : n - k \in S}
<1>1. R # {}
  <2>1. PICK s \in S : TRUE
    OBVIOUS
  <2>2. n - s \in Nat /\ n - (n - s) = s
    BY <2>1
  <2> QED
    BY <2>2
<1> HIDE DEF R
<1>2. PICK k \in R : \A j \in R : k <= j
  BY <1>1, Least DEF R
<1>3. k \in Nat /\ n - k \in S
  BY DEF R
<1>4. ASSUME NEW y \in S
      PROVE  n - k >= y
  <2>1. n - y \in Nat /\ n - (n - y) = y
    OBVIOUS
  <2>2. k <= n - y
    BY <1>2, <2>1 DEF R
  <2> QED
    BY <1>3, <2>2
<1> QED
  BY <1>3, <1>4 DEF Max

-----------------------------------------------------------------------------
(***************************************************************************)
(* loadCred.                                                               *)
(***************************************************************************)
Entry == [user : User, hash : Hash]

\* The sequence s consists of entries, which are the first lines of file f.
FirstEntries(s, f) ==
    /\ s \in Seq(Entry) /\ Len(s) <= Len(f.lines)
    /\ \A i \in 1..Len(s) : s[i] = f.lines[i]

LEMMA FilesTyped ==
    ASSUME NEW f \in Files \cup {NoFile}
    PROVE  f.lines \in Seq(Line)
<1>1. CASE f = NoFile
  BY <1>1 DEF NoFile
<1>2. CASE f \in Files
  <2>1. f \in [lines : Seq(Line), terminated : BOOLEAN]
    BY <1>2, CredentialsAssumption
  <2> QED
    BY <2>1
<1> QED
  BY <1>1, <1>2

\* The lines that loadCred accepts.
LEMMA AcceptedLines ==
    ASSUME NEW f \in Files \cup {NoFile}
    PROVE  FirstEntries(Accepted(ReadLines(f)), f)
<1> DEFINE all == f.lines
           read == ReadLines(f)
           bad == {i \in DOMAIN read : read[i] = Malformed}
<1>1. all \in Seq(Line) /\ Len(all) \in Nat
  BY FilesTyped
<1>2. read \in Seq(Line) /\ Len(read) <= Len(all) /\ \A i \in 1..Len(read) : read[i] = all[i]
  <2>1. CASE f.terminated \/ all = << >>
    BY <1>1, <2>1 DEF ReadLines
  <2>2. CASE ~(f.terminated \/ all = << >>)
    <3>1. read = SubSeq(all, 1, Len(all) - 1)
      BY <2>2 DEF ReadLines, Front
    <3>2. Len(all) > 0
      BY <1>1, <2>2
    <3> HIDE DEF all, read
    <3> QED
      BY <1>1, <3>1, <3>2
  <2> QED
    BY <2>1, <2>2
<1> HIDE DEF all, read
<1>3. Len(read) \in Nat /\ DOMAIN read = 1..Len(read)
  BY <1>2
<1>4. \A i \in DOMAIN read : i \notin bad => read[i] \in Entry
  BY <1>2 DEF Line, Entry
<1>5. CASE bad = {}
  <2>1. Accepted(read) = read
    BY <1>5 DEF Accepted
  <2>2. read \in Seq(Entry)
    <3>1. read \in [1..Len(read) -> Entry]
      BY <1>2, <1>3, <1>4, <1>5
    <3> QED
      BY <1>3, <3>1
  <2> QED
    BY <1>2, <2>1, <2>2 DEF FirstEntries, all, read
<1>6. CASE bad # {}
  <2>1. bad \in SUBSET Nat
    BY <1>3
  <2>2. PICK b \in bad : b = Min(bad) /\ \A y \in bad : b <= y
    BY <1>6, <2>1, Least
  <2>3. b \in 1..Len(read)
    BY <1>3
  <2> DEFINE s == SubSeq(read, 1, b - 1)
  <2>4. Accepted(read) = s
    BY <1>6, <2>2 DEF Accepted
  <2>5. s \in Seq(Line) /\ Len(s) = b - 1 /\ DOMAIN s = 1..(b - 1) /\ \A i \in 1..(b - 1) : s[i] = read[i]
    BY <1>2, <1>3, <2>3
  <2> HIDE DEF s, bad
  <2>6. ASSUME NEW i \in 1..(b - 1)
        PROVE  i \in DOMAIN read /\ i \notin bad
    <3>1. i \in 1..Len(read) /\ ~(b <= i)
      BY <1>3, <2>3
    <3> QED
      BY <1>3, <2>2, <3>1
  <2>7. s \in Seq(Entry)
    <3>1. s \in [1..(b - 1) -> Entry]
      BY <1>4, <2>5, <2>6
    <3>2. b - 1 \in Nat
      BY <2>3
    <3> QED
      BY <3>1, <3>2
  <2>8. Len(s) <= Len(all) /\ \A i \in 1..Len(s) : s[i] = all[i]
    BY <1>1, <1>2, <1>3, <2>3, <2>5
  <2> QED
    BY <2>4, <2>7, <2>8 DEF FirstEntries, all, read
<1> QED
  BY <1>5, <1>6

\* Every credential is a line of the file that was opened.
FromFile ==
    \A u \in DOMAIN credentials :
        \E i \in DOMAIN opened.lines : opened.lines[i] = [user |-> u, hash |-> credentials[u]]

Typed(cred) == DOMAIN cred \subseteq User /\ \A u \in DOMAIN cred : cred[u] \in Hash

\* What an empty map holds after entries have been entered: the last for each user.
LEMMA EnterEffect ==
    ASSUME NEW cred, DOMAIN cred = {}, NEW f \in Files \cup {NoFile}, NEW s, FirstEntries(s, f)
    PROVE  /\ Typed(Enter(cred, s))
           /\ \A u \in DOMAIN Enter(cred, s) :
                 \E i \in DOMAIN f.lines : f.lines[i] = [user |-> u, hash |-> Enter(cred, s)[u]]
<1> DEFINE of(u) == {i \in DOMAIN s : s[i].user = u}
           new == Enter(cred, s)
<1>1. s \in Seq(Entry) /\ Len(s) \in Nat /\ DOMAIN s = 1..Len(s)
  BY DEF FirstEntries
<1>2. f.lines \in Seq(Line) /\ Len(f.lines) \in Nat /\ DOMAIN f.lines = 1..Len(f.lines)
  <2>1. f.lines \in Seq(Line)
    BY FilesTyped
  <2> QED
    BY <2>1
<1>3. /\ DOMAIN new = {s[i].user : i \in DOMAIN s}
      /\ \A u \in DOMAIN new : of(u) # {} => new[u] = s[Max(of(u))].hash
  BY DEF Enter
<1> HIDE DEF new
<1>4. ASSUME NEW u \in DOMAIN new
      PROVE  \E k \in DOMAIN s : s[k].user = u /\ s[k].hash = new[u]
  <2>1. of(u) # {} /\ of(u) \in SUBSET (1..Len(s))
    BY <1>1, <1>3
  <2>2. Max(of(u)) \in of(u)
    BY <1>1, <2>1, Greatest
  <2>3. new[u] = s[Max(of(u))].hash
    BY <1>3, <2>1
  <2> QED
    BY <2>2, <2>3
<1>5. ASSUME NEW u \in DOMAIN new
      PROVE  /\ u \in User /\ new[u] \in Hash
             /\ \E i \in DOMAIN f.lines : f.lines[i] = [user |-> u, hash |-> new[u]]
  <2>1. PICK k \in DOMAIN s : s[k].user = u /\ s[k].hash = new[u]
    BY <1>4
  <2>2. s[k] \in Entry
    BY <1>1
  <2>3. s[k] = [user |-> u, hash |-> new[u]] /\ u \in User /\ new[u] \in Hash
    BY <2>1, <2>2 DEF Entry
  <2>4. k \in DOMAIN f.lines /\ f.lines[k] = s[k]
    BY <1>1, <1>2 DEF FirstEntries
  <2> QED
    BY <2>3, <2>4
<1> QED
  BY <1>5 DEF Typed, new

-----------------------------------------------------------------------------
(***************************************************************************)
(* The inductive invariant: from the moment the map is cleared until the   *)
(* file is loaded it is empty, otherwise it comes from the opened file.    *)
(***************************************************************************)
RequestState ==
    {Idle} \cup [state : {"arrived", "lookup"}, user : User, password : Hash, header : BOOLEAN]
           \cup [state : {"compare"}, password : Hash, hashed : Hash]
           \cup [state : {"granted", "denied"}]

FlagInv ==
    /\ noAuth \in BOOLEAN /\ locked \in BOOLEAN /\ sighup \in BOOLEAN /\ unseen \in BOOLEAN
    /\ locked => noAuth

FileInv ==
    /\ file \in Files /\ opened \in Files \cup {NoFile}
    /\ pc \in {"wait", "clear", "open", "load"}
    /\ Typed(credentials)
    /\ IF pc \in {"open", "load"} THEN DOMAIN credentials = {} ELSE FromFile

RequestInv == request \in [Request -> RequestState]

CredInv == FlagInv /\ FileInv /\ RequestInv

LEMMA CredInvStart == Init => CredInv
<1> SUFFICES ASSUME Init PROVE CredInv
  OBVIOUS
<1>1. FlagInv
  BY CredentialsAssumption DEF Init, FlagInv
<1>2. RequestInv
  BY DEF Init, RequestInv, RequestState
<1>3. FileInv
  <2>1. pc = "wait" /\ file \in Files
    BY DEF Init
  <2>2. CASE noAuth
    BY <2>1, <2>2 DEF Init, FileInv, FromFile, Typed
  <2>3. CASE ~noAuth
    <3>1. /\ opened = file /\ credentials = Enter(<< >>, ReadLines(file))
          /\ Accepted(ReadLines(file)) = ReadLines(file)
      BY <2>3 DEF Init
    <3>2. FirstEntries(ReadLines(file), file)
      BY <2>1, <3>1, AcceptedLines
    <3>3. DOMAIN << >> = {}
      OBVIOUS
    <3>4. Typed(credentials) /\ FromFile
      BY <2>1, <3>1, <3>2, <3>3, EnterEffect DEF FromFile
    <3> QED
      BY <2>1, <3>1, <3>4 DEF FileInv
  <2> QED
    BY <2>2, <2>3
<1> QED
  BY <1>1, <1>2, <1>3 DEF CredInv

\* Serving a request changes nothing but the request.
LEMMA RequestStep ==
    ASSUME CredInv, NEW r \in Request,
           Serving(r) \/ \E u \in User, p \in Hash, header \in BOOLEAN : Arrive(r, u, p, header)
    PROVE  CredInv'
<1>1. request[r] \in RequestState
  BY DEF CredInv, RequestInv
<1>2. \E new \in RequestState : Serve(r, new)
  <2>1. ASSUME NEW u \in User, NEW p \in Hash, NEW header \in BOOLEAN, Arrive(r, u, p, header)
        PROVE  \E new \in RequestState : Serve(r, new)
    <3>1. [state |-> "arrived", user |-> u, password |-> p, header |-> header] \in RequestState
      BY DEF RequestState
    <3> QED
      BY <2>1, <3>1 DEF Arrive
  <2>2. [state |-> "granted"] \in RequestState /\ [state |-> "denied"] \in RequestState /\ Idle \in RequestState
    BY DEF RequestState
  <2>3. CASE BasicAuth(r)
    <3>1. [request[r] EXCEPT !.state = "lookup"] \in RequestState
      <4>1. request[r] \in [state : {"arrived", "lookup"}, user : User, password : Hash, header : BOOLEAN]
        BY <1>1, <2>3 DEF RequestState, BasicAuth, Idle
      <4>2. [request[r] EXCEPT !.state = "lookup"]
              \in [state : {"arrived", "lookup"}, user : User, password : Hash, header : BOOLEAN]
        BY <4>1
      <4> QED
        BY <4>2 DEF RequestState
    <3> QED
      BY <2>2, <2>3, <3>1 DEF BasicAuth
  <2>4. CASE Lookup(r)
    <3> DEFINE u == request[r].user
               looked == [state |-> "compare", password |-> request[r].password, hashed |-> credentials[u]]
    <3>1. request[r].password \in Hash
      BY <1>1, <2>4 DEF RequestState, Lookup, Idle
    <3>2. u \in DOMAIN credentials => credentials[u] \in Hash
      BY DEF CredInv, FileInv, Typed
    <3>3. u \in DOMAIN credentials => looked \in RequestState
      BY <3>1, <3>2 DEF RequestState
    <3>4. Serve(r, IF u \in DOMAIN credentials THEN looked ELSE [state |-> "denied"])
      BY <2>4 DEF Lookup
    <3> QED
      BY <2>2, <3>3, <3>4
  <2>5. CASE Compare(r)
    BY <2>2, <2>5 DEF Compare
  <2>6. CASE Finish(r)
    BY <2>2, <2>6 DEF Finish
  <2> QED
    BY <2>1, <2>3, <2>4, <2>5, <2>6 DEF Serving
<1>3. PICK new \in RequestState : Serve(r, new)
  BY <1>2
<1>4. RequestInv'
  BY <1>3 DEF CredInv, RequestInv, Serve
<1>5. UNCHANGED <<noAuth, credentials, locked, file, opened, pc, sighup, unseen>>
  BY <1>3 DEF Serve
<1> QED
  BY <1>4, <1>5 DEF CredInv, FlagInv, FileInv, FromFile, Typed

LEMMA CredInvariant == Spec => []CredInv
<1>1. CredInv /\ [Next]_vars => CredInv'
  <2> SUFFICES ASSUME CredInv, [Next]_vars PROVE CredInv'
    OBVIOUS
  <2>1. CASE Sighup \/ Receive
    <3>1. /\ UNCHANGED <<noAuth, credentials, locked, file, opened, request>>
          /\ sighup' \in BOOLEAN /\ unseen' \in BOOLEAN
      BY <2>1 DEF Sighup, Receive, CredInv, FlagInv
    <3>2. pc' = pc \/ (pc = "wait" /\ pc' = "clear")
      BY <2>1 DEF Sighup, Receive
    <3> QED
      BY <3>1, <3>2 DEF CredInv, FlagInv, FileInv, RequestInv, FromFile, Typed
  <2>2. CASE Clear
    <3>1. UNCHANGED <<noAuth, file, opened, sighup, request, unseen>> /\ pc = "clear" /\ ~locked
      BY <2>2 DEF Clear
    <3>2. CASE noAuth /\ locked' = TRUE /\ pc' = "wait" /\ UNCHANGED credentials
      BY <3>1, <3>2 DEF CredInv, FlagInv, FileInv, RequestInv, FromFile, Typed
    <3>3. CASE ~noAuth /\ credentials' = Cleared /\ pc' = "open" /\ UNCHANGED locked
      <4>1. DOMAIN credentials' = {}
        BY <3>3 DEF Cleared
      <4> QED
        BY <3>1, <3>3, <4>1 DEF CredInv, FlagInv, FileInv, RequestInv, Typed
    <3> QED
      BY <2>2, <3>2, <3>3 DEF Clear
  <2>3. CASE Open
    <3>1. /\ UNCHANGED <<noAuth, credentials, locked, file, sighup, request>> /\ unseen' = FALSE
          /\ pc = "open" /\ opened' \in {file, NoFile} /\ pc' \in {"load", "wait"}
      BY <2>3 DEF Open
    <3>2. DOMAIN credentials' = {} /\ opened' \in Files \cup {NoFile}
      BY <3>1 DEF CredInv, FileInv
    <3> QED
      BY <3>1, <3>2 DEF CredInv, FlagInv, FileInv, RequestInv, FromFile, Typed
  <2>4. CASE loadCred
    <3> DEFINE lines == Accepted(ReadLines(opened))
    <3>1. UNCHANGED <<noAuth, locked, file, opened, sighup, request, unseen>> /\ pc = "load" /\ pc' = "wait"
      BY <2>4 DEF loadCred
    <3>2. opened \in Files \cup {NoFile} /\ DOMAIN credentials = {}
      BY <3>1 DEF CredInv, FileInv
    <3>3. FirstEntries(lines, opened)
      BY <3>2, AcceptedLines
    <3>4. PICK n \in 0..Len(lines) : credentials' = Enter(credentials, SubSeq(lines, 1, n))
      BY <2>4 DEF loadCred
    <3>5. FirstEntries(SubSeq(lines, 1, n), opened)
      <4>1. lines \in Seq(Entry) /\ Len(lines) \in Nat /\ Len(lines) <= Len(opened.lines)
        BY <3>3 DEF FirstEntries
      <4>2. /\ SubSeq(lines, 1, n) \in Seq(Entry) /\ Len(SubSeq(lines, 1, n)) = n
            /\ \A i \in 1..n : SubSeq(lines, 1, n)[i] = lines[i] /\ i \in 1..Len(lines)
        <5> HIDE DEF lines
        <5> QED
          BY <4>1
      <4>3. opened.lines \in Seq(Line)
        BY <3>2, FilesTyped
      <4>4. n <= Len(opened.lines)
        <5> HIDE DEF lines
        <5> QED
          BY <4>1, <4>3
      <4> QED
        BY <3>3, <4>2, <4>4 DEF FirstEntries
    <3>6. Typed(credentials') /\ FromFile'
      BY <3>1, <3>2, <3>4, <3>5, EnterEffect DEF FromFile
    <3>7. FlagInv' /\ RequestInv'
      BY <3>1 DEF CredInv, FlagInv, RequestInv
    <3>8. file' \in Files /\ opened' \in Files \cup {NoFile}
      BY <3>1, <3>2 DEF CredInv, FileInv
    <3> QED
      BY <3>1, <3>6, <3>7, <3>8 DEF CredInv, FileInv
  <2>5. ASSUME NEW r \in Request,
               Serving(r) \/ \E u \in User, p \in Hash, header \in BOOLEAN : Arrive(r, u, p, header)
        PROVE  CredInv'
    BY <2>5, RequestStep
  <2>6. CASE Edit
    BY <2>6 DEF Edit, CredInv, FlagInv, FileInv, RequestInv, FromFile, Typed
  <2>7. CASE UNCHANGED vars
    BY <2>7 DEF vars, CredInv, FlagInv, FileInv, RequestInv, FromFile, Typed
  <2> QED
    BY <2>1, <2>2, <2>3, <2>4, <2>5, <2>6, <2>7 DEF Next
<1> QED
  BY <1>1, CredInvStart, PTL DEF Spec

\* Every variable keeps its type; when the lock is held between two steps, it is
\* --no-auth that left it behind.
THEOREM CredentialsTypeCorrect == Spec => []TypeOK
<1>1. CredInv => TypeOK
  <2> SUFFICES ASSUME CredInv PROVE TypeOK
    OBVIOUS
  <2>1. \A r \in Request : request[r] \in RequestState
    BY DEF CredInv, RequestInv
  <2>2. \A s \in RequestState : s.state \in {"idle", "arrived", "lookup", "compare", "granted", "denied"}
    BY DEF RequestState, Idle
  <2> QED
    BY <2>1, <2>2 DEF CredInv, FlagInv, FileInv, Typed, TypeOK
<1> QED
  BY <1>1, CredInvariant, PTL

\* After a reload, complete, cut short or failed, every credential in force is a
\* line of the file that it opened.
THEOREM NothingSurvivesReloadTheorem == Spec => []NothingSurvivesReload
<1>1. CredInv => NothingSurvivesReload
  BY DEF CredInv, FileInv, FromFile, NothingSurvivesReload
<1> QED
  BY <1>1, CredInvariant, PTL
=============================================================================
