------------------------------- MODULE Leech --------------------------------
(***************************************************************************)
(* One run of Leech.Do (cmd/magneticod/bittorrent/metadata/leech.go): it   *)
(* connects to a peer, shakes hands twice, requests every piece of the     *)
(* metadata, receives them, verifies the whole and reports to the sink     *)
(* through exactly one callback.                                           *)
(*                                                                         *)
(* The peer may send anything.  Lengths are counted in units of which a    *)
(* piece has PieceLen (16 KiB in the code); a unit of the buffer is "good" *)
(* when it is what the torrent's metadata has there.  Messages that the    *)
(* code reads and ignores change nothing and are not modelled.             *)
(***************************************************************************)
EXTENDS Integers, Sequences, FiniteSets, FiniteSetsExt, SequencesExt

CONSTANTS
    PieceLen,        \* 2^14
    MaxMetadataSize, \* MAX_METADATA_SIZE
    TrueSize,        \* size of the metadata whose SHA-1 is the info hash
    Infos,           \* info dictionaries that metadata may decode to
    PieceIndexes,    \* piece numbers a peer may send
    Honest           \* whether the peer may be, or must be, correct: a set of booleans

ASSUME LeechAssumption ==
    /\ PieceLen \in Nat \ {0} /\ MaxMetadataSize \in Nat
    /\ TrueSize \in 1..(MaxMetadataSize - 1)
    /\ PieceIndexes \subseteq Int
    /\ Honest \subseteq BOOLEAN

VARIABLES
    phase,     \* the function that Do is in
    conn,      \* the TCP connection: "none", "open" or "closed"
    deadline,  \* of the connection: "unset", "set" or "expired"
    size,      \* metadataSize
    received,  \* metadataReceived
    metadata,  \* the buffer
    requested, \* the pieces asked for
    honest,    \* the peer answers the requests, in order, correctly
    info,      \* what the torrent's metadata decodes to
    callbacks, \* history: the callbacks made
    ioFailed   \* history: a read, a write or the dial failed

peer == <<honest, info>>
transfer == <<size, received, metadata, requested, peer>>
vars == <<phase, conn, deadline, transfer, callbacks, ioFailed>>

Init ==
    /\ phase = "connect"
    /\ conn = "none"
    /\ deadline = "unset"
    /\ size = 0 /\ received = 0
    /\ metadata = << >>
    /\ requested = {}
    /\ honest \in Honest
    /\ info \in Infos
    /\ callbacks = << >>
    /\ ioFailed = FALSE

(***************************************************************************)
(* Callbacks and the deferred closeConn.  OnError comes first, then        *)
(* closeConn; after a successful transfer it is the other way round.       *)
(***************************************************************************)
\* Variant: the callers do not return.
BugOnError ==
    /\ callbacks' = Append(callbacks, "error")
    /\ UNCHANGED phase

OnError ==
    /\ callbacks' = Append(callbacks, "error")
    /\ phase' = "return"

\* return from Do.  A Close that fails panics.
Return ==
    /\ phase = "return"
    /\ \/ conn = "open" /\ conn' = "closed" /\ phase' = "done"
       \/ conn = "open" /\ phase' = "panicked" /\ UNCHANGED conn
       \/ conn # "open" /\ phase' = "done" /\ UNCHANGED conn
    /\ UNCHANGED <<deadline, transfer, callbacks, ioFailed>>

(***************************************************************************)
(* I/O.  Every read and write fails once the deadline has expired, and may *)
(* fail before.                                                            *)
(***************************************************************************)
Blocking ==
    \/ phase \in {"btHandshake", "exHandshake"}
    \/ phase = "request" /\ size > 0
    \/ phase = "receive" /\ received < size

IOFails ==
    /\ OnError
    /\ ioFailed' = TRUE
    /\ UNCHANGED <<conn, deadline, transfer>>

IOError == Blocking /\ IOFails
TimedOut == Blocking /\ deadline = "expired" /\ IOFails

Expire ==
    /\ deadline = "set"
    /\ deadline' = "expired"
    /\ UNCHANGED <<phase, conn, transfer, callbacks, ioFailed>>

InTime == deadline # "expired"

(***************************************************************************)
(* connect.                                                                *)
(***************************************************************************)
DialFails == phase = "connect" /\ IOFails

\* One of SetLinger, SetNoDelay and SetDeadline fails: connect closes.
SetOptionFails ==
    /\ phase = "connect"
    /\ \/ conn' = "closed" /\ OnError
       \/ conn' = "open" /\ phase' = "panicked" /\ UNCHANGED callbacks
    /\ ioFailed' = TRUE
    /\ UNCHANGED <<deadline, transfer>>

\* Variant: connect does not set the deadline.
BugConnected ==
    /\ phase = "connect"
    /\ conn' = "open"
    /\ phase' = "btHandshake"
    /\ UNCHANGED <<deadline, transfer, callbacks, ioFailed>>

Connected ==
    /\ phase = "connect"
    /\ conn' = "open"
    /\ deadline' = "set"
    /\ phase' = "btHandshake"
    /\ UNCHANGED <<transfer, callbacks, ioFailed>>

(***************************************************************************)
(* The handshakes.                                                         *)
(***************************************************************************)
BtHandshake ==
    /\ phase = "btHandshake" /\ InTime
    /\ \/ phase' = "exHandshake" /\ UNCHANGED callbacks
       \/ ~honest /\ OnError
    /\ UNCHANGED <<conn, deadline, transfer, ioFailed>>

\* The first extension message is not a handshake: errors.Wrap of a nil error
\* is nil, and the leech goes on with no metadata to ask for.
NotAnExHandshake ==
    /\ phase = "exHandshake" /\ InTime /\ ~honest
    /\ phase' = "request"
    /\ UNCHANGED <<conn, deadline, transfer, callbacks, ioFailed>>

\* The handshake announces metadataSize and a code for ut_metadata, which may
\* not be an uint8.
ExHandshake(metadataSize, utOk) ==
    /\ phase = "exHandshake" /\ InTime
    /\ IF 0 < metadataSize /\ metadataSize < MaxMetadataSize /\ utOk
       THEN /\ size' = metadataSize
            /\ metadata' = [i \in 1..metadataSize |-> "zero"]
            /\ phase' = "request"
            /\ UNCHANGED callbacks
       ELSE OnError /\ UNCHANGED <<size, metadata>>
    /\ UNCHANGED <<conn, deadline, received, requested, peer, ioFailed>>

NPieces == (size + PieceLen - 1) \div PieceLen

\* Without a size there is nothing to write.
requestAllPieces ==
    /\ phase = "request" /\ (InTime \/ size = 0)
    /\ requested' = 0..(NPieces - 1)
    /\ phase' = "receive"
    /\ UNCHANGED <<conn, deadline, size, received, metadata, peer, callbacks, ioFailed>>

(***************************************************************************)
(* The receive loop.                                                       *)
(***************************************************************************)
\* A reject, or a message that does not decode.
ReceiveRefusal ==
    /\ phase = "receive" /\ received < size /\ InTime /\ ~honest
    /\ OnError
    /\ UNCHANGED <<conn, deadline, transfer, ioFailed>>

\* Variant: the test for a short piece does not see the piece itself.
BugIncomplete(len) == len < PieceLen /\ received # size

\* A short piece that does not complete the metadata, or more than there is.
Incomplete(len) == len < PieceLen /\ received + len # size

\* Variant: no such test.
BugTooMuch(len) == FALSE

TooMuch(len) == received + len > size

\* A data message.  The buffer is indexed by the peer's piece number: outside
\* of it, Go panics.
ReceiveData(piece, len, unit) ==
    LET first == piece * PieceLen
    IN  /\ phase = "receive" /\ received < size /\ InTime
        /\ \/ len > PieceLen /\ OnError /\ UNCHANGED <<received, metadata>>
           \/ /\ len <= PieceLen /\ (first < 0 \/ first + len > size)
              /\ phase' = "panicked"
              /\ UNCHANGED <<received, metadata, callbacks>>
           \/ /\ len <= PieceLen /\ first >= 0 /\ first + len <= size
              /\ metadata' = [i \in 1..size |-> IF i \in (first + 1)..(first + len)
                                                THEN unit ELSE metadata[i]]
              /\ received' = received + len
              /\ IF Incomplete(len) \/ TooMuch(len)
                 THEN OnError
                 ELSE UNCHANGED <<phase, callbacks>>
        /\ UNCHANGED <<conn, deadline, size, requested, peer, ioFailed>>

\* The request that a correct peer answers next.
NextPiece == received \div PieceLen

Receive ==
    IF honest
    THEN /\ NextPiece \in requested
         /\ ReceiveData(NextPiece, Min({PieceLen, size - received}), "good")
    ELSE \E piece \in PieceIndexes, len \in 0..(PieceLen + 1), unit \in {"good", "bad"} :
            ReceiveData(piece, len, unit)

\* Variant: the connection is left to the deferred closeConn.
BugReceived ==
    /\ phase = "receive" /\ received >= size
    /\ phase' = "verify"
    /\ UNCHANGED <<conn, deadline, transfer, callbacks, ioFailed>>

\* The loop ends: the connection is closed before anything else.
Received ==
    /\ phase = "receive" /\ received >= size
    /\ \/ conn' = "closed" /\ phase' = "verify"
       \/ phase' = "panicked" /\ UNCHANGED conn
    /\ UNCHANGED <<deadline, transfer, callbacks, ioFailed>>

(***************************************************************************)
(* Verification.  An Info has the number of bytes of its `pieces' string,  *)
(* a piece length, and a length or the lengths of its files.  `metainfo'   *)
(* computes its total length and its number of pieces.  Metadata that does *)
(* not decode fares like a dictionary that validateInfo refuses.           *)
(***************************************************************************)
\* Variant: the checksum is not compared.
BugChecksumOk == size > 0

ChecksumOk == size = TrueSize /\ \A i \in 1..size : metadata[i] = "good"

FileSizes(i) == IF i.files = << >> THEN <<i.length>> ELSE i.files
TotalLength(i) == FoldLeft(LAMBDA a, b : a + b, 0, FileSizes(i))

\* Go's integer division truncates towards zero.
Abs(a) == IF a < 0 THEN -a ELSE a
Quo(a, b) == (IF (a < 0) = (b < 0) THEN 1 ELSE -1) * (Abs(a) \div Abs(b))

validateInfo(i) ==
    /\ i.pieces % 20 = 0
    /\ IF i.pieceLength = 0
       THEN TotalLength(i) = 0
       ELSE Quo(TotalLength(i) + i.pieceLength - 1, i.pieceLength) = i.pieces \div 20

SizesOk(i) == \A k \in DOMAIN FileSizes(i) : FileSizes(i)[k] >= 0

Verify ==
    /\ phase = "verify"
    /\ IF ChecksumOk /\ validateInfo(info) /\ SizesOk(info)
       THEN callbacks' = Append(callbacks, "success") /\ phase' = "return"
       ELSE OnError
    /\ UNCHANGED <<conn, deadline, transfer, ioFailed>>

-----------------------------------------------------------------------------
Handshakes ==
    \/ BtHandshake
    \/ NotAnExHandshake
    \/ IF honest THEN ExHandshake(TrueSize, TRUE)
                 ELSE \E s \in 0..MaxMetadataSize, utOk \in BOOLEAN : ExHandshake(s, utOk)

Next ==
    \/ DialFails \/ SetOptionFails \/ Connected
    \/ Handshakes
    \/ requestAllPieces
    \/ ReceiveRefusal \/ Receive \/ Received
    \/ Verify
    \/ IOError \/ TimedOut \/ Expire
    \/ Return

Spec == Init /\ [][Next]_vars

\* Nothing obliges a peer to answer: only the dial's timeout, the deadline and
\* the leech's own steps are fair.
FairSpec ==
    /\ Spec
    /\ WF_vars(DialFails) /\ WF_vars(Expire) /\ WF_vars(TimedOut)
    /\ WF_vars(requestAllPieces /\ size = 0) /\ WF_vars(Received)
    /\ WF_vars(Verify) /\ WF_vars(Return)

-----------------------------------------------------------------------------
\* Every variable has its type, and no more is counted as received than the
\* buffer holds while the loop goes on.
TypeOK ==
    /\ phase \in {"connect", "btHandshake", "exHandshake", "request", "receive",
                  "verify", "return", "done", "panicked"}
    /\ conn \in {"none", "open", "closed"}
    /\ deadline \in {"unset", "set", "expired"}
    /\ size \in 0..(MaxMetadataSize - 1)
    /\ received \in Nat /\ (phase = "receive" => received <= size)
    /\ metadata \in [1..size -> {"zero", "good", "bad"}]
    /\ requested \subseteq Nat
    /\ honest \in Honest /\ info \in Infos
    /\ callbacks \in Seq({"success", "error"})
    /\ ioFailed \in BOOLEAN

\* A leech reports exactly once: never twice, and it does not return without
\* having reported (the sink's entry would never be deleted).
ExactlyOneCallback ==
    /\ Len(callbacks) <= 1
    /\ phase = "done" => Len(callbacks) = 1

\* What is reported as a success is the torrent's metadata, complete and
\* unaltered, though the loop counts received bytes and not distinct pieces;
\* its files have no negative size.
SuccessIsGenuine ==
    callbacks = <<"success">> =>
        /\ size = TrueSize /\ \A i \in 1..TrueSize : metadata[i] = "good"
        /\ \A k \in DOMAIN FileSizes(info) : FileSizes(info)[k] >= 0

\* No connection outlives its leech, and a successful leech has closed it
\* before it reports, which may block: "close socket as soon as possible".
ConnectionClosed ==
    /\ phase = "done" => conn # "open"
    /\ callbacks = <<"success">> => conn = "closed"

\* A peer that answers every request correctly and in order, over a connection
\* that does not fail, has always a request left to answer until the metadata is
\* complete, and is never turned down.
HonestPeerSucceeds ==
    honest =>
        /\ phase = "receive" /\ received < size => NextPiece \in requested
        /\ validateInfo(info) /\ SizesOk(info) /\ callbacks = <<"error">> => ioFailed

\* A leech always ends, however silent its peer is.
LeechEnds == <>(phase \in {"done", "panicked"})

\* doExHandshake reports "first extension message is not an extension
\* handshake" as an error: pieces are requested only with a size announced.
NoRequestWithoutHandshake == phase \in {"request", "receive"} => size > 0
=============================================================================
