---------------------------- MODULE LeechProofs -----------------------------
(***************************************************************************)
(* Proofs about Leech for every length of pieces, every size of metadata   *)
(* and whatever the peer sends.                                            *)
(***************************************************************************)
EXTENDS Leech, TLAPS

\* Do is still at work.
Working == {"connect", "btHandshake", "exHandshake", "request", "receive", "verify"}

\* Callbacks are made on the way to the return, and only there; the connection
\* is open between connect and the end of the receive loop.
CallbackInv ==
    /\ phase \in Working \cup {"return", "done", "panicked"}
    /\ phase \in Working => callbacks = << >>
    /\ callbacks \in {<< >>, <<"error">>, <<"success">>}
    /\ phase \in {"return", "done"} => callbacks # << >>

\* One of the two callbacks is appended to none.
LEMMA OneCallback ==
    /\ Append(<< >>, "error") = <<"error">> /\ Append(<< >>, "success") = <<"success">>
    /\ <<"error">> # << >> /\ <<"success">> # << >> /\ <<"error">> # <<"success">>
    /\ Len(<< >>) = 0 /\ Len(<<"error">>) = 1 /\ Len(<<"success">>) = 1
  OBVIOUS

\* OnError of one who is at work.
LEMMA OnErrorOnce ==
    ASSUME CallbackInv, phase \in Working, OnError
    PROVE  CallbackInv' /\ callbacks' = <<"error">> /\ phase' = "return"
  BY OneCallback DEF CallbackInv, OnError, Working

ConnInv ==
    /\ phase \in {"btHandshake", "exHandshake", "request", "receive"} => conn = "open"
    /\ phase = "verify" => conn = "closed"
    /\ phase = "done" => conn # "open"
    /\ callbacks = <<"success">> => conn = "closed"

SafeInv == CallbackInv /\ ConnInv /\ SuccessIsGenuine

(***************************************************************************)
(* The kinds of steps, by what they do to the callbacks.                   *)
(***************************************************************************)
\* A step of Do that makes no callback.
Proceeds ==
    /\ phase \in Working /\ phase' \in Working \cup {"panicked"}
    /\ UNCHANGED callbacks
    /\ phase' \in {"btHandshake", "exHandshake", "request", "receive"} =>
           conn' = "open" /\ (phase = "connect" \/ UNCHANGED conn)
    /\ phase' = "verify" => conn' = "closed"

Fails == phase \in Working /\ OnError

Succeeds == Verify /\ ChecksumOk /\ validateInfo(info) /\ SizesOk(info)

Idles == UNCHANGED <<phase, conn, size, metadata, info, callbacks>>

\* Every step is of one of these kinds, or returns.
LEMMA StepKinds ==
    ASSUME SafeInv, [Next]_vars
    PROVE  Proceeds \/ Fails \/ Succeeds \/ Return \/ Idles
  <1> USE DEF Working
  <1>1. CASE UNCHANGED vars
    BY <1>1 DEF vars, transfer, peer, Idles
  <1>2. CASE DialFails
    BY <1>2 DEF DialFails, IOFails, Fails
  <1>3. CASE SetOptionFails
    BY <1>3 DEF SetOptionFails, Fails, Proceeds
  <1>4. CASE Connected
    BY <1>4 DEF Connected, Proceeds
  <1>5. CASE BtHandshake
    BY <1>5 DEF BtHandshake, Fails, Proceeds, SafeInv, ConnInv
  <1>6. CASE NotAnExHandshake
    BY <1>6 DEF NotAnExHandshake, Proceeds, SafeInv, ConnInv
  <1>7. ASSUME NEW s, NEW utOk, ExHandshake(s, utOk)
        PROVE  Fails \/ Proceeds
    BY <1>7 DEF ExHandshake, Fails, Proceeds, SafeInv, ConnInv
  <1>8. CASE requestAllPieces
    BY <1>8 DEF requestAllPieces, Proceeds, SafeInv, ConnInv
  <1>9. CASE ReceiveRefusal
    BY <1>9 DEF ReceiveRefusal, Fails
  <1>10. ASSUME NEW piece, NEW len, NEW unit, ReceiveData(piece, len, unit)
         PROVE  Fails \/ Proceeds
    BY <1>10 DEF ReceiveData, Fails, Proceeds, SafeInv, ConnInv
  <1>11. CASE Received
    BY <1>11 DEF Received, Proceeds
  <1>12. CASE Verify
    <2>1. CASE ChecksumOk /\ validateInfo(info) /\ SizesOk(info)
      BY <1>12, <2>1 DEF Succeeds
    <2>2. CASE ~(ChecksumOk /\ validateInfo(info) /\ SizesOk(info))
      BY <1>12, <2>2 DEF Verify, Fails
    <2> QED BY <2>1, <2>2
  <1>13. CASE IOError \/ TimedOut
    BY <1>13 DEF IOError, TimedOut, IOFails, Blocking, Fails
  <1>14. CASE Expire
    BY <1>14 DEF Expire, transfer, peer, Idles
  <1>15. Handshakes => BtHandshake \/ NotAnExHandshake \/ \E s, utOk : ExHandshake(s, utOk)
    BY DEF Handshakes
  <1>16. Receive => \E piece, len, unit : ReceiveData(piece, len, unit)
    BY DEF Receive
  <1> QED
    BY <1>1, <1>2, <1>3, <1>4, <1>5, <1>6, <1>7, <1>8, <1>9, <1>10, <1>11, <1>12, <1>13, <1>14,
       <1>15, <1>16 DEF Next

\* Callbacks, connection and result, from one step to the next.
LEMMA SafeStep ==
    ASSUME SafeInv, [Next]_vars
    PROVE  SafeInv'
  <1>1. CASE Proceeds
    <2>1. callbacks = << >> /\ callbacks' = << >>
      BY <1>1 DEF Proceeds, SafeInv, CallbackInv
    <2>2. CallbackInv'
      BY <1>1, <2>1, OneCallback DEF Proceeds, CallbackInv, Working
    <2>3. ConnInv'
      BY <1>1, <2>1, OneCallback DEF Proceeds, ConnInv, Working
    <2>4. SuccessIsGenuine'
      BY <2>1, OneCallback DEF SuccessIsGenuine
    <2> QED BY <2>2, <2>3, <2>4 DEF SafeInv
  <1>2. CASE Fails
    <2>1. CallbackInv' /\ callbacks' = <<"error">> /\ phase' = "return"
      BY <1>2, OnErrorOnce DEF Fails, SafeInv
    <2>2. ConnInv'
      BY <2>1, OneCallback DEF ConnInv
    <2>3. SuccessIsGenuine'
      BY <2>1, OneCallback DEF SuccessIsGenuine
    <2> QED BY <2>1, <2>2, <2>3 DEF SafeInv
  <1>3. CASE Succeeds
    <2>1. /\ phase = "verify" /\ phase' = "return" /\ callbacks = << >>
          /\ callbacks' = <<"success">>
          /\ UNCHANGED <<conn, size, metadata, info>>
      BY <1>3, OneCallback DEF Succeeds, Verify, transfer, peer, SafeInv, CallbackInv, Working
    <2>2. CallbackInv'
      BY <2>1, OneCallback DEF CallbackInv, Working
    <2>3. ConnInv'
      BY <2>1 DEF SafeInv, ConnInv
    <2>4. SuccessIsGenuine'
      BY <1>3, <2>1 DEF Succeeds, ChecksumOk, SizesOk, SuccessIsGenuine, FileSizes
    <2> QED BY <2>2, <2>3, <2>4 DEF SafeInv
  <1>4. CASE Return
    <2>1. CallbackInv'
      BY <1>4 DEF Return, SafeInv, CallbackInv, Working
    <2>2. ConnInv'
      BY <1>4 DEF Return, SafeInv, ConnInv
    <2>3. SuccessIsGenuine'
      BY <1>4 DEF Return, transfer, peer, SafeInv, SuccessIsGenuine, FileSizes
    <2> QED BY <2>1, <2>2, <2>3 DEF SafeInv
  <1>5. CASE Idles
    BY <1>5 DEF Idles, SafeInv, CallbackInv, ConnInv, SuccessIsGenuine, FileSizes
  <1> QED BY <1>1, <1>2, <1>3, <1>4, <1>5, StepKinds

\* It holds in every reachable state.
LEMMA SafeInvariance == Spec => []SafeInv
  <1>1. Init => SafeInv
    BY OneCallback DEF Init, SafeInv, CallbackInv, ConnInv, SuccessIsGenuine, Working
  <1> QED BY <1>1, SafeStep, PTL DEF Spec

\* On none of its many error returns does Do report twice, and it never returns
\* without having reported.
THEOREM ExactlyOneCallbackTheorem == Spec => []ExactlyOneCallback
  <1>1. ASSUME SafeInv PROVE ExactlyOneCallback
    <2>1. callbacks = << >> => phase # "done" /\ Len(callbacks) = 0
      BY <1>1, OneCallback DEF SafeInv, CallbackInv
    <2>2. callbacks = << >> \/ Len(callbacks) = 1
      BY <1>1, OneCallback DEF SafeInv, CallbackInv
    <2> QED BY <2>1, <2>2 DEF ExactlyOneCallback
  <1> QED BY <1>1, SafeInvariance, PTL

\* No connection outlives its leech; that of a success is closed before OnSuccess.
THEOREM ConnectionClosedTheorem == Spec => []ConnectionClosed
  <1>1. SafeInv => ConnectionClosed
    BY DEF SafeInv, ConnInv, ConnectionClosed
  <1> QED BY <1>1, SafeInvariance, PTL

\* A success is the torrent's metadata, whatever the peer sent and in whatever
\* order and number of times.
THEOREM SuccessIsGenuineTheorem == Spec => []SuccessIsGenuine
  <1>1. SafeInv => SuccessIsGenuine
    BY DEF SafeInv
  <1> QED BY <1>1, SafeInvariance, PTL

(***************************************************************************)
(* A correct peer.                                                         *)
(***************************************************************************)
\* The pieces before the one asked for next are there, and are good.
HonestInv ==
    /\ phase \in {"connect", "btHandshake", "exHandshake"} => received = 0
    /\ phase \in {"request", "receive", "verify"} => size = TrueSize
    /\ phase = "request" => received = 0
    /\ phase = "receive" =>
           /\ requested = 0..(NPieces - 1)
           /\ received \in 0..size
           /\ received = size \/ \E k \in Nat : received = k * PieceLen
           /\ \A i \in 1..received : metadata[i] = "good"
    /\ phase = "verify" => ChecksumOk
    /\ validateInfo(info) /\ SizesOk(info) /\ callbacks = <<"error">> => ioFailed

\* The arithmetic of pieces: the piece that a multiple of PieceLen short of the
\* size falls in is one of those that requestAllPieces asks for.
LEMMA PieceArithmetic ==
    ASSUME NEW P \in Nat \ {0}, NEW k \in Nat, NEW n \in Nat, k * P < n
    PROVE  (k * P) \div P = k /\ k \in 0..(((n + P - 1) \div P) - 1)
  <1>1. (k * P) \div P = k
    OBVIOUS
  <1>2. k < (n + P - 1) \div P
    OBVIOUS
  <1>3. (n + P - 1) \div P \in Int
    OBVIOUS
  <1> QED BY <1>1, <1>2, <1>3

\* FiniteSetsExt's Min of two numbers.
LEMMA MinOfTwo ==
    ASSUME NEW a \in Int, NEW b \in Int
    PROVE  Min({a, b}) = IF a <= b THEN a ELSE b
  BY DEF Min

\* The peer does not change.
LEMMA SamePeer == [Next]_vars => honest' = honest /\ info' = info
  BY DEF Next, vars, transfer, peer, DialFails, SetOptionFails, Connected, Handshakes, BtHandshake,
         NotAnExHandshake, ExHandshake, requestAllPieces, ReceiveRefusal, Receive, ReceiveData,
         Received, Verify, IOError, TimedOut, IOFails, Expire, Return

\* A step at work that reports nothing.
Silent == callbacks = << >> /\ callbacks' = << >>

\* An error that is reported because of I/O.
Excused == phase' = "return" /\ ioFailed'

\* A correct peer's answer is appended to what is there.
LEMMA HonestReceive ==
    ASSUME SafeInv, HonestInv, honest, Receive
    PROVE  HonestInv'
  <1> DEFINE P == PieceLen
             len == Min({PieceLen, size - received})
  <1>1. /\ phase = "receive" /\ received < size /\ ReceiveData(NextPiece, len, "good")
        /\ callbacks = << >> /\ size = TrueSize /\ size \in Nat /\ received \in 0..size
        /\ P \in Nat \ {0}
    <2>1. ReceiveData(NextPiece, len, "good")
      BY DEF Receive
    <2>2. phase = "receive" /\ received < size
      BY <2>1 DEF ReceiveData
    <2> HIDE DEF len
    <2>3. size = TrueSize /\ received \in 0..size
      BY <2>2 DEF HonestInv
    <2>4. callbacks = << >>
      BY <2>2 DEF SafeInv, CallbackInv, Working
    <2> QED BY <2>1, <2>2, <2>3, <2>4, LeechAssumption
  <1>2. PICK k \in Nat : received = k * PieceLen
    BY <1>1 DEF HonestInv
  <1>3. NextPiece = k /\ NextPiece * PieceLen = received
    BY <1>1, <1>2, PieceArithmetic DEF NextPiece
  <1>4. len = IF P <= size - received THEN P ELSE size - received
    BY <1>1, MinOfTwo
  <1>5. len \in 1..P /\ received + len <= size /\ (received + len = size \/ len = P)
    BY <1>1, <1>4
  <1> HIDE DEF len
  <1>6. ~Incomplete(len) /\ ~TooMuch(len)
    BY <1>1, <1>5 DEF Incomplete, TooMuch
  <1>7. /\ metadata' = [i \in 1..size |-> IF i \in (received + 1)..(received + len)
                                          THEN "good" ELSE metadata[i]]
        /\ received' = received + len
        /\ UNCHANGED <<phase, callbacks, size, requested, info>>
    BY <1>1, <1>3, <1>5, <1>6 DEF ReceiveData, peer
  <1>8. received' = size' \/ \E j \in Nat : received' = j * PieceLen
    <2>1. CASE len = P
      <3>1. received' = (k + 1) * PieceLen
        BY <1>1, <1>2, <1>7, <2>1
      <3> QED BY <3>1
    <2> QED BY <1>5, <1>7, <2>1
  <1>9. \A i \in 1..received' : metadata'[i] = "good"
    BY <1>1, <1>5, <1>7 DEF HonestInv
  <1>10. received' \in 0..size' /\ requested' = 0..(NPieces' - 1)
    BY <1>1, <1>5, <1>7 DEF HonestInv, NPieces
  <1>11. callbacks' # <<"error">>
    BY <1>1, <1>7, OneCallback
  <1> QED BY <1>1, <1>7, <1>8, <1>9, <1>10, <1>11 DEF HonestInv

\* What a correct peer has sent stays good, from one step to the next.
LEMMA HonestStep ==
    ASSUME SafeInv, HonestInv, honest, [Next]_vars
    PROVE  HonestInv'
  <1>1. phase \in Working => callbacks = << >>
    BY DEF SafeInv, CallbackInv
  <1>2. Silent /\ phase' \in {"panicked"} => HonestInv'
    BY OneCallback DEF Silent, HonestInv
  <1>3. Excused => HonestInv'
    BY DEF Excused, HonestInv
  <1>4. CASE DialFails
    BY <1>3, <1>4 DEF DialFails, IOFails, OnError, Excused
  <1>5. CASE SetOptionFails
    BY <1>1, <1>2, <1>3, <1>5 DEF SetOptionFails, OnError, Excused, Silent, Working
  <1>6. CASE Connected
    BY <1>1, <1>6, OneCallback DEF Connected, transfer, HonestInv, Working
  <1>7. CASE BtHandshake
    BY <1>1, <1>7, OneCallback DEF BtHandshake, transfer, HonestInv, Working
  <1>8. CASE ExHandshake(TrueSize, TRUE)
    BY <1>1, <1>8, LeechAssumption, OneCallback DEF ExHandshake, HonestInv, Working
  <1>9. CASE requestAllPieces
    <2>1. received' = 0 /\ size' = TrueSize /\ TrueSize \in Nat /\ phase' = "receive"
          /\ callbacks' = << >> /\ requested' = 0..(NPieces' - 1)
      BY <1>1, <1>9, LeechAssumption DEF requestAllPieces, HonestInv, Working, NPieces
    <2>2. received' = 0 * PieceLen /\ received' \in 0..size'
      BY <2>1, LeechAssumption
    <2>3. \A i \in 1..received' : metadata'[i] = "good"
      BY <2>1
    <2> QED BY <2>1, <2>2, <2>3, OneCallback DEF HonestInv
  <1>10. CASE Receive
    BY <1>10, HonestReceive
  <1>11. CASE Received
    <2>1. /\ phase = "receive" /\ phase' \in {"verify", "panicked"} /\ callbacks' = << >>
          /\ size' = TrueSize /\ received = TrueSize /\ metadata' = metadata
      BY <1>1, <1>11, LeechAssumption DEF Received, transfer, HonestInv, Working
    <2>2. ChecksumOk'
      BY <2>1 DEF HonestInv, ChecksumOk
    <2> QED BY <2>1, <2>2, OneCallback DEF HonestInv
  <1>12. CASE Verify
    <2>1. phase = "verify" /\ phase' = "return" /\ ChecksumOk /\ callbacks = << >> /\ info' = info
      BY <1>1, <1>12 DEF Verify, OnError, transfer, peer, HonestInv, Working
    <2>2. callbacks' = Append(callbacks, "success") \/ ~(validateInfo(info) /\ SizesOk(info))
      BY <1>12, <2>1 DEF Verify
    <2>3. callbacks' # <<"error">> \/ ~(validateInfo(info) /\ SizesOk(info))
      BY <2>1, <2>2, OneCallback
    <2>4. callbacks' # <<"error">> \/ ~(validateInfo(info') /\ SizesOk(info'))
      BY <2>1, <2>3
    <2> QED BY <2>1, <2>4 DEF HonestInv
  <1>13. CASE IOError \/ TimedOut
    BY <1>3, <1>13 DEF IOError, TimedOut, IOFails, OnError, Excused
  <1>14. CASE Expire \/ UNCHANGED vars
    <2>1. UNCHANGED <<phase, size, received, metadata, requested, info, callbacks, ioFailed>>
      BY <1>14 DEF Expire, vars, transfer, peer
    <2>2. NPieces' = NPieces /\ ChecksumOk' = ChecksumOk
      BY <2>1 DEF NPieces, ChecksumOk
    <2> QED BY <2>1, <2>2 DEF HonestInv
  <1>15. CASE Return
    BY <1>15 DEF Return, transfer, peer, HonestInv
  <1>16. ~NotAnExHandshake /\ ~ReceiveRefusal
    BY DEF NotAnExHandshake, ReceiveRefusal
  <1>17. Handshakes => BtHandshake \/ NotAnExHandshake \/ ExHandshake(TrueSize, TRUE)
    BY DEF Handshakes
  <1> QED
    BY <1>4, <1>5, <1>6, <1>7, <1>8, <1>9, <1>10, <1>11, <1>12, <1>13, <1>14, <1>15, <1>16, <1>17
       DEF Next

\* A peer that answers every request correctly and in order is never turned down
\* by a test of its pieces' lengths or of their sum, for any length of pieces and
\* any size of the metadata, and is asked for all of it.
THEOREM HonestPeerTheorem == Spec => []HonestPeerSucceeds
  <1> DEFINE IInv == SafeInv /\ (honest => HonestInv)
  <1>1. Init => IInv
    <2>1. Init => SafeInv
      BY OneCallback DEF Init, SafeInv, CallbackInv, ConnInv, SuccessIsGenuine, Working
    <2>2. Init => HonestInv
      BY OneCallback DEF Init, HonestInv
    <2> QED BY <2>1, <2>2
  <1>2. IInv /\ [Next]_vars => IInv'
    BY SafeStep, HonestStep, SamePeer
  <1>3. IInv => HonestPeerSucceeds
    <2>1. ASSUME HonestInv, phase = "receive", received < size
          PROVE  NextPiece \in requested
      <3>1. PICK k \in Nat : received = k * PieceLen
        BY <2>1, LeechAssumption DEF HonestInv
      <3>2. size \in Nat
        BY <2>1, LeechAssumption DEF HonestInv
      <3> QED BY <2>1, <3>1, <3>2, PieceArithmetic, LeechAssumption DEF HonestInv, NPieces, NextPiece
    <2> QED BY <2>1 DEF HonestInv, HonestPeerSucceeds
  <1> HIDE DEF IInv
  <1> QED BY <1>1, <1>2, <1>3, PTL DEF Spec

(***************************************************************************)
(* The transfer.                                                           *)
(***************************************************************************)
Unit == {"zero", "good", "bad"}

\* Nothing is received before the pieces are requested, and while the loop goes
\* on never more than the buffer holds.
TransferInv ==
    /\ conn \in {"none", "open", "closed"} /\ deadline \in {"unset", "set", "expired"}
    /\ size \in 0..(MaxMetadataSize - 1)
    /\ metadata \in [1..size -> Unit]
    /\ received \in Nat
    /\ phase \in {"connect", "btHandshake", "exHandshake", "request"} => received = 0
    /\ phase = "receive" => received <= size
    /\ requested \subseteq Nat
    /\ honest \in Honest /\ info \in Infos

\* A data message, from a correct peer or not.
LEMMA ReceiveTyped ==
    ASSUME TransferInv, Receive
    PROVE  \E piece \in Int, len \in Nat, unit \in Unit : ReceiveData(piece, len, unit)
<1>1. size \in Nat /\ received \in Nat /\ PieceLen \in Nat \ {0}
  BY LeechAssumption DEF TransferInv
<1>2. CASE honest
  <2> DEFINE len == Min({PieceLen, size - received})
  <2>1. ReceiveData(NextPiece, len, "good")
    BY <1>2 DEF Receive
  <2>2. len = IF PieceLen <= size - received THEN PieceLen ELSE size - received
    BY <1>1, MinOfTwo
  <2> HIDE DEF len
  <2>3. received < size
    BY <2>1 DEF ReceiveData
  <2>4. len \in Nat
    BY <1>1, <2>2, <2>3
  <2>5. NextPiece \in Int
    BY <1>1 DEF NextPiece
  <2> QED
    BY <2>1, <2>4, <2>5 DEF Unit
<1>3. CASE ~honest
  <2>1. PICK piece \in PieceIndexes, len \in 0..(PieceLen + 1), unit \in {"good", "bad"} :
           ReceiveData(piece, len, unit)
    BY <1>3 DEF Receive
  <2>2. piece \in Int /\ len \in Nat /\ unit \in Unit
    BY LeechAssumption DEF Unit
  <2> QED
    BY <2>1, <2>2
<1> QED
  BY <1>2, <1>3

LEMMA TransferStep ==
    ASSUME CallbackInv, TransferInv, [Next]_vars
    PROVE  TransferInv'
<1>1. UNCHANGED <<honest, info>>
  BY SamePeer
<1>2. ASSUME UNCHANGED <<size, received, metadata, requested>>,
             conn' \in {"none", "open", "closed"}, deadline' \in {"unset", "set", "expired"},
             \/ phase' = phase
             \/ phase' \notin {"connect", "btHandshake", "exHandshake", "request", "receive"}
             \/ received = 0 /\ phase' # "receive"
      PROVE  TransferInv'
  BY <1>1, <1>2 DEF TransferInv
<1>3. conn \in {"none", "open", "closed"} /\ deadline \in {"unset", "set", "expired"}
  BY DEF TransferInv
<1>4. phase \in {"connect", "btHandshake", "exHandshake", "request"} => received = 0
  BY DEF TransferInv
<1>5. CASE DialFails \/ IOError \/ TimedOut
  BY <1>2, <1>3, <1>5 DEF DialFails, IOError, TimedOut, IOFails, OnError, transfer
<1>6. CASE SetOptionFails
  BY <1>2, <1>3, <1>6 DEF SetOptionFails, OnError, transfer
<1>7. CASE Connected
  BY <1>2, <1>4, <1>7 DEF Connected, transfer
<1>8. CASE BtHandshake \/ NotAnExHandshake
  BY <1>2, <1>3, <1>4, <1>8 DEF BtHandshake, NotAnExHandshake, OnError, transfer
<1>9. ASSUME NEW s \in Nat, NEW utOk, ExHandshake(s, utOk)
      PROVE  TransferInv'
  <2>1. CASE 0 < s /\ s < MaxMetadataSize /\ utOk
    <3>1. /\ size' = s /\ metadata' = [i \in 1..s |-> "zero"] /\ phase' = "request"
          /\ received' = 0 /\ UNCHANGED <<conn, deadline, requested>>
      BY <1>4, <1>9, <2>1 DEF ExHandshake
    <3>2. size' \in 0..(MaxMetadataSize - 1)
      BY <2>1, <3>1, LeechAssumption
    <3>3. metadata' \in [1..size' -> Unit]
      BY <3>1 DEF Unit
    <3> QED
      BY <1>1, <3>1, <3>2, <3>3 DEF TransferInv
  <2>2. CASE ~(0 < s /\ s < MaxMetadataSize /\ utOk)
    BY <1>2, <1>3, <1>9, <2>2 DEF ExHandshake, OnError
  <2> QED
    BY <2>1, <2>2
<1>10. CASE requestAllPieces
  <2>1. size \in Nat /\ PieceLen \in Nat \ {0}
    BY LeechAssumption DEF TransferInv
  <2>2. NPieces \in Int
    BY <2>1 DEF NPieces
  <2>3. requested' \subseteq Nat
    BY <1>10, <2>2 DEF requestAllPieces
  <2>4. received = 0 /\ phase' = "receive" /\ UNCHANGED <<conn, deadline, size, received, metadata>>
    BY <1>4, <1>10 DEF requestAllPieces
  <2> QED
    BY <1>1, <2>1, <2>3, <2>4 DEF TransferInv
<1>11. CASE ReceiveRefusal
  BY <1>2, <1>3, <1>11 DEF ReceiveRefusal, OnError, transfer
<1>12. ASSUME NEW piece \in Int, NEW len \in Nat, NEW unit \in Unit, ReceiveData(piece, len, unit)
       PROVE  TransferInv'
  <2> DEFINE first == piece * PieceLen
  <2>1. phase = "receive" /\ received < size /\ UNCHANGED <<conn, deadline, size, requested>>
    BY <1>12 DEF ReceiveData
  <2>2. CASE phase' \in {"return", "panicked"} /\ UNCHANGED <<received, metadata>>
    BY <1>2, <1>3, <2>1, <2>2
  <2>3. CASE /\ metadata' = [i \in 1..size |-> IF i \in (first + 1)..(first + len)
                                               THEN unit ELSE metadata[i]]
             /\ received' = received + len
             /\ phase' = "return" \/ (~TooMuch(len) /\ phase' = phase)
    <3>1. metadata' \in [1..size' -> Unit]
      BY <2>1, <2>3 DEF TransferInv
    <3>2. size \in Nat /\ received \in Nat
      BY LeechAssumption DEF TransferInv
    <3>3. received' \in Nat /\ (phase' = "receive" => received' <= size')
      BY <2>1, <2>3, <3>2 DEF TooMuch
    <3>4. phase' \in {"receive", "return"}
      BY <2>1, <2>3
    <3> QED
      BY <1>1, <2>1, <3>1, <3>3, <3>4 DEF TransferInv
  <2> QED
    BY <1>12, <2>2, <2>3 DEF ReceiveData, OnError
<1>13. CASE Received
  BY <1>2, <1>3, <1>13 DEF Received, transfer
<1>14. CASE Verify
  BY <1>2, <1>3, <1>14 DEF Verify, OnError, transfer
<1>15. CASE Expire \/ UNCHANGED vars
  BY <1>2, <1>3, <1>15 DEF Expire, vars, transfer
<1>16. CASE Return
  BY <1>2, <1>3, <1>16 DEF Return, transfer
<1>17. Handshakes => BtHandshake \/ NotAnExHandshake \/ \E s \in Nat, utOk \in BOOLEAN : ExHandshake(s, utOk)
  <2>1. TrueSize \in Nat /\ 0..MaxMetadataSize \subseteq Nat
    BY LeechAssumption
  <2>2. CASE honest
    BY <2>1, <2>2 DEF Handshakes
  <2>3. CASE ~honest
    BY <2>1, <2>3 DEF Handshakes
  <2> QED
    BY <2>2, <2>3
<1>18. Receive => \E piece \in Int, len \in Nat, unit \in Unit : ReceiveData(piece, len, unit)
  BY ReceiveTyped
<1> QED
  BY <1>5, <1>6, <1>7, <1>8, <1>9, <1>10, <1>11, <1>12, <1>13, <1>14, <1>15, <1>16, <1>17, <1>18
  DEF Next

\* Whatever lengths and piece numbers a peer sends, the buffer keeps the size
\* announced, below MAX_METADATA_SIZE, and the count of received bytes goes beyond
\* it only when Do has given up.
THEOREM LeechTypeCorrect == Spec => []TypeOK
<1> DEFINE IInv == SafeInv /\ TransferInv /\ ioFailed \in BOOLEAN
<1>1. Init => IInv
  <2>1. Init => SafeInv
    BY OneCallback DEF Init, SafeInv, CallbackInv, ConnInv, SuccessIsGenuine, Working
  <2>2. Init => TransferInv
    BY LeechAssumption DEF Init, TransferInv
  <2> QED
    BY <2>1, <2>2 DEF Init
<1>2. IInv /\ [Next]_vars => IInv'
  <2>1. ioFailed \in BOOLEAN /\ [Next]_vars => ioFailed' \in BOOLEAN
    BY DEF Next, vars, DialFails, SetOptionFails, Connected, Handshakes, BtHandshake,
           NotAnExHandshake, ExHandshake, requestAllPieces, ReceiveRefusal, Receive, ReceiveData,
           Received, Verify, IOError, TimedOut, IOFails, Expire, Return
  <2> QED
    BY <2>1, SafeStep, TransferStep DEF SafeInv
<1>3. IInv => TypeOK
  <2>1. << >> \in Seq({"success", "error"}) /\ <<"error">> \in Seq({"success", "error"})
        /\ <<"success">> \in Seq({"success", "error"})
    OBVIOUS
  <2>2. CallbackInv => callbacks \in Seq({"success", "error"})
    BY <2>1 DEF CallbackInv
  <2> QED
    BY <2>2 DEF SafeInv, CallbackInv, Working, TransferInv, Unit, TypeOK
<1> HIDE DEF IInv
<1> QED
  BY <1>1, <1>2, <1>3, PTL DEF Spec
=============================================================================
