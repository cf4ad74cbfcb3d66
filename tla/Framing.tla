------------------------------- MODULE Framing -------------------------------
(***************************************************************************)
(* One direction of one connection: do_send puts a Header before the data  *)
(* and hands both to ::send, which blocks while the stream is full;        *)
(* do_recieve reads the header and then as many bytes as it announces,     *)
(* through recv_, which takes what the stream holds until it has enough.   *)
(*                                                                         *)
(* A frame is a sequence of cells <<m, i>>, the i-th of message m's frame: *)
(* cell 1 is the magic, cell 2 the size, the others are data.              *)
(***************************************************************************)
EXTENDS Integers, Sequences, SequencesExt

CONSTANTS
    Senders,    \* threads that call do_send on this connection
    Messages,   \* each sent at most once
    Size,       \* sndSize of each message, in cells
    Capacity    \* what the stream holds: the send and the receive buffer

ASSUME FramingAssumption ==
    /\ Size \in [Messages -> Nat]
    /\ Capacity \in Nat \ {0}

HeaderSize == 2

VARIABLES
    unsent,     \* what each sender has yet to write of its frame; it holds mtx_ if there is any
    stream,     \* cells written and not yet received
    cut,        \* the peer has closed or reset the connection
    phase,      \* where the receiver is
    need,       \* remainSize in recv_
    got,        \* the cells this recv_ has received
    \* History.
    order,      \* messages, in the order their do_send got mtx_
    sent,       \* messages whose do_send returned 0
    delivered   \* the data of the messages do_recieve returned, in order

vars == <<unsent, stream, cut, phase, need, got, order, sent, delivered>>

Frame(m) == [i \in 1..(HeaderSize + Size[m]) |-> <<m, i>>]
Data(m) == [i \in 1..Size[m] |-> <<m, HeaderSize + i>>]

Init ==
    /\ unsent = [a \in Senders |-> <<>>]
    /\ stream = <<>> /\ cut = FALSE
    /\ phase = "idle" /\ need = 0 /\ got = <<>>
    /\ order = <<>> /\ sent = {} /\ delivered = <<>>

-----------------------------------------------------------------------------
(* Socket::do_send, from mtx_ to its release *)

\* Mutant: do_send without mtx_.
MutMtxFree == TRUE

MtxFree == \A a \in Senders : unsent[a] = <<>>

SendBegin(a, m) ==
    /\ MtxFree /\ unsent[a] = <<>>
    /\ m \notin Range(order)
    /\ order' = Append(order, m)
    /\ unsent' = [unsent EXCEPT ![a] = Frame(m)]
    /\ UNCHANGED <<stream, cut, phase, need, got, sent, delivered>>

\* Mutant: ::send does not block, and do_send takes a short count for all.
MutSendShort(a) ==
    /\ unsent[a] # <<>> /\ ~cut
    /\ \E k \in 1..Len(unsent[a]) :
         /\ Len(stream) + k <= Capacity
         /\ stream' = stream \o SubSeq(unsent[a], 1, k)
    /\ unsent' = [unsent EXCEPT ![a] = <<>>]
    /\ sent' = sent \cup {Head(unsent[a])[1]}
    /\ UNCHANGED <<cut, phase, need, got, order, delivered>>

\* ::send copies as much as there is room for, and returns when all is copied.
SendSome(a) ==
    /\ unsent[a] # <<>> /\ ~cut
    /\ \E k \in 1..Len(unsent[a]) :
         /\ Len(stream) + k <= Capacity
         /\ stream' = stream \o SubSeq(unsent[a], 1, k)
         /\ unsent' = [unsent EXCEPT ![a] = SubSeq(@, k + 1, Len(@))]
         /\ sent' = IF k = Len(unsent[a]) THEN sent \cup {Head(unsent[a])[1]} ELSE sent
    /\ UNCHANGED <<cut, phase, need, got, order, delivered>>

\* The connection is cut under ::send: -1 when nothing was copied, else a short count, which
\* do_send takes for success.
SendCut(a) ==
    /\ unsent[a] # <<>> /\ cut
    /\ unsent' = [unsent EXCEPT ![a] = <<>>]
    /\ sent' = IF Head(unsent[a])[2] > 1 THEN sent \cup {Head(unsent[a])[1]} ELSE sent
    /\ UNCHANGED <<stream, cut, phase, need, got, order, delivered>>

-----------------------------------------------------------------------------
(* The receiver: do_recieve_event for this connection, do_recieve and recv_ *)

\* epoll_wait finds the connection cut, finds data, or times out.
WaitEvent ==
    /\ phase = "idle"
    /\ \/ cut /\ phase' = "closed" /\ UNCHANGED <<need, got>>
       \/ ~cut /\ stream # <<>> /\ phase' = "head" /\ need' = HeaderSize /\ got' = <<>>
       \/ ~cut /\ UNCHANGED <<phase, need, got>>
    /\ UNCHANGED <<unsent, stream, cut, order, sent, delivered>>

\* Mutant: ::recv is asked for rcvSize again, not for remainSize.
Mutrecv_ ==
    /\ phase \in {"head", "data"} /\ need > 0
    /\ \E k \in 1..Len(stream) :
         /\ k <= need + Len(got)
         /\ got' = got \o SubSeq(stream, 1, k)
         /\ stream' = SubSeq(stream, k + 1, Len(stream))
         /\ need' = need - k
    /\ UNCHANGED <<unsent, cut, phase, order, sent, delivered>>

\* One ::recv of recv_'s loop: whatever part of what it needs has arrived.
recv_ ==
    /\ phase \in {"head", "data"} /\ need > 0
    /\ \E k \in 1..Len(stream) :
         /\ k <= need
         /\ got' = got \o SubSeq(stream, 1, k)
         /\ stream' = SubSeq(stream, k + 1, Len(stream))
         /\ need' = need - k
    /\ UNCHANGED <<unsent, cut, phase, order, sent, delivered>>

\* Mutant: ::recv does not block, and nothing there yet is taken for an error.
MutRecvCut ==
    /\ phase \in {"head", "data"} /\ need > 0
    /\ stream = <<>>
    /\ phase' = "idle"
    /\ UNCHANGED <<unsent, stream, cut, need, got, order, sent, delivered>>

\* ::recv returns 0 or an error, and so does do_recieve; the event loop goes on.
RecvCut ==
    /\ phase \in {"head", "data"} /\ need > 0
    /\ stream = <<>> /\ cut
    /\ phase' = "idle"
    /\ UNCHANGED <<unsent, stream, cut, need, got, order, sent, delivered>>

\* Read as a size, a cell that is no size is some number.
SizeIn(cell) == IF cell[2] = 2 THEN Size[cell[1]] ELSE 1

\* The header is complete: the magic is compared, then recv_ is called for the data.
RecvHead ==
    /\ phase = "head" /\ need = 0
    /\ IF got[1][2] = 1
       THEN /\ phase' = "data"
            /\ need' = SizeIn(got[2])
            /\ got' = <<>>
       ELSE phase' = "invalid" /\ UNCHANGED <<need, got>>
    /\ UNCHANGED <<unsent, stream, cut, order, sent, delivered>>

\* recv_ returns what it received; 0 is taken for a cut connection, and is also what a message
\* of size 0 gives.
RecvData ==
    /\ phase = "data" /\ need = 0
    /\ IF got = <<>>
       THEN phase' = "disconnect" /\ UNCHANGED delivered
       ELSE phase' = "idle" /\ delivered' = Append(delivered, got)
    /\ UNCHANGED <<unsent, stream, cut, need, got, order, sent>>

\* Mutant: the loop is left after a 0, as for a cut connection.
MutGiveUp ==
    /\ phase \in {"invalid", "disconnect"}
    /\ phase' = IF phase = "invalid" THEN "idle" ELSE "closed"
    /\ UNCHANGED <<unsent, stream, cut, need, got, order, sent, delivered>>

\* do_recieve returns SOCKET_ERROR or 0, and the event loop goes on.
GiveUp ==
    /\ phase \in {"invalid", "disconnect"}
    /\ phase' = "idle"
    /\ UNCHANGED <<unsent, stream, cut, need, got, order, sent, delivered>>

PeerCuts == ~cut /\ cut' = TRUE /\ UNCHANGED <<unsent, stream, phase, need, got, order, sent, delivered>>

Closed == phase = "closed" /\ UNCHANGED vars

-----------------------------------------------------------------------------

Recieve == WaitEvent \/ recv_ \/ RecvCut \/ RecvHead \/ RecvData \/ GiveUp

Next ==
    \/ \E a \in Senders : SendSome(a) \/ SendCut(a) \/ \E m \in Messages : SendBegin(a, m)
    \/ Recieve \/ PeerCuts \/ Closed

Spec == Init /\ [][Next]_vars

\* A blocked ::send and the receiver go on when they can; nobody has to send or to cut.
FairSpec ==
    /\ Spec
    /\ \A a \in Senders : WF_vars(SendSome(a) \/ SendCut(a))
    /\ WF_vars(Recieve)

-----------------------------------------------------------------------------
(* What the two ends wait for *)

\* ::send waits for room.
CanSend(a) == unsent[a] # <<>> /\ (cut \/ Len(stream) < Capacity)

\* recv_ waits for what it has not yet received.
CanRecieve ==
    /\ phase # "closed"
    /\ phase \in {"head", "data"} /\ need > 0 => cut \/ stream # <<>>

-----------------------------------------------------------------------------

Cells == UNION {Range(Frame(m)) : m \in Messages}

TypeOK ==
    /\ unsent \in [Senders -> Seq(Cells)]
    /\ stream \in Seq(Cells) /\ Len(stream) <= Capacity
    /\ cut \in BOOLEAN
    /\ phase \in {"idle", "head", "data", "invalid", "disconnect", "closed"}
    /\ need \in Nat
    /\ got \in Seq(Cells)
    /\ order \in Seq(Messages)
    /\ sent \subseteq Messages
    /\ delivered \in Seq(Seq(Cells))

\* How many of the first k messages have data: those are reported.
Rank(k) == Cardinality({j \in 1..k : Size[order[j]] > 0})

\* What is received is what was sent, whole and in order, however the stream cuts and joins the
\* frames and however many threads send.
WholeAndInOrder ==
    /\ Len(delivered) <= Rank(Len(order))
    /\ \A k \in DOMAIN order :
         Size[order[k]] > 0 /\ Rank(k) <= Len(delivered) => delivered[Rank(k)] = Data(order[k])

\* do_recieve never meets a header without magic: sender and receiver stay in step, also after a
\* message that do_recieve gives up.
NeverOutOfStep == phase # "invalid"

\* recv_ has no timeout: when it waits, a sender is writing the rest or the connection is cut.
NeverWaitsInVain == phase \in {"head", "data"} /\ need > 0 /\ stream = <<>> => cut \/ ~MtxFree

\* The comment "the connection was cut" (接続が切れた) at the branch for 0 bytes of data.
ZeroMeansCut == phase = "disconnect" => cut

\* A message that do_send accepted is received, unless the connection is cut or it is empty.
SentIsRecieved ==
    \A m \in Messages :
      m \in sent /\ Size[m] > 0 ~> (cut \/ \E i \in DOMAIN delivered : delivered[i] = Data(m))
=============================================================================
