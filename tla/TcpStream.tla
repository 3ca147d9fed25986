------------------------------ MODULE TcpStream ------------------------------
(***************************************************************************)
(* exampleProjects/common/hal/TcpStreamServer.h: the stream the examples    *)
(* use with --tcp-port.  A thread receives into a ring under a mutex; the   *)
(* comms task reads from it.  The peer's bytes are numbered as it sends     *)
(* them.  Sockets are external: recv() returns some of the bytes sent, or   *)
(* an end once the peer has closed or the descriptor is gone; close() does  *)
(* not wake a thread that is already waiting in recv().                     *)
(***************************************************************************)
EXTENDS Integers, Sequences

CONSTANTS kRxBufSize, kTmpSize,   \* the ring and rxLoop()'s local buffer
          MaxBytes                \* bound: bytes the peer sends

ASSUME TcpAssumption == {kRxBufSize, kTmpSize} \subseteq Nat \ {0} /\ MaxBytes \in Nat

VARIABLES
    sent, peerOpen,          \* the peer: bytes sent so far, and is it connected
    recvd,                   \* bytes recv() has returned so far
    m_serverFd, m_clientFd,  \* is the descriptor valid
    m_connected,
    m_rxBuf, m_rxHead, m_rxTail, m_rxLen,
    rx, tmp,                 \* where rxLoop() is, and its buffer
    client,                  \* what main() and the comms task are at
    got, dropped             \* history: bytes read() returned; bytes dropped

ringVars == <<m_rxBuf, m_rxHead, m_rxTail, m_rxLen>>
tcpVars == <<sent, peerOpen, recvd, m_serverFd, m_clientFd, m_connected, ringVars, rx, tmp,
             client, got, dropped>>

TcpInit ==
    /\ sent = 0 /\ peerOpen = TRUE /\ recvd = 0
    /\ m_serverFd = FALSE /\ m_clientFd = FALSE /\ m_connected = FALSE
    /\ m_rxBuf = [k \in 0 .. kRxBufSize - 1 |-> 0]
    /\ m_rxHead = 0 /\ m_rxTail = 0 /\ m_rxLen = 0
    /\ rx = "none" /\ tmp = <<>> /\ client = "main" /\ got = <<>> /\ dropped = {}

(* startAccept() blocks until the peer connects; a socket(), bind() or      *)
(* accept() that fails makes main() return 1, with the destructor's stop(). *)
StartAccept ==
    /\ client = "main"
    /\ m_serverFd' = TRUE /\ m_clientFd' = TRUE /\ m_connected' = TRUE
    /\ rx' = "loop" /\ client' = "run"
    /\ UNCHANGED <<sent, peerOpen, recvd, ringVars, tmp, got, dropped>>

StartAcceptFails ==
    /\ client = "main"
    /\ client' = "stop"
    /\ UNCHANGED <<sent, peerOpen, recvd, m_serverFd, m_clientFd, m_connected, ringVars,
                   rx, tmp, got, dropped>>

PeerSends ==
    /\ m_clientFd /\ peerOpen /\ sent < MaxBytes
    /\ sent' = sent + 1
    /\ UNCHANGED <<peerOpen, recvd, m_serverFd, m_clientFd, m_connected, ringVars,
                   rx, tmp, client, got, dropped>>

PeerCloses ==
    /\ peerOpen /\ peerOpen' = FALSE
    /\ UNCHANGED <<sent, recvd, m_serverFd, m_clientFd, m_connected, ringVars,
                   rx, tmp, client, got, dropped>>

(* rxLoop(): the loop condition, recv(), and the bytes stored one by one    *)
(* under the mutex, which is held in "locked".                              *)
RxLoop ==
    /\ rx = "loop"
    /\ rx' = IF m_connected THEN "call" ELSE "ended"
    /\ UNCHANGED <<sent, peerOpen, recvd, m_serverFd, m_clientFd, m_connected, ringVars,
                   tmp, client, got, dropped>>

RecvCall ==
    /\ rx = "call"
    /\ rx' = IF m_clientFd THEN "recv" ELSE "ended"
    /\ m_connected' = (m_connected /\ m_clientFd)
    /\ UNCHANGED <<sent, peerOpen, recvd, m_serverFd, m_clientFd, ringVars, tmp, client,
                   got, dropped>>

RecvBytes ==
    /\ rx = "recv"
    /\ \E n \in 1 .. kTmpSize :
         /\ recvd + n <= sent
         /\ tmp' = [k \in 1 .. n |-> recvd + k]
         /\ recvd' = recvd + n
    /\ rx' = "store"
    /\ UNCHANGED <<sent, peerOpen, m_serverFd, m_clientFd, m_connected, ringVars,
                   client, got, dropped>>

RecvEnds ==
    /\ rx = "recv" /\ ~peerOpen /\ recvd = sent
    /\ m_connected' = FALSE
    /\ rx' = "ended"
    /\ UNCHANGED <<sent, peerOpen, recvd, m_serverFd, m_clientFd, ringVars, tmp,
                   client, got, dropped>>

HasRoomOneMore(len) == len <= kRxBufSize
HasRoom(len) == len < kRxBufSize
Wrap(i) == i % kRxBufSize

RxLock ==
    /\ rx = "store"
    /\ rx' = "locked"
    /\ UNCHANGED <<sent, peerOpen, recvd, m_serverFd, m_clientFd, m_connected, ringVars,
                   tmp, client, got, dropped>>

RxStoreByte ==
    /\ rx = "locked" /\ tmp # <<>>
    /\ IF HasRoom(m_rxLen)
       THEN /\ m_rxBuf' = [m_rxBuf EXCEPT ![m_rxTail] = Head(tmp)]
            /\ m_rxTail' = Wrap(m_rxTail + 1)
            /\ m_rxLen' = m_rxLen + 1
            /\ UNCHANGED dropped
       ELSE /\ dropped' = dropped \cup {Head(tmp)}
            /\ UNCHANGED <<m_rxBuf, m_rxTail, m_rxLen>>
    /\ tmp' = Tail(tmp)
    /\ UNCHANGED <<sent, peerOpen, recvd, m_serverFd, m_clientFd, m_connected, m_rxHead,
                   rx, client, got>>

RxUnlock ==
    /\ rx = "locked" /\ tmp = <<>>
    /\ rx' = "loop"
    /\ UNCHANGED <<sent, peerOpen, recvd, m_serverFd, m_clientFd, m_connected, ringVars,
                   tmp, client, got, dropped>>

(* read() of up to max bytes, in the comms task, waits for the mutex and    *)
(* holds it; StdoutStreamReader, the stream without --tcp-port, never has   *)
(* any.                                                                     *)
Ring(buf, head, len) == [k \in 1 .. len |-> buf[Wrap(head + k - 1)]]
Unread == Ring(m_rxBuf, m_rxHead, m_rxLen)

Read(max) ==
    /\ client = "run" /\ rx # "locked"
    /\ LET n == IF max < m_rxLen THEN max ELSE m_rxLen IN
         /\ got' = got \o SubSeq(Unread, 1, n)
         /\ m_rxHead' = Wrap(m_rxHead + n)
         /\ m_rxLen' = m_rxLen - n
    /\ UNCHANGED <<sent, peerOpen, recvd, m_serverFd, m_clientFd, m_connected, m_rxBuf,
                   m_rxTail, rx, tmp, client, dropped>>

(* stop(): the flag, the descriptors, the join.                             *)
StopFlag ==
    /\ client \in {"run", "stop"}
    /\ m_connected' = FALSE
    /\ client' = "close"
    /\ UNCHANGED <<sent, peerOpen, recvd, m_serverFd, m_clientFd, ringVars, rx, tmp,
                   got, dropped>>

StopClose ==
    /\ client = "close"
    /\ m_serverFd' = FALSE /\ m_clientFd' = FALSE
    /\ client' = "join"
    /\ UNCHANGED <<sent, peerOpen, recvd, m_connected, ringVars, rx, tmp, got, dropped>>

StopJoin ==
    /\ client = "join" /\ rx \in {"none", "ended"}
    /\ client' = "done"
    /\ UNCHANGED <<sent, peerOpen, recvd, m_serverFd, m_clientFd, m_connected, ringVars,
                   rx, tmp, got, dropped>>

TcpNext ==
    StartAccept \/ StartAcceptFails \/ PeerSends \/ PeerCloses
    \/ RxLoop \/ RecvCall \/ RecvBytes \/ RecvEnds
    \/ RxLock \/ RxStoreByte \/ RxUnlock
    \/ (\E max \in 1 .. kRxBufSize : Read(max)) \/ StopFlag \/ StopClose \/ StopJoin

TcpSpec == TcpInit /\ [][TcpNext]_tcpVars
-----------------------------------------------------------------------------
(* What the comms task has read and what is left in the ring are the bytes   *)
(* the peer sent, each once and in order, except those that came while the   *)
(* ring was full; however the two threads and the wrap of the ring fall.     *)
Stored == got \o Unread

BytesInOrder ==
    /\ \A i, j \in DOMAIN Stored : i < j => Stored[i] < Stored[j]
    /\ {Stored[i] : i \in DOMAIN Stored} = (1 .. recvd - Len(tmp)) \ dropped

(* What makes it inductive: the tail is where the unread bytes end, and the  *)
(* local buffer holds the bytes received last.                               *)
RingInv ==
    /\ m_rxBuf \in [0 .. kRxBufSize - 1 -> Nat]
    /\ m_rxHead \in 0 .. kRxBufSize - 1 /\ m_rxLen \in 0 .. kRxBufSize
    /\ m_rxTail = Wrap(m_rxHead + m_rxLen)

TmpInv ==
    /\ recvd \in Nat /\ tmp \in Seq(Nat) /\ Len(tmp) <= recvd
    /\ \A k \in 1 .. Len(tmp) : tmp[k] = recvd - Len(tmp) + k
    /\ rx \notin {"store", "locked"} => tmp = <<>>
    /\ client = "main" => rx = "none"

TcpInv ==
    /\ RingInv /\ TmpInv /\ BytesInOrder
    /\ got \in Seq(Nat) /\ dropped \subseteq 1 .. recvd - Len(tmp)
=============================================================================
