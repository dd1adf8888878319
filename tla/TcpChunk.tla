------------------------------ MODULE TcpChunk ------------------------------
(***************************************************************************)
(* The framed file transfer of src/src/transports/tcp_transport.cpp: one   *)
(* TcpChunkServer::serve_once() and one TcpChunkClient::transfer() over a  *)
(* TCP connection that delivers bytes in order, in pieces of any size, and *)
(* may break at any time.                                                  *)
(*                                                                         *)
(* A frame is cut into Parts pieces on the wire.  FrameDecoder::feed()     *)
(* (src/src/transports/frame.cpp) appends what recv() returned to its      *)
(* buffer and takes at most ONE frame off its front; what lies behind it   *)
(* stays there until the next recv() returns.  Offsets and lengths count   *)
(* chunks.  The code exists on Windows only.                               *)
(***************************************************************************)
EXTENDS Integers, Sequences

CONSTANTS Parts,      \* into how many pieces a frame may be cut
          Offsets,    \* the offsets a client may ask for
          Lengths     \* the lengths a client may ask for

ASSUME TcpConstants ==
  /\ Parts \in Nat \ {0}
  /\ Offsets \subseteq Nat
  /\ Lengths \subseteq Nat

VARIABLES wire,    \* wire[e], the pieces on their way to end e
          dec,     \* dec[e], the buffer of the decoder of end e
          reset,   \* the connection has broken
          server,  \* the locals of serve_once()
          client,  \* the locals of transfer()
          req,     \* the range the client asks for
          dst      \* what the client has written to its file, in order

vars == <<wire, dec, reset, server, client, req, dst>>

End == {"client", "server"}

Peer(e) == IF e = "client" THEN "server" ELSE "client"

Frame(type, id) == [type |-> type, chunk_id |-> id, offset |-> id]

Init ==
  /\ wire = [e \in End |-> <<>>]
  /\ dec = [e \in End |-> <<>>]
  /\ reset = FALSE
  /\ server = [pc |-> "accept", next |-> 0, result |-> "ok"]
  /\ client = [pc |-> "idle", expected |-> 0, result |-> "ok"]
  /\ req \in [offset : Offsets, length : Lengths]
  /\ dst = <<>>
-----------------------------------------------------------------------------
(* recv_some(), feed() and send_all().                                     *)

\* The frame types the two ends wait for.
Awaited ==
  [hello |-> {"hello"}, req |-> {"transfer_req"}, ack |-> {"chunk_ack"},
   commit_ack |-> {"commit_ack"}, hello_ack |-> {"hello_ack"},
   recv |-> {"chunk", "commit"}]

Pc(e) == IF e = "client" THEN client.pc ELSE server.pc

Waiting(e) == Pc(e) \in DOMAIN Awaited

\* The pieces of a frame; nothing arrives over a broken connection.
Send(e, frames) ==
  IF frames = <<>> \/ reset THEN <<>> ELSE [i \in 1 .. Parts |-> frames[1]]

\* recv() returns k pieces, which complete no frame.
Partial(e) ==
  /\ Waiting(e)
  /\ \E k \in 1 .. Len(wire[e]) :
       /\ Len(dec[e]) + k < Parts
       /\ dec' = [dec EXCEPT ![e] = @ \o SubSeq(wire[e], 1, k)]
       /\ wire' = [wire EXCEPT ![e] = SubSeq(@, k + 1, Len(@))]
  /\ UNCHANGED <<reset, server, client, req, dst>>

\* The frame feed() finds at the front of the buffer.
Incoming(e) == (dec[e] \o wire[e])[1]

\* recv() returns k pieces, feed() one frame, and end e sends an answer.
Receive(e, answer) ==
  \E k \in 1 .. Len(wire[e]) :
    /\ Len(dec[e]) + k >= Parts
    /\ dec' = [dec EXCEPT ![e] = SubSeq(@ \o SubSeq(wire[e], 1, k), Parts + 1, Len(@) + k)]
    /\ wire' = [wire EXCEPT ![e] = SubSeq(@, k + 1, Len(@)),
                            ![Peer(e)] = @ \o Send(e, answer)]

\* Mutant: recv() returning 0, the other end's close, is not an error.
LostOnReset(e) ==
  /\ Waiting(e)
  /\ wire[e] = <<>>
  /\ reset

\* recv() fails: nothing is left to read and the other end is gone.
Lost(e) ==
  /\ Waiting(e)
  /\ wire[e] = <<>>
  /\ reset \/ Pc(Peer(e)) = "closed"
-----------------------------------------------------------------------------
(* The server.                                                             *)

\* The socket is closed and serve_once() returns.
ServerReturns(r) == server' = [server EXCEPT !.pc = "closed", !.result = r]

ServerAccepts ==
  /\ server.pc = "accept"
  /\ client.pc # "idle"
  /\ server' = [server EXCEPT !.pc = "hello"]
  /\ UNCHANGED <<wire, dec, reset, client, req, dst>>

ServerStep ==
  [hello |-> "req", req |-> "open", ack |-> "send", commit_ack |-> "closed"]

\* A frame of another type than the one awaited is ignored.
ServerReceives ==
  /\ server.pc \in DOMAIN ServerStep
  /\ wire["server"] # <<>>
  /\ LET awaited == Incoming("server").type \in Awaited[server.pc]
         answer == IF awaited /\ server.pc = "hello" THEN <<Frame("hello_ack", 0)>> ELSE <<>>
     IN /\ Receive("server", answer)
        /\ server' = IF awaited
                     THEN [server EXCEPT !.pc = ServerStep[@],
                                         !.next = IF server.pc = "ack" THEN @ + 1 ELSE @]
                     ELSE server
  /\ UNCHANGED <<reset, client, req, dst>>

ServerOpens ==
  /\ server.pc = "open"
  /\ server' = [server EXCEPT !.pc = "send"]
  /\ UNCHANGED <<wire, dec, reset, client, req, dst>>

\* The source file cannot be opened.
ServerOpenFails ==
  /\ server.pc = "open"
  /\ ServerReturns("backend_failure")
  /\ UNCHANGED <<wire, dec, reset, client, req, dst>>

\* Mutant: the next chunk is sent without waiting for the acknowledgement.
ServerSendsAhead ==
  /\ server.pc = "send"
  /\ server.next < req.length
  /\ wire' = [wire EXCEPT !["client"] = @ \o Send("server", <<Frame("chunk", server.next)>>)]
  /\ server' = [server EXCEPT !.next = @ + 1]
  /\ UNCHANGED <<dec, reset, client, req, dst>>

\* Mutant: a chunk is counted when it is sent and again when it is acknowledged.
ServerCountsTwice ==
  /\ server.pc = "send"
  /\ server.next < req.length
  /\ wire' = [wire EXCEPT !["client"] = @ \o Send("server", <<Frame("chunk", server.next)>>)]
  /\ server' = [server EXCEPT !.pc = "ack", !.next = @ + 1]
  /\ UNCHANGED <<dec, reset, client, req, dst>>

\* The plan starts at source offset 0, whatever offset was asked for.
ServerSends ==
  /\ server.pc = "send"
  /\ server.next < req.length
  /\ wire' = [wire EXCEPT !["client"] = @ \o Send("server", <<Frame("chunk", server.next)>>)]
  /\ server' = [server EXCEPT !.pc = "ack"]
  /\ UNCHANGED <<dec, reset, client, req, dst>>

\* The chunk cannot be read or sent.
ServerAborts ==
  /\ server.pc = "send"
  /\ server.next < req.length
  /\ ServerReturns("backend_failure")
  /\ UNCHANGED <<wire, dec, reset, client, req, dst>>

ServerCommits ==
  /\ server.pc = "send"
  /\ server.next = req.length
  /\ wire' = [wire EXCEPT !["client"] = @ \o Send("server", <<Frame("commit", 0)>>)]
  /\ server' = [server EXCEPT !.pc = "commit_ack"]
  /\ UNCHANGED <<dec, reset, client, req, dst>>

\* Mutant: losing the connection while waiting for chunk_ack is no error either.
ServerLosesSilently ==
  /\ Lost("server")
  /\ ServerReturns(IF server.pc \in {"commit_ack", "ack"} THEN "ok" ELSE "transient_transport")
  /\ UNCHANGED <<wire, dec, reset, client, req, dst>>

\* Mutant: losing the connection while waiting for commit_ack is an error too.
ServerLosesStrictly ==
  /\ Lost("server")
  /\ ServerReturns("transient_transport")
  /\ UNCHANGED <<wire, dec, reset, client, req, dst>>

\* Losing the connection is an error, but not while waiting for commit_ack.
ServerLoses ==
  /\ Lost("server")
  /\ ServerReturns(CASE server.pc = "commit_ack" -> "ok"
                     [] server.pc = "ack" -> "backend_failure"
                     [] OTHER -> "transient_transport")
  /\ UNCHANGED <<wire, dec, reset, client, req, dst>>
-----------------------------------------------------------------------------
(* The client.                                                             *)

\* transfer() returns; the socket stays open until close().
ClientReturns(r) == client' = [client EXCEPT !.pc = "returned", !.result = r]

\* connect() and the hello frame.
ClientHello ==
  /\ client.pc = "idle"
  /\ wire' = [wire EXCEPT !["server"] = @ \o Send("client", <<Frame("hello", 0)>>)]
  /\ client' = [client EXCEPT !.pc = "hello_ack"]
  /\ UNCHANGED <<dec, reset, server, req, dst>>

ClientGreeted ==
  /\ client.pc = "hello_ack"
  /\ wire["client"] # <<>>
  /\ Receive("client", <<>>)
  /\ client' = IF Incoming("client").type \in Awaited.hello_ack
               THEN [client EXCEPT !.pc = "request"] ELSE client
  /\ UNCHANGED <<reset, server, req, dst>>

\* The request is sent, then the destination file is created.
ClientRequests ==
  /\ client.pc = "request"
  /\ wire' = [wire EXCEPT !["server"] = @ \o Send("client", <<Frame("transfer_req", 0)>>)]
  /\ \/ client' = [client EXCEPT !.pc = "recv"]
     \/ ClientReturns("backend_failure")
  /\ UNCHANGED <<dec, reset, server, req, dst>>

\* The request cannot be sent.
ClientSendFails ==
  /\ client.pc = "request"
  /\ reset \/ server.pc = "closed"
  /\ ClientReturns("transient_transport")
  /\ UNCHANGED <<wire, dec, reset, server, req, dst>>

\* Order, then bounds, are tested before anything is written.
Rejected(f) ==
  \/ f.chunk_id # client.expected
  \/ f.offset < req.offset
  \/ f.offset + 1 > req.offset + req.length

\* One chunk: rejected, not written because of an error, or written and
\* acknowledged.
ClientChunk ==
  /\ client.pc = "recv"
  /\ wire["client"] # <<>>
  /\ Incoming("client").type = "chunk"
  /\ LET f == Incoming("client")
     IN \/ /\ Rejected(f)
           /\ Receive("client", <<>>)
           /\ ClientReturns("invalid_request")
           /\ UNCHANGED dst
        \/ /\ ~Rejected(f)
           /\ Receive("client", <<>>)
           /\ ClientReturns("backend_failure")
           /\ UNCHANGED dst
        \/ /\ ~Rejected(f)
           /\ Receive("client", <<Frame("chunk_ack", f.chunk_id)>>)
           /\ dst' = Append(dst, f.offset)
           /\ client' = [client EXCEPT !.expected = @ + 1]
  /\ UNCHANGED <<reset, server, req>>

\* Frames other than chunk and commit are ignored.
ClientCommit ==
  /\ client.pc = "recv"
  /\ wire["client"] # <<>>
  /\ Incoming("client").type # "chunk"
  /\ LET done == Incoming("client").type = "commit"
     IN /\ Receive("client", IF done THEN <<Frame("commit_ack", 0)>> ELSE <<>>)
        /\ client' = IF done
                     THEN [client EXCEPT !.pc = "returned",
                                         !.result = IF Len(dst) = req.length
                                                    THEN "ok" ELSE "integrity_failure"]
                     ELSE client
  /\ UNCHANGED <<reset, server, req, dst>>

ClientLoses ==
  /\ Lost("client")
  /\ ClientReturns("transient_transport")
  /\ UNCHANGED <<wire, dec, reset, server, req, dst>>

ClientCloses ==
  /\ client.pc = "returned"
  /\ client' = [client EXCEPT !.pc = "closed"]
  /\ UNCHANGED <<wire, dec, reset, server, req, dst>>
-----------------------------------------------------------------------------
\* The connection breaks and what is on its way is lost.
Break ==
  /\ ~reset
  /\ client.pc # "idle"
  /\ reset' = TRUE
  /\ wire' = [e \in End |-> <<>>]
  /\ UNCHANGED <<dec, server, client, req, dst>>

ServerNext ==
  \/ ServerAccepts \/ ServerReceives \/ ServerOpens \/ ServerOpenFails
  \/ ServerSends \/ ServerAborts \/ ServerCommits \/ ServerLoses \/ Partial("server")

ClientNext ==
  \/ ClientGreeted \/ ClientRequests \/ ClientSendFails \/ ClientChunk \/ ClientCommit
  \/ ClientLoses \/ ClientCloses \/ Partial("client")

Ended == server.pc = "closed" /\ client.pc = "closed" /\ UNCHANGED vars

Next == ServerNext \/ ClientNext \/ ClientHello \/ Break \/ Ended

\* Both ends run, TCP delivers, and the caller of transfer() closes the
\* connection when it has returned.  Nobody has to connect.
Fairness == WF_vars(ServerNext) /\ WF_vars(ClientNext)

Spec == Init /\ [][Next]_vars /\ Fairness
-----------------------------------------------------------------------------
(* Properties.                                                             *)

FrameType == {"hello", "hello_ack", "transfer_req", "chunk", "chunk_ack", "commit", "commit_ack"}

\* The states of serve_once() and transfer(), and the frames under way.
TypeOK ==
  /\ \A e \in End : \A i \in 1 .. Len(dec[e] \o wire[e]) :
       (dec[e] \o wire[e])[i].type \in FrameType
  /\ reset \in BOOLEAN
  /\ server.pc \in {"accept", "hello", "req", "open", "send", "ack", "commit_ack", "closed"}
  /\ server.next \in 0 .. req.length
  /\ client.pc \in {"idle", "hello_ack", "request", "recv", "returned", "closed"}
  /\ client.expected \in 0 .. req.length
  /\ Len(dst) = client.expected

\* feed() hands out one frame for each recv(), so an end that waits in recv()
\* with a whole frame in its decoder would wait for bytes that need not come.
\* The strict alternation of the protocol never lets this happen.
NoStrandedFrame == \A e \in End : Waiting(e) => Len(dec[e]) < Parts

\* Whichever end reports success, the client's file holds exactly the chunks of
\* the requested range, each written once and in order; losing the connection
\* before commit_ack cannot turn a partial copy into a success.
Copied == dst = [i \in 1 .. req.length |-> req.offset + i - 1]

SuccessMeansCopied ==
  /\ client.pc \in {"returned", "closed"} /\ client.result = "ok" => Copied
  /\ server.pc = "closed" /\ server.result = "ok" => Copied

\* A client that reports success is never contradicted by its server (the
\* converse cannot be had: the commit frame may be lost).
ServerAgrees ==
  client.pc \in {"returned", "closed"} /\ client.result = "ok" => server.result = "ok"

\* Once connected, transfer() returns and so does serve_once(), whatever breaks,
\* provided the connection is closed after transfer() returned.
BothReturn ==
  /\ client.pc = "hello_ack" ~> client.pc = "closed"
  /\ server.pc = "hello" ~> server.pc = "closed"
=============================================================================
