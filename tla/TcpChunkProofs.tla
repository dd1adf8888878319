--------------------------- MODULE TcpChunkProofs ---------------------------
(***************************************************************************)
(* Proofs about module TcpChunk for any number of chunks, any offset and   *)
(* any way of cutting frames into pieces.  The argument is the alternation *)
(* of the protocol: at any time one frame at most is on its way, and what  *)
(* it is follows from where the two ends are.                              *)
(***************************************************************************)
EXTENDS TcpChunk, TLAPS

\* A decoder's buffer d and what is on the wire w are pieces of one frame f,
\* and the frame is not complete in the buffer.
Pieces(d, w, f) ==
  /\ d \in Seq({f}) /\ w \in Seq({f})
  /\ Len(d) < Parts
  /\ Len(d) + Len(w) <= Parts

Has(e, f) == Pieces(dec[e], wire[e], f)
None(e) == dec[e] = <<>> /\ wire[e] = <<>>

Shape ==
  /\ DOMAIN wire = End /\ DOMAIN dec = End
  /\ DOMAIN server = {"pc", "next", "result"}
  /\ DOMAIN client = {"pc", "expected", "result"}
  /\ server.pc \in {"accept", "hello", "req", "open", "send", "ack", "commit_ack", "closed"}
  /\ client.pc \in {"idle", "hello_ack", "request", "recv", "returned", "closed"}
  /\ server.next \in Nat /\ client.expected \in Nat
  /\ req.offset \in Nat /\ req.length \in Nat
  /\ reset \in BOOLEAN

\* What the server may find, at each place of serve_once().
ServerFits ==
  /\ server.pc \in {"accept", "hello"} =>
       Has("server", Frame("hello", 0)) /\ client.pc \in {"idle", "hello_ack", "returned", "closed"}
  /\ server.pc \in {"accept", "hello", "req", "open"} =>
       server.next = 0 /\ client.expected = 0
  /\ server.pc = "req" =>
       /\ Has("server", Frame("transfer_req", 0))
       /\ client.pc # "idle"
       /\ client.pc \in {"hello_ack", "request"} => None("server")
  /\ server.pc \in {"open", "send"} => None("server")
  /\ server.pc \in {"open", "send", "ack", "commit_ack"} =>
       client.pc \in {"recv", "returned", "closed"}
  /\ server.pc = "send" => server.next = client.expected
  /\ server.pc = "ack" =>
       \/ None("server") /\ server.next = client.expected
       \/ Has("server", Frame("chunk_ack", server.next)) /\ client.expected = server.next + 1
  /\ server.pc = "commit_ack" =>
       /\ Has("server", Frame("commit_ack", 0))
       /\ server.next = client.expected /\ client.expected = req.length
       /\ client.pc = "recv" => None("server")
  /\ server.pc = "closed" /\ server.result = "ok" => client.expected = req.length
  /\ server.pc # "closed" => server.result = "ok"

\* What the client may find, at each place of transfer().
ClientFits ==
  /\ client.pc = "idle" => server.pc = "accept" /\ None("server") /\ None("client")
  /\ client.pc = "hello_ack" =>
       /\ server.pc \in {"accept", "hello", "req", "closed"}
       /\ Has("client", Frame("hello_ack", 0))
       /\ server.pc \in {"accept", "hello"} => None("client")
  /\ client.pc = "request" => server.pc \in {"req", "closed"} /\ None("client")
  /\ client.pc \in {"hello_ack", "request"} /\ server.pc = "closed" => server.result # "ok"
  /\ client.pc = "recv" =>
       /\ server.pc \in {"req", "open", "send", "ack", "commit_ack", "closed"}
       /\ server.pc \in {"req", "open", "send"} => None("client")
       /\ server.pc = "ack" =>
            \/ /\ None("server") /\ server.next = client.expected
               /\ Has("client", Frame("chunk", client.expected))
            \/ None("client") /\ client.expected = server.next + 1
       /\ server.pc = "commit_ack" => Has("client", Frame("commit", 0))
       /\ server.pc = "closed" =>
            \/ server.result # "ok" /\ Has("client", Frame("chunk", client.expected))
            \/ server.result = "ok" /\ Has("client", Frame("commit", 0))
  /\ client.pc \in {"returned", "closed"} /\ client.result = "ok" =>
       /\ client.expected = req.length
       /\ server.pc \in {"commit_ack", "closed"} /\ server.result = "ok"

\* What has been written is the beginning of the range.
FileFits ==
  /\ dst \in Seq(Nat) /\ Len(dst) = client.expected
  /\ client.expected <= req.length
  /\ client.expected > 0 => req.offset = 0
  /\ \A i \in 1 .. client.expected : dst[i] = req.offset + i - 1

\* The inductive invariant.
IInv == Shape /\ ServerFits /\ ClientFits /\ FileFits
-----------------------------------------------------------------------------
(* Pieces of one frame.                                                    *)

LEMMA NoPieces == ASSUME NEW f PROVE Pieces(<<>>, <<>>, f)
BY TcpConstants DEF Pieces

\* A frame is sent to an end that has nothing to read.
LEMMA SentPieces == ASSUME NEW f PROVE Pieces(<<>>, <<>> \o [i \in 1 .. Parts |-> f], f)
<1>. DEFINE w == [i \in 1 .. Parts |-> f]
<1>1. w \in Seq({f}) /\ Len(w) = Parts
  BY TcpConstants
<1>2. <<>> \o w = w
  BY <1>1
<1>. QED
  BY <1>1, <1>2, TcpConstants DEF Pieces

\* The connection breaks: what is in the buffer stays.
LEMMA LostPieces == ASSUME NEW f, NEW d, NEW w, Pieces(d, w, f) PROVE Pieces(d, <<>>, f)
BY TcpConstants DEF Pieces

\* recv() returns pieces that do not complete the frame.
LEMMA PartialPieces ==
  ASSUME NEW f, NEW d, NEW w, Pieces(d, w, f), NEW k \in 1 .. Len(w), Len(d) + k < Parts
  PROVE  Pieces(d \o SubSeq(w, 1, k), SubSeq(w, k + 1, Len(w)), f)
<1>1. d \in Seq({f}) /\ w \in Seq({f}) /\ Len(d) \in Nat /\ Len(w) \in Nat
  BY DEF Pieces
<1>2. SubSeq(w, 1, k) \in Seq({f}) /\ Len(SubSeq(w, 1, k)) = k
  BY <1>1
<1>3. SubSeq(w, k + 1, Len(w)) \in Seq({f}) /\ Len(SubSeq(w, k + 1, Len(w))) = Len(w) - k
  BY <1>1
<1>4. /\ d \o SubSeq(w, 1, k) \in Seq({f})
      /\ Len(d \o SubSeq(w, 1, k)) = Len(d) + k
  BY <1>1, <1>2
<1>5. Len(d) + k < Parts /\ (Len(d) + k) + (Len(w) - k) <= Parts
  BY <1>1, TcpConstants DEF Pieces
<1>. QED
  BY <1>3, <1>4, <1>5, Zenon DEF Pieces

\* recv() returns pieces that do: the frame is taken off and nothing is left.
LEMMA TakenPieces ==
  ASSUME NEW f, NEW d, NEW w, Pieces(d, w, f), NEW k \in 1 .. Len(w), Len(d) + k >= Parts
  PROVE  /\ (d \o w)[1] = f
         /\ SubSeq(d \o SubSeq(w, 1, k), Parts + 1, Len(d) + k) = <<>>
         /\ SubSeq(w, k + 1, Len(w)) = <<>>
<1>1. d \in Seq({f}) /\ w \in Seq({f}) /\ Len(d) \in Nat /\ Len(w) \in Nat
  BY DEF Pieces
<1>2. Parts \in Nat /\ Len(d) + k = Parts /\ k = Len(w)
  BY <1>1, TcpConstants DEF Pieces
<1>3. (d \o w)[1] = f
  <2>1. d \o w \in Seq({f}) /\ Len(d \o w) = Len(d) + Len(w)
    BY <1>1
  <2>2. 1 \in 1 .. Len(d \o w)
    BY <1>1, <1>2, <2>1
  <2>3. (d \o w)[1] \in {f}
    BY <2>1, <2>2
  <2>. QED
    BY <2>3
<1>4. SubSeq(w, k + 1, Len(w)) = <<>>
  BY <1>1, <1>2
<1>5. SubSeq(d \o SubSeq(w, 1, k), Parts + 1, Len(d) + k) = <<>>
  <2>1. d \o SubSeq(w, 1, k) \in Seq({f})
    BY <1>1
  <2>. DEFINE s == d \o SubSeq(w, 1, k)
  <2>. HIDE DEF s
  <2>2. SubSeq(s, Parts + 1, Parts) = <<>>
    BY <2>1, <1>2 DEF s
  <2>. QED
    BY <2>2, <1>2 DEF s
<1>. QED
  BY <1>3, <1>4, <1>5
-----------------------------------------------------------------------------
(* What recv() and send_all() do to the two directions.                    *)

Kept(e) == dec'[e] = dec[e] /\ wire'[e] = wire[e]

LEMMA PartialKeeps ==
  ASSUME Shape, NEW e \in End, NEW f, Pieces(dec[e], wire[e], f), Partial(e)
  PROVE  Pieces(dec'[e], wire'[e], f) /\ Kept(Peer(e)) /\ DOMAIN dec' = End /\ DOMAIN wire' = End
<1>1. PICK k \in 1 .. Len(wire[e]) :
        /\ Len(dec[e]) + k < Parts
        /\ dec' = [dec EXCEPT ![e] = dec[e] \o SubSeq(wire[e], 1, k)]
        /\ wire' = [wire EXCEPT ![e] = SubSeq(wire[e], k + 1, Len(wire[e]))]
  BY Zenon DEF Partial
<1>2. /\ dec'[e] = dec[e] \o SubSeq(wire[e], 1, k)
      /\ wire'[e] = SubSeq(wire[e], k + 1, Len(wire[e]))
      /\ DOMAIN dec' = End /\ DOMAIN wire' = End
  BY <1>1, SMTT(30) DEF Shape
<1>3. Pieces(dec[e] \o SubSeq(wire[e], 1, k), SubSeq(wire[e], k + 1, Len(wire[e])), f)
  BY <1>1, PartialPieces, Zenon
<1>4. Kept(Peer(e))
  BY <1>1 DEF Shape, Kept, Peer, End
<1>. QED
  BY <1>2, <1>3, <1>4, Zenon

LEMMA Taken ==
  ASSUME Shape, NEW e \in End, NEW f, Pieces(dec[e], wire[e], f), NEW a, Receive(e, a)
  PROVE  /\ Incoming(e) = f /\ dec'[e] = <<>> /\ wire'[e] = <<>>
         /\ dec'[Peer(e)] = dec[Peer(e)]
         /\ wire'[Peer(e)] = wire[Peer(e)] \o Send(e, a)
         /\ DOMAIN dec' = End /\ DOMAIN wire' = End
<1>1. PICK k \in 1 .. Len(wire[e]) :
        /\ Len(dec[e]) + k >= Parts
        /\ dec' = [dec EXCEPT ![e] = SubSeq(dec[e] \o SubSeq(wire[e], 1, k), Parts + 1,
                                            Len(dec[e]) + k)]
        /\ wire' = [wire EXCEPT ![e] = SubSeq(wire[e], k + 1, Len(wire[e])),
                                ![Peer(e)] = @ \o Send(e, a)]
  BY Zenon DEF Receive
<1>2. Peer(e) \in End /\ Peer(e) # e
  BY DEF Peer, End
<1>3. /\ (dec[e] \o wire[e])[1] = f
      /\ SubSeq(dec[e] \o SubSeq(wire[e], 1, k), Parts + 1, Len(dec[e]) + k) = <<>>
      /\ SubSeq(wire[e], k + 1, Len(wire[e])) = <<>>
  BY <1>1, TakenPieces, ZenonT(40)
<1>. DEFINE d == SubSeq(dec[e] \o SubSeq(wire[e], 1, k), Parts + 1, Len(dec[e]) + k)
            w == SubSeq(wire[e], k + 1, Len(wire[e]))
            s == Send(e, a)
            p == Peer(e)
<1>4. dec' = [dec EXCEPT ![e] = d] /\ wire' = [wire EXCEPT ![e] = w, ![p] = @ \o s]
  BY <1>1, Zenon
<1>5. d = <<>> /\ w = <<>> /\ p \in End /\ p # e
  BY <1>2, <1>3, Zenon
<1>. HIDE DEF d, w, s, p
<1>6. /\ dec'[e] = <<>> /\ wire'[e] = <<>> /\ dec'[p] = dec[p]
      /\ wire'[p] = wire[p] \o s /\ DOMAIN dec' = End /\ DOMAIN wire' = End
  BY <1>4, <1>5 DEF Shape
<1>. QED
  BY <1>3, <1>6, Zenon DEF Incoming, s, p

\* A frame is added to a direction that is empty.
LEMMA Sent ==
  ASSUME NEW e, NEW p, NEW f, dec'[p] = <<>>, wire[p] = <<>>,
         wire'[p] = wire[p] \o Send(e, <<f>>)
  PROVE  Pieces(dec'[p], wire'[p], f)
<1>1. CASE reset
  <2>1. Send(e, <<f>>) = <<>>
    BY <1>1 DEF Send
  <2>2. wire'[p] = <<>>
    BY <2>1
  <2>. QED
    BY <2>2, NoPieces
<1>2. CASE ~reset
  <2>1. Send(e, <<f>>) = [i \in 1 .. Parts |-> f]
    BY <1>2 DEF Send
  <2>. QED
    BY <2>1, SentPieces, Zenon
<1>. QED
  BY <1>1, <1>2

LEMMA SentNothing ==
  ASSUME NEW e, NEW p, wire[p] = <<>>, wire'[p] = wire[p] \o Send(e, <<>>)
  PROVE  wire'[p] = <<>>
<1>1. Send(e, <<>>) = <<>>
  BY DEF Send
<1>. QED
  BY <1>1
-----------------------------------------------------------------------------
(* Every step keeps the invariant: the steps that send and receive nothing. *)

LEMMA ServerAcceptsInv == ASSUME IInv, ServerAccepts PROVE IInv'
<1>. USE DEF IInv
<1>1. /\ UNCHANGED <<wire, dec, reset, client, req, dst>>
      /\ server'.pc = "hello" /\ server'.next = server.next /\ server'.result = server.result
  BY DEF ServerAccepts, Shape
<1>2. Shape'
  BY <1>1 DEF ServerAccepts, Shape
<1>3. ServerFits'
  BY <1>1, NoPieces DEF ServerAccepts, Shape, ServerFits, ClientFits, Has, None
<1>4. ClientFits'
  BY <1>1, NoPieces DEF ServerAccepts, Shape, ServerFits, ClientFits, Has, None
<1>5. FileFits'
  BY <1>1 DEF FileFits
<1>. QED
  BY <1>2, <1>3, <1>4, <1>5

LEMMA ServerOpensInv == ASSUME IInv, ServerOpens PROVE IInv'
<1>. USE DEF IInv
<1>1. /\ UNCHANGED <<wire, dec, reset, client, req, dst>>
      /\ server'.pc = "send" /\ server'.next = server.next /\ server'.result = server.result
  BY DEF ServerOpens, Shape
<1>2. Shape'
  BY <1>1 DEF ServerOpens, Shape
<1>3. ServerFits'
  BY <1>1, NoPieces DEF ServerOpens, Shape, ServerFits, ClientFits, Has, None
<1>4. ClientFits'
  BY <1>1, NoPieces DEF ServerOpens, Shape, ServerFits, ClientFits, Has, None
<1>5. FileFits'
  BY <1>1 DEF FileFits
<1>. QED
  BY <1>2, <1>3, <1>4, <1>5

LEMMA ServerOpenFailsInv == ASSUME IInv, ServerOpenFails PROVE IInv'
<1>. USE DEF IInv
<1>1. /\ UNCHANGED <<wire, dec, reset, client, req, dst>>
      /\ server'.pc = "closed" /\ server'.next = server.next /\ server'.result = "backend_failure"
  BY DEF ServerOpenFails, ServerReturns, Shape
<1>2. Shape'
  BY <1>1 DEF ServerOpenFails, ServerReturns, Shape
<1>3. ServerFits'
  BY <1>1, NoPieces DEF ServerOpenFails, ServerReturns, Shape, ServerFits, ClientFits, Has, None
<1>4. ClientFits'
  BY <1>1, NoPieces DEF ServerOpenFails, ServerReturns, Shape, ServerFits, ClientFits, Has, None
<1>5. FileFits'
  BY <1>1 DEF FileFits
<1>. QED
  BY <1>2, <1>3, <1>4, <1>5

LEMMA ServerAbortsInv == ASSUME IInv, ServerAborts PROVE IInv'
<1>. USE DEF IInv
<1>1. /\ UNCHANGED <<wire, dec, reset, client, req, dst>>
      /\ server'.pc = "closed" /\ server'.next = server.next /\ server'.result = "backend_failure"
  BY DEF ServerAborts, ServerReturns, Shape
<1>2. Shape'
  BY <1>1 DEF ServerAborts, ServerReturns, Shape
<1>3. ServerFits'
  BY <1>1, NoPieces DEF ServerAborts, ServerReturns, Shape, ServerFits, ClientFits, Has, None
<1>4. ClientFits'
  BY <1>1, NoPieces DEF ServerAborts, ServerReturns, Shape, ServerFits, ClientFits, Has, None
<1>5. FileFits'
  BY <1>1 DEF FileFits
<1>. QED
  BY <1>2, <1>3, <1>4, <1>5

LEMMA ClientSendFailsInv == ASSUME IInv, ClientSendFails PROVE IInv'
<1>. USE DEF IInv
<1>1. /\ UNCHANGED <<wire, dec, reset, server, req, dst>>
      /\ client'.pc = "returned" /\ client'.expected = client.expected /\ client'.result = "transient_transport"
  BY DEF ClientSendFails, ClientReturns, Shape
<1>2. Shape'
  BY <1>1 DEF ClientSendFails, ClientReturns, Shape
<1>3. ServerFits'
  BY <1>1, NoPieces DEF ClientSendFails, ClientReturns, Shape, ServerFits, ClientFits, Has, None
<1>4. ClientFits'
  BY <1>1, NoPieces DEF ClientSendFails, ClientReturns, Shape, ServerFits, ClientFits, Has, None
<1>5. FileFits'
  BY <1>1 DEF FileFits
<1>. QED
  BY <1>2, <1>3, <1>4, <1>5

LEMMA ClientLosesInv == ASSUME IInv, ClientLoses PROVE IInv'
<1>. USE DEF IInv
<1>1. /\ UNCHANGED <<wire, dec, reset, server, req, dst>>
      /\ client'.pc = "returned" /\ client'.expected = client.expected /\ client'.result = "transient_transport"
  BY DEF ClientLoses, ClientReturns, Shape
<1>2. Shape'
  BY <1>1 DEF ClientLoses, ClientReturns, Shape
<1>3. ServerFits'
  BY <1>1, NoPieces DEF ClientLoses, ClientReturns, Shape, ServerFits, ClientFits, Has, None
<1>4. ClientFits'
  BY <1>1, NoPieces DEF ClientLoses, ClientReturns, Shape, ServerFits, ClientFits, Has, None
<1>5. FileFits'
  BY <1>1 DEF FileFits
<1>. QED
  BY <1>2, <1>3, <1>4, <1>5

LEMMA ClientClosesInv == ASSUME IInv, ClientCloses PROVE IInv'
<1>. USE DEF IInv
<1>1. /\ UNCHANGED <<wire, dec, reset, server, req, dst>>
      /\ client'.pc = "closed" /\ client'.expected = client.expected /\ client'.result = client.result
  BY DEF ClientCloses, Shape
<1>2. Shape'
  BY <1>1 DEF ClientCloses, Shape
<1>3. ServerFits'
  BY <1>1, NoPieces DEF ClientCloses, Shape, ServerFits, ClientFits, Has, None
<1>4. ClientFits'
  BY <1>1, NoPieces DEF ClientCloses, Shape, ServerFits, ClientFits, Has, None
<1>5. FileFits'
  BY <1>1 DEF FileFits
<1>. QED
  BY <1>2, <1>3, <1>4, <1>5

LEMMA ServerLosesInv == ASSUME IInv, ServerLoses PROVE IInv'
<1>. USE DEF IInv
<1>1. /\ UNCHANGED <<wire, dec, reset, client, req, dst>>
      /\ server'.pc = "closed" /\ server'.next = server.next
      /\ DOMAIN server' = DOMAIN server
      /\ server.pc = "commit_ack" => server'.result = "ok"
      /\ server.pc # "commit_ack" => server'.result # "ok"
      /\ server.pc \in {"hello", "req", "ack", "commit_ack"}
  BY DEF ServerLoses, ServerReturns, Shape, Lost, Waiting, Pc, Awaited
<1>2. Shape'
  BY <1>1 DEF Shape
<1>3. ServerFits'
  BY <1>1 DEF Shape, ServerFits, ClientFits, Has, None
<1>4. wire["server"] = <<>> /\ (reset \/ client.pc = "closed")
  BY DEF ServerLoses, Lost, Pc, Peer
<1>5. ClientFits'
  BY <1>1, <1>4, NoPieces DEF Shape, ServerFits, ClientFits, Has, None
<1>6. FileFits'
  BY <1>1 DEF FileFits
<1>. QED
  BY <1>2, <1>3, <1>5, <1>6

LEMMA BreakInv == ASSUME IInv, Break PROVE IInv'
<1>. USE DEF IInv
<1>1. /\ UNCHANGED <<dec, server, client, req, dst>>
      /\ wire'["server"] = <<>> /\ wire'["client"] = <<>> /\ DOMAIN wire' = End
      /\ reset' = TRUE
  BY DEF Break, End
<1>2. Shape'
  BY <1>1 DEF Shape
<1>3. ServerFits'
  BY <1>1, LostPieces DEF Shape, ServerFits, Has, None
<1>4. ClientFits'
  BY <1>1, LostPieces DEF Shape, ClientFits, Has, None
<1>5. FileFits'
  BY <1>1 DEF FileFits
<1>. QED
  BY <1>2, <1>3, <1>4, <1>5
-----------------------------------------------------------------------------
(* The steps that send.                                                    *)

LEMMA ServerSendsInv == ASSUME IInv, ServerSends PROVE IInv'
<1>. USE DEF IInv
<1>1. /\ UNCHANGED <<dec, reset, client, req, dst>>
      /\ server'.pc = "ack" /\ server'.next = server.next /\ server'.result = server.result
      /\ DOMAIN server' = DOMAIN server
  BY DEF ServerSends, Shape
<1>2. /\ DOMAIN wire' = End /\ wire'["server"] = wire["server"]
      /\ wire'["client"] = wire["client"] \o Send("server", <<Frame("chunk", server.next)>>)
  BY DEF ServerSends, Shape, End
<1>3. server.pc = "send" /\ None("server") /\ server.next = client.expected
      /\ client.pc \in {"recv", "returned", "closed"}
      /\ (client.pc = "recv" => None("client"))
  BY DEF ServerSends, ServerFits, ClientFits
<1>4. client.pc = "recv" => Pieces(dec'["client"], wire'["client"], Frame("chunk", server.next))
  BY <1>1, <1>2, <1>3, Sent, Zenon DEF None
<1>5. Shape'
  BY <1>1, <1>2 DEF Shape
<1>6. ServerFits'
  BY <1>1, <1>2, <1>3 DEF ServerFits, None
<1>7. ClientFits'
  BY <1>1, <1>2, <1>3, <1>4 DEF ClientFits, None, Has
<1>8. FileFits'
  BY <1>1 DEF FileFits
<1>. QED
  BY <1>5, <1>6, <1>7, <1>8

LEMMA ServerCommitsInv == ASSUME IInv, ServerCommits PROVE IInv'
<1>. USE DEF IInv
<1>1. /\ UNCHANGED <<dec, reset, client, req, dst>>
      /\ server'.pc = "commit_ack" /\ server'.next = server.next /\ server'.result = server.result
      /\ DOMAIN server' = DOMAIN server
  BY DEF ServerCommits, Shape
<1>2. /\ DOMAIN wire' = End /\ wire'["server"] = wire["server"]
      /\ wire'["client"] = wire["client"] \o Send("server", <<Frame("commit", 0)>>)
  BY DEF ServerCommits, Shape, End
<1>3. server.pc = "send" /\ None("server") /\ server.next = client.expected
      /\ client.pc \in {"recv", "returned", "closed"}
      /\ (client.pc = "recv" => None("client")) /\ server.next = req.length
  BY DEF ServerCommits, ServerFits, ClientFits
<1>4. client.pc = "recv" => Pieces(dec'["client"], wire'["client"], Frame("commit", 0))
  BY <1>1, <1>2, <1>3, Sent, Zenon DEF None
<1>5. Shape'
  BY <1>1, <1>2 DEF Shape
<1>6. ServerFits'
  BY <1>1, <1>2, <1>3, NoPieces DEF ServerFits, None, Has
<1>7. ClientFits'
  BY <1>1, <1>2, <1>3, <1>4 DEF ClientFits, ServerFits, None, Has
<1>8. FileFits'
  BY <1>1 DEF FileFits
<1>. QED
  BY <1>5, <1>6, <1>7, <1>8

LEMMA ClientHelloInv == ASSUME IInv, ClientHello PROVE IInv'
<1>. USE DEF IInv
<1>1. /\ UNCHANGED <<dec, reset, server, req, dst>>
      /\ client'.pc = "hello_ack" /\ client'.expected = client.expected
      /\ DOMAIN client' = DOMAIN client
  BY DEF ClientHello, Shape
<1>2. /\ DOMAIN wire' = End /\ wire'["client"] = wire["client"]
      /\ wire'["server"] = wire["server"] \o Send("client", <<Frame("hello", 0)>>)
  BY DEF ClientHello, Shape, End
<1>3. server.pc = "accept" /\ None("server") /\ None("client")
  BY DEF ClientHello, ClientFits
<1>4. Pieces(dec'["server"], wire'["server"], Frame("hello", 0))
  BY <1>1, <1>2, <1>3, Sent, Zenon DEF None
<1>5. Shape'
  BY <1>1, <1>2 DEF Shape
<1>6. ServerFits'
  BY <1>1, <1>2, <1>3, <1>4 DEF ServerFits, None, Has
<1>7. ClientFits'
  BY <1>1, <1>2, <1>3, NoPieces DEF ClientFits, None, Has
<1>8. FileFits'
  BY <1>1 DEF FileFits
<1>. QED
  BY <1>5, <1>6, <1>7, <1>8

LEMMA ClientRequestsInv == ASSUME IInv, ClientRequests PROVE IInv'
<1>. USE DEF IInv
<1>1. /\ UNCHANGED <<dec, reset, server, req, dst>>
      /\ \/ client'.pc = "recv"
         \/ client'.pc = "returned" /\ client'.result # "ok"
      /\ client'.expected = client.expected /\ DOMAIN client' = DOMAIN client
  BY Zenon DEF ClientRequests, ClientReturns, Shape
<1>2. /\ DOMAIN wire' = End /\ wire'["client"] = wire["client"]
      /\ wire'["server"] = wire["server"] \o Send("client", <<Frame("transfer_req", 0)>>)
  BY DEF ClientRequests, Shape, End
<1>3. /\ client.pc = "request" /\ server.pc \in {"req", "closed"} /\ None("client")
      /\ server.pc = "req" => None("server")
      /\ server.pc = "closed" => server.result # "ok"
  BY DEF ClientRequests, ClientFits, ServerFits
<1>4. server.pc = "req" =>
        Pieces(dec'["server"], wire'["server"], Frame("transfer_req", 0))
  BY <1>1, <1>2, <1>3, Sent, Zenon DEF None
<1>5. Shape'
  BY <1>1, <1>2 DEF Shape
<1>6. ServerFits'
  BY <1>1, <1>2, <1>3, <1>4 DEF ServerFits, None, Has
<1>7. ClientFits'
  BY <1>1, <1>2, <1>3, NoPieces DEF ClientFits, None, Has
<1>8. FileFits'
  BY <1>1 DEF FileFits
<1>. QED
  BY <1>5, <1>6, <1>7, <1>8
-----------------------------------------------------------------------------
(* The steps of the server that receive.                                   *)

LEMMA ServerTakes ==
  ASSUME IInv, ServerReceives, NEW f, Has("server", f), f.type \in Awaited[server.pc]
  PROVE  /\ dec'["server"] = <<>> /\ wire'["server"] = <<>> /\ dec'["client"] = dec["client"]
         /\ wire'["client"] = wire["client"] \o
              Send("server", IF server.pc = "hello" THEN <<Frame("hello_ack", 0)>> ELSE <<>>)
         /\ DOMAIN dec' = End /\ DOMAIN wire' = End
         /\ server' = [server EXCEPT !.pc = ServerStep[server.pc],
                                     !.next = IF server.pc = "ack" THEN server.next + 1
                                              ELSE server.next]
<1>. USE DEF IInv
<1>1. PICK a :
        /\ Receive("server", a)
        /\ a = IF Incoming("server").type \in Awaited[server.pc] /\ server.pc = "hello"
               THEN <<Frame("hello_ack", 0)>> ELSE <<>>
  BY Zenon DEF ServerReceives
<1>2. "server" \in End /\ Peer("server") = "client"
  BY DEF End, Peer
<1>3. /\ Incoming("server") = f /\ dec'["server"] = <<>> /\ wire'["server"] = <<>>
      /\ dec'["client"] = dec["client"]
      /\ wire'["client"] = wire["client"] \o Send("server", a)
      /\ DOMAIN dec' = End /\ DOMAIN wire' = End
  BY <1>1, <1>2, Taken, Zenon DEF Has
<1>4. a = IF server.pc = "hello" THEN <<Frame("hello_ack", 0)>> ELSE <<>>
  BY <1>1, <1>3, Zenon
<1>5. server' = [server EXCEPT !.pc = ServerStep[server.pc],
                               !.next = IF server.pc = "ack" THEN server.next + 1
                                        ELSE server.next]
  BY <1>3, Zenon DEF ServerReceives
<1>. QED
  BY <1>3, <1>4, <1>5, Zenon

LEMMA ServerReceivesInv == ASSUME IInv, ServerReceives PROVE IInv'
<1>. USE DEF IInv
<1>0. /\ UNCHANGED <<reset, client, req, dst>> /\ wire["server"] # <<>>
      /\ server.pc \in {"hello", "req", "ack", "commit_ack"}
  BY DEF ServerReceives, ServerStep
<1>1. FileFits'
  BY <1>0 DEF FileFits
<1>2. CASE server.pc = "hello"
  <2>1. Has("server", Frame("hello", 0)) /\ Frame("hello", 0).type \in Awaited[server.pc]
    BY <1>2 DEF ServerFits, Frame, Awaited
  <2>2. /\ dec'["server"] = <<>> /\ wire'["server"] = <<>> /\ dec'["client"] = dec["client"]
        /\ wire'["client"] = wire["client"] \o Send("server", <<Frame("hello_ack", 0)>>)
        /\ DOMAIN dec' = End /\ DOMAIN wire' = End
        /\ server' = [server EXCEPT !.pc = ServerStep[server.pc], !.next = server.next]
    BY <2>1, <1>2, ServerTakes, SMTT(30)
  <2>3. /\ server'.pc = "req" /\ server'.next = server.next /\ server'.result = server.result
        /\ DOMAIN server' = DOMAIN server
    BY <2>2, <1>2 DEF ServerStep, Shape
  <2>4. client.pc \in {"hello_ack", "returned", "closed"}
        /\ (client.pc = "hello_ack" => None("client"))
    BY <1>0, <1>2 DEF ServerFits, ClientFits, None
  <2>5. client.pc = "hello_ack" =>
          Pieces(dec'["client"], wire'["client"], Frame("hello_ack", 0))
    BY <2>2, <2>4, Sent, Zenon DEF None
  <2>6. Shape'
    BY <1>0, <2>2, <2>3 DEF Shape
  <2>7. ServerFits'
    BY <1>0, <1>2, <2>2, <2>3, <2>4, NoPieces DEF ServerFits, Has, None
  <2>8. ClientFits'
    BY <1>0, <1>2, <2>2, <2>3, <2>4, <2>5 DEF ServerFits, ClientFits, Has, None
  <2>. QED
    BY <1>1, <2>6, <2>7, <2>8
<1>3. CASE server.pc = "req"
  <2>1. Has("server", Frame("transfer_req", 0))
        /\ Frame("transfer_req", 0).type \in Awaited[server.pc]
    BY <1>3 DEF ServerFits, Frame, Awaited
  <2>2. /\ dec'["server"] = <<>> /\ wire'["server"] = <<>> /\ dec'["client"] = dec["client"]
        /\ wire'["client"] = wire["client"] \o Send("server", <<>>)
        /\ DOMAIN dec' = End /\ DOMAIN wire' = End
        /\ server' = [server EXCEPT !.pc = ServerStep[server.pc], !.next = server.next]
    BY <2>1, <1>3, ServerTakes
  <2>3. /\ server'.pc = "open" /\ server'.next = server.next /\ server'.result = server.result
        /\ DOMAIN server' = DOMAIN server
    BY <2>2, <1>3 DEF ServerStep, Shape
  <2>4. client.pc \in {"recv", "returned", "closed"} /\ (client.pc = "recv" => None("client"))
    BY <1>0, <1>3 DEF ServerFits, ClientFits, None, Shape
  <2>5. client.pc = "recv" => dec'["client"] = <<>> /\ wire'["client"] = <<>>
    BY <2>2, <2>4, SentNothing, Zenon DEF None
  <2>6. Shape'
    BY <1>0, <2>2, <2>3 DEF Shape
  <2>7. ServerFits'
    BY <1>0, <1>3, <2>2, <2>3, <2>4 DEF ServerFits, None
  <2>8. ClientFits'
    BY <1>0, <1>3, <2>2, <2>3, <2>4, <2>5, SMTT(30) DEF ServerFits, ClientFits, None
  <2>. QED
    BY <1>1, <2>6, <2>7, <2>8
<1>4. CASE server.pc = "ack"
  <2>1. /\ Has("server", Frame("chunk_ack", server.next)) /\ client.expected = server.next + 1
        /\ Frame("chunk_ack", server.next).type \in Awaited[server.pc]
    BY <1>0, <1>4 DEF ServerFits, None, Frame, Awaited
  <2>2. /\ dec'["server"] = <<>> /\ wire'["server"] = <<>> /\ dec'["client"] = dec["client"]
        /\ wire'["client"] = wire["client"] \o Send("server", <<>>)
        /\ DOMAIN dec' = End /\ DOMAIN wire' = End
        /\ server' = [server EXCEPT !.pc = ServerStep[server.pc], !.next = server.next + 1]
    BY <2>1, <1>4, ServerTakes
  <2>3. /\ server'.pc = "send" /\ server'.next = server.next + 1
        /\ server'.result = server.result /\ DOMAIN server' = DOMAIN server
    BY <2>2, <1>4 DEF ServerStep, Shape
  <2>4. client.pc \in {"recv", "returned", "closed"} /\ (client.pc = "recv" => None("client"))
    BY <1>0, <1>4 DEF ServerFits, ClientFits, None, Shape
  <2>5. client.pc = "recv" => dec'["client"] = <<>> /\ wire'["client"] = <<>>
    BY <2>2, <2>4, SentNothing, Zenon DEF None
  <2>6. Shape'
    BY <1>0, <2>2, <2>3 DEF Shape
  <2>7. ServerFits'
    BY <1>0, <1>4, <2>1, <2>2, <2>3, <2>4 DEF ServerFits, None
  <2>8. ClientFits'
    BY <1>0, <1>4, <2>2, <2>3, <2>4, <2>5, SMTT(30) DEF ServerFits, ClientFits, None
  <2>. QED
    BY <1>1, <2>6, <2>7, <2>8
<1>5. CASE server.pc = "commit_ack"
  <2>1. Has("server", Frame("commit_ack", 0))
        /\ Frame("commit_ack", 0).type \in Awaited[server.pc]
    BY <1>5 DEF ServerFits, Frame, Awaited
  <2>2. /\ dec'["server"] = <<>> /\ wire'["server"] = <<>> /\ dec'["client"] = dec["client"]
        /\ DOMAIN dec' = End /\ DOMAIN wire' = End
        /\ server' = [server EXCEPT !.pc = ServerStep[server.pc], !.next = server.next]
    BY <2>1, <1>5, ServerTakes
  <2>3. /\ server'.pc = "closed" /\ server'.next = server.next
        /\ server'.result = server.result /\ DOMAIN server' = DOMAIN server
    BY <2>2, <1>5 DEF ServerStep, Shape
  <2>4. client.pc \in {"returned", "closed"} /\ client.expected = req.length
    BY <1>0, <1>5 DEF ServerFits, None, Shape
  <2>5. Shape'
    BY <1>0, <2>2, <2>3 DEF Shape
  <2>6. ServerFits'
    BY <1>0, <1>5, <2>3, <2>4 DEF ServerFits
  <2>7. ClientFits'
    BY <1>0, <1>5, <2>3, <2>4 DEF ServerFits, ClientFits
  <2>. QED
    BY <1>1, <2>5, <2>6, <2>7
<1>. QED
  BY <1>0, <1>2, <1>3, <1>4, <1>5
-----------------------------------------------------------------------------
(* The steps of the client that receive.                                   *)

LEMMA ClientTakes ==
  ASSUME IInv, NEW a, Receive("client", a), NEW f, Has("client", f)
  PROVE  /\ Incoming("client") = f
         /\ dec'["client"] = <<>> /\ wire'["client"] = <<>> /\ dec'["server"] = dec["server"]
         /\ wire'["server"] = wire["server"] \o Send("client", a)
         /\ DOMAIN dec' = End /\ DOMAIN wire' = End
<1>1. "client" \in End /\ Peer("client") = "server"
  BY DEF End, Peer
<1>. QED
  BY <1>1, Taken, Zenon DEF IInv, Has

LEMMA ClientGreetedInv == ASSUME IInv, ClientGreeted PROVE IInv'
<1>. USE DEF IInv
<1>1. /\ UNCHANGED <<reset, server, req, dst>> /\ wire["client"] # <<>>
      /\ client.pc = "hello_ack" /\ Receive("client", <<>>)
  BY DEF ClientGreeted
<1>2. /\ Has("client", Frame("hello_ack", 0)) /\ server.pc \in {"req", "closed"}
      /\ server.pc = "req" => None("server")
      /\ server.pc = "closed" => server.result # "ok"
  BY <1>1 DEF ClientFits, ServerFits, None
<1>3. /\ Incoming("client") = Frame("hello_ack", 0)
      /\ dec'["client"] = <<>> /\ wire'["client"] = <<>> /\ dec'["server"] = dec["server"]
      /\ wire'["server"] = wire["server"] \o Send("client", <<>>)
      /\ DOMAIN dec' = End /\ DOMAIN wire' = End
  BY <1>1, <1>2, ClientTakes, Zenon
<1>4. client' = [client EXCEPT !.pc = "request"]
  BY <1>3 DEF ClientGreeted, Frame, Awaited
<1>5. /\ client'.pc = "request" /\ client'.expected = client.expected
      /\ DOMAIN client' = DOMAIN client
  BY <1>4 DEF Shape
<1>6. server.pc = "req" => dec'["server"] = <<>> /\ wire'["server"] = <<>>
  BY <1>2, <1>3, SentNothing, Zenon DEF None
<1>7. Shape'
  BY <1>1, <1>3, <1>5 DEF Shape
<1>8. ServerFits'
  BY <1>1, <1>2, <1>5, <1>6, NoPieces DEF ServerFits, Has, None
<1>9. ClientFits'
  BY <1>1, <1>2, <1>3, <1>5 DEF ClientFits, None
<1>10. FileFits'
  BY <1>1, <1>5 DEF FileFits
<1>. QED
  BY <1>7, <1>8, <1>9, <1>10

\* A chunk on its way to the client is the one it expects, and it is the one
\* the server waits to be acknowledged.
LEMMA ChunkExpected ==
  ASSUME IInv, client.pc = "recv", wire["client"] # <<>>, NEW a, Receive("client", a),
         Incoming("client").type = "chunk"
  PROVE  /\ Has("client", Frame("chunk", client.expected))
         /\ server.pc \in {"ack", "closed"}
         /\ server.pc = "ack" => None("server") /\ server.next = client.expected
         /\ server.pc = "closed" => server.result # "ok"
<1>1. ~Has("client", Frame("commit", 0))
  <2>1. SUFFICES ASSUME Has("client", Frame("commit", 0)) PROVE FALSE
    OBVIOUS
  <2>2. Incoming("client") = Frame("commit", 0)
    BY <2>1, ClientTakes, Zenon
  <2>. QED
    BY <2>2 DEF Frame
<1>. QED
  BY <1>1 DEF IInv, ServerFits, ClientFits, None

LEMMA CommitExpected ==
  ASSUME IInv, client.pc = "recv", wire["client"] # <<>>, NEW a, Receive("client", a),
         Incoming("client").type # "chunk"
  PROVE  /\ Has("client", Frame("commit", 0))
         /\ server.pc \in {"commit_ack", "closed"} /\ server.result = "ok"
         /\ server.pc = "commit_ack" => None("server")
         /\ client.expected = req.length
<1>1. ~Has("client", Frame("chunk", client.expected))
  <2>1. SUFFICES ASSUME Has("client", Frame("chunk", client.expected)) PROVE FALSE
    OBVIOUS
  <2>2. Incoming("client") = Frame("chunk", client.expected)
    BY <2>1, ClientTakes, Zenon
  <2>. QED
    BY <2>2 DEF Frame
<1>. QED
  BY <1>1 DEF IInv, ServerFits, ClientFits, None

\* The chunk is rejected or cannot be written.
LEMMA ChunkRefused ==
  ASSUME IInv, client.pc = "recv", wire["client"] # <<>>, Receive("client", <<>>),
         Incoming("client").type = "chunk", UNCHANGED <<reset, server, req, dst>>,
         NEW r, r # "ok", ClientReturns(r)
  PROVE  IInv'
<1>. USE DEF IInv
<1>1. /\ Has("client", Frame("chunk", client.expected))
      /\ server.pc \in {"ack", "closed"}
      /\ server.pc = "ack" => None("server") /\ server.next = client.expected
      /\ server.pc = "closed" => server.result # "ok"
  BY ChunkExpected, Zenon
<1>2. /\ dec'["client"] = <<>> /\ wire'["client"] = <<>> /\ dec'["server"] = dec["server"]
      /\ wire'["server"] = wire["server"] \o Send("client", <<>>)
      /\ DOMAIN dec' = End /\ DOMAIN wire' = End
  BY <1>1, ClientTakes, Zenon
<1>3. server.pc = "ack" => dec'["server"] = <<>> /\ wire'["server"] = <<>>
  BY <1>1, <1>2, SentNothing, Zenon DEF None
<1>4. /\ client'.pc = "returned" /\ client'.result = r /\ client'.expected = client.expected
      /\ DOMAIN client' = DOMAIN client
  BY DEF ClientReturns, Shape
<1>5. Shape'
  BY <1>2, <1>4 DEF Shape
<1>6. ServerFits'
  BY <1>1, <1>3, <1>4, SMTT(30) DEF ServerFits, None
<1>7. ClientFits'
  BY <1>4 DEF ClientFits
<1>8. FileFits'
  BY <1>4 DEF FileFits
<1>. QED
  BY <1>5, <1>6, <1>7, <1>8

\* The chunk is written and acknowledged.
LEMMA ChunkWritten ==
  ASSUME IInv, client.pc = "recv", wire["client"] # <<>>,
         Incoming("client").type = "chunk", UNCHANGED <<reset, server, req>>,
         ~Rejected(Incoming("client")),
         Receive("client", <<Frame("chunk_ack", Incoming("client").chunk_id)>>),
         dst' = Append(dst, Incoming("client").offset),
         client' = [client EXCEPT !.expected = @ + 1]
  PROVE  IInv'
<1>. USE DEF IInv
<1>1. /\ Has("client", Frame("chunk", client.expected))
      /\ server.pc \in {"ack", "closed"}
      /\ server.pc = "ack" => None("server") /\ server.next = client.expected
      /\ server.pc = "closed" => server.result # "ok"
  BY ChunkExpected, Zenon
<1>2. /\ Incoming("client") = Frame("chunk", client.expected)
      /\ dec'["client"] = <<>> /\ wire'["client"] = <<>> /\ dec'["server"] = dec["server"]
      /\ wire'["server"] = wire["server"] \o
            Send("client", <<Frame("chunk_ack", Incoming("client").chunk_id)>>)
      /\ DOMAIN dec' = End /\ DOMAIN wire' = End
  BY <1>1, ClientTakes, Zenon
<1>3. Incoming("client").chunk_id = client.expected /\ Incoming("client").offset = client.expected
  BY <1>2 DEF Frame
<1>4. server.pc = "ack" =>
        Pieces(dec'["server"], wire'["server"], Frame("chunk_ack", client.expected))
  BY <1>1, <1>2, <1>3, Sent, Zenon DEF None
<1>5. /\ client'.pc = "recv" /\ client'.expected = client.expected + 1
      /\ DOMAIN client' = DOMAIN client
  BY DEF Shape
<1>6. req.offset = 0 /\ client.expected + 1 <= req.length
  BY <1>3, SMTT(30) DEF Rejected, FileFits, Shape
<1>7. Shape'
  BY <1>2, <1>5 DEF Shape
<1>8. ServerFits'
  BY <1>1, <1>4, <1>5, SMTT(30) DEF ServerFits, Has, None
<1>9. ClientFits'
  BY <1>1, <1>2, <1>5, NoPieces DEF ClientFits, Has, None, Shape
<1>10. FileFits'
  <2>1. dst' = Append(dst, client.expected) /\ client.expected \in Nat
    BY <1>3 DEF Shape
  <2>2. dst' \in Seq(Nat) /\ Len(dst') = client.expected + 1
    BY <2>1 DEF FileFits
  <2>3. \A i \in 1 .. client.expected + 1 : dst'[i] = req.offset + i - 1
    BY <2>1, <1>6 DEF FileFits
  <2>. QED
    BY <2>2, <2>3, <1>5, <1>6 DEF FileFits
<1>. QED
  BY <1>7, <1>8, <1>9, <1>10

LEMMA ClientChunkInv == ASSUME IInv, ClientChunk PROVE IInv'
<1>1. /\ UNCHANGED <<reset, server, req>> /\ client.pc = "recv" /\ wire["client"] # <<>>
      /\ Incoming("client").type = "chunk"
  BY Zenon DEF ClientChunk
<1>2. CASE Receive("client", <<>>) /\ ClientReturns("invalid_request") /\ UNCHANGED dst
  BY <1>1, <1>2, ChunkRefused
<1>3. CASE Receive("client", <<>>) /\ ClientReturns("backend_failure") /\ UNCHANGED dst
  BY <1>1, <1>3, ChunkRefused
<1>4. CASE /\ ~Rejected(Incoming("client"))
           /\ Receive("client", <<Frame("chunk_ack", Incoming("client").chunk_id)>>)
           /\ dst' = Append(dst, Incoming("client").offset)
           /\ client' = [client EXCEPT !.expected = @ + 1]
  BY <1>1, <1>4, ChunkWritten, Zenon
<1>. QED
  BY <1>2, <1>3, <1>4, Zenon DEF ClientChunk

LEMMA ClientCommitInv == ASSUME IInv, ClientCommit PROVE IInv'
<1>. USE DEF IInv
<1>1. /\ UNCHANGED <<reset, server, req, dst>> /\ client.pc = "recv" /\ wire["client"] # <<>>
      /\ Incoming("client").type # "chunk"
  BY Zenon DEF ClientCommit
<1>2. PICK a :
        /\ Receive("client", a)
        /\ a = IF Incoming("client").type = "commit" THEN <<Frame("commit_ack", 0)>> ELSE <<>>
  BY Zenon DEF ClientCommit
<1>3. /\ Has("client", Frame("commit", 0))
      /\ server.pc \in {"commit_ack", "closed"} /\ server.result = "ok"
      /\ server.pc = "commit_ack" => None("server")
      /\ client.expected = req.length
  BY <1>1, <1>2, CommitExpected, Zenon
<1>4. /\ Incoming("client") = Frame("commit", 0)
      /\ dec'["client"] = <<>> /\ wire'["client"] = <<>> /\ dec'["server"] = dec["server"]
      /\ wire'["server"] = wire["server"] \o Send("client", a)
      /\ DOMAIN dec' = End /\ DOMAIN wire' = End
  BY <1>2, <1>3, ClientTakes, Zenon
<1>5. Incoming("client").type = "commit"
  BY <1>4 DEF Frame
<1>6. a = <<Frame("commit_ack", 0)>>
  BY <1>2, <1>5, Zenon
<1>7. server.pc = "commit_ack" =>
        Pieces(dec'["server"], wire'["server"], Frame("commit_ack", 0))
  BY <1>3, <1>4, <1>6, Sent, Zenon DEF None
<1>8. /\ client'.pc = "returned" /\ client'.expected = client.expected
      /\ DOMAIN client' = DOMAIN client
  BY <1>5 DEF ClientCommit, Shape
<1>9. Shape'
  BY <1>1, <1>4, <1>8 DEF Shape
<1>10. ServerFits'
  BY <1>1, <1>3, <1>7, <1>8 DEF ServerFits, Has
<1>11. ClientFits'
  BY <1>1, <1>3, <1>8 DEF ClientFits
<1>12. FileFits'
  BY <1>1, <1>8 DEF FileFits
<1>. QED
  BY <1>9, <1>10, <1>11, <1>12

(* A part of a frame arrives.                                              *)

LEMMA PartialInv == ASSUME IInv, NEW e \in End, Partial(e) PROVE IInv'
<1>. USE DEF IInv
<1>1. UNCHANGED <<reset, server, client, req, dst>> /\ wire[e] # <<>>
  BY DEF Partial
<1>2. /\ e = "server" => server.pc \in {"hello", "req", "ack", "commit_ack"}
      /\ e = "client" => client.pc \in {"hello_ack", "recv"}
  BY SMTT(30) DEF Partial, Waiting, Pc, Awaited, Shape
<1>3. \E f : Pieces(dec[e], wire[e], f)
  <2>1. CASE e = "server"
    BY <1>1, <1>2, <2>1, SMTT(30) DEF ServerFits, Has, None
  <2>2. CASE e = "client"
    BY <1>1, <1>2, <2>2 DEF ClientFits, ServerFits, Has, None
  <2>. QED
    BY <2>1, <2>2 DEF End
<1>4. Kept(Peer(e)) /\ DOMAIN dec' = End /\ DOMAIN wire' = End
  BY <1>3, PartialKeeps, Zenon
<1>5. \A f : Pieces(dec[e], wire[e], f) => Pieces(dec'[e], wire'[e], f)
  BY PartialKeeps, Zenon
<1>6. Shape'
  BY <1>1, <1>4 DEF Shape
<1>7. FileFits'
  BY <1>1 DEF FileFits
<1>8. CASE e = "server"
  <2>1. dec'["client"] = dec["client"] /\ wire'["client"] = wire["client"]
    BY <1>4, <1>8, SMTT(30) DEF Kept, Peer
  <2>2. ServerFits'
    BY <1>1, <1>2, <1>5, <1>8, SMTT(30) DEF ServerFits, Has, None
  <2>3. ClientFits'
    BY <1>1, <1>2, <1>8, <2>1, SMTT(30) DEF ClientFits, ServerFits, Has, None
  <2>. QED
    BY <1>6, <1>7, <2>2, <2>3
<1>9. CASE e = "client"
  <2>1. dec'["server"] = dec["server"] /\ wire'["server"] = wire["server"]
    BY <1>4, <1>9 DEF Kept, Peer
  <2>2. ServerFits'
    BY <1>1, <2>1, SMTT(30) DEF ServerFits, Has, None
  <2>3. ClientFits'
    BY <1>1, <1>2, <1>5, <1>9, <2>1 DEF ClientFits, Has, None
  <2>. QED
    BY <1>6, <1>7, <2>2, <2>3
<1>. QED
  BY <1>8, <1>9 DEF End
-----------------------------------------------------------------------------
LEMMA InitInv == Init => IInv
<1>. SUFFICES ASSUME Init PROVE IInv
  OBVIOUS
<1>1. /\ dec["server"] = <<>> /\ wire["server"] = <<>>
      /\ dec["client"] = <<>> /\ wire["client"] = <<>>
      /\ DOMAIN dec = End /\ DOMAIN wire = End
  BY DEF Init, End
<1>2. /\ server.pc = "accept" /\ server.next = 0 /\ server.result = "ok"
      /\ DOMAIN server = {"pc", "next", "result"}
      /\ client.pc = "idle" /\ client.expected = 0
      /\ DOMAIN client = {"pc", "expected", "result"}
  BY DEF Init
<1>3. req.offset \in Nat /\ req.length \in Nat
  BY TcpConstants, Zenon DEF Init
<1>4. Shape
  BY <1>1, <1>2, <1>3, Zenon DEF Shape, Init
<1>5. ServerFits
  BY <1>1, <1>2, NoPieces DEF ServerFits, Has
<1>6. ClientFits
  BY <1>1, <1>2 DEF ClientFits, None
<1>7. FileFits
  BY <1>2, <1>3 DEF FileFits, Init
<1>. QED
  BY <1>4, <1>5, <1>6, <1>7 DEF IInv

LEMMA NextInv == IInv /\ [Next]_vars => IInv'
<1>. SUFFICES ASSUME IInv, [Next]_vars PROVE IInv'
  OBVIOUS
<1>1. CASE ServerNext
  <2>1. CASE Partial("server")
    BY <2>1, PartialInv DEF End
  <2>. QED
    BY <1>1, <2>1, ServerAcceptsInv, ServerReceivesInv, ServerOpensInv, ServerOpenFailsInv,
       ServerSendsInv, ServerAbortsInv, ServerCommitsInv, ServerLosesInv, Zenon DEF ServerNext
<1>2. CASE ClientNext
  <2>1. CASE Partial("client")
    BY <2>1, PartialInv, SMTT(30) DEF End
  <2>. QED
    BY <1>2, <2>1, ClientGreetedInv, ClientRequestsInv, ClientSendFailsInv, ClientChunkInv,
       ClientCommitInv, ClientLosesInv, ClientClosesInv, Zenon DEF ClientNext
<1>3. CASE UNCHANGED vars
  BY <1>3 DEF vars, IInv, Shape, ServerFits, ClientFits, FileFits, Has, None
<1>4. CASE Ended
  BY <1>3, <1>4, Zenon DEF Ended
<1>. QED
  BY <1>1, <1>2, <1>3, <1>4, ClientHelloInv, BreakInv, Zenon DEF Next

LEMMA InvAlways == Spec => []IInv
BY InitInv, NextInv, PTL DEF Spec
-----------------------------------------------------------------------------
(* The properties.                                                         *)

\* However frames are cut into pieces and whatever breaks, an end that waits
\* in recv() never has a complete frame in its decoder, which feed() would only
\* hand out after another recv().
THEOREM NoStrandedFrameAlways == Spec => []NoStrandedFrame
<1>1. IInv => NoStrandedFrame
  <2>. SUFFICES ASSUME IInv, NEW e \in End, Waiting(e) PROVE Len(dec[e]) < Parts
    BY DEF NoStrandedFrame
  <2>1. CASE dec[e] = <<>>
    BY <2>1, TcpConstants
  <2>2. CASE \E f : Pieces(dec[e], wire[e], f)
    BY <2>2, SMTT(30) DEF Pieces
  <2>3. CASE e = "server"
    <3>1. server.pc \in {"hello", "req", "ack", "commit_ack"}
      BY <2>3 DEF Waiting, Pc, Awaited, IInv, Shape
    <3>. QED
      BY <3>1, <2>1, <2>2, <2>3, SMTT(30) DEF IInv, ServerFits, Has, None
  <2>4. CASE e = "client"
    <3>1. client.pc \in {"hello_ack", "recv"}
      BY <2>4 DEF Waiting, Pc, Awaited, IInv, Shape
    <3>. QED
      BY <3>1, <2>1, <2>2, <2>4 DEF IInv, ClientFits, Has, None
  <2>. QED
    BY <2>3, <2>4 DEF End
<1>. QED
  BY <1>1, InvAlways, PTL

\* For every length and offset, an end that reports success has copied exactly
\* the range asked for: no chunk is missing, doubled or out of order, even if
\* serve_once() takes a lost connection for the acknowledgement of its commit.
THEOREM SuccessMeansCopiedAlways == Spec => []SuccessMeansCopied
<1>1. ASSUME IInv, client.expected = req.length PROVE Copied
  <2>1. dst \in Seq(Nat) /\ Len(dst) = req.length /\ req.length \in Nat
    BY <1>1 DEF IInv, FileFits, Shape
  <2>2. \A i \in 1 .. req.length : dst[i] = req.offset + i - 1
    BY <1>1, SMTT(30) DEF IInv, FileFits
  <2>. QED
    BY <2>1, <2>2 DEF Copied
<1>2. IInv => SuccessMeansCopied
  BY <1>1 DEF IInv, ServerFits, ClientFits, SuccessMeansCopied
<1>. QED
  BY <1>2, InvAlways, PTL

\* When transfer() returns success, serve_once() has not failed and never will.
THEOREM ServerAgreesAlways == Spec => []ServerAgrees
<1>1. IInv => ServerAgrees
  BY DEF IInv, ClientFits, ServerAgrees
<1>. QED
  BY <1>1, InvAlways, PTL
-----------------------------------------------------------------------------
(* Types: the decoder and the wire of an end that has returned may hold     *)
(* anything the other end has sent meanwhile, so this is a second layer.    *)

AnyFrame == [type : FrameType, chunk_id : Nat, offset : Nat]

Streams(d, w) == \A e \in End : d[e] \in Seq(AnyFrame) /\ w[e] \in Seq(AnyFrame)

\* The server has sent no more chunks than the plan has.
Planned ==
  /\ server.next <= req.length
  /\ server.pc = "ack" => server.next < req.length

TInv == Streams(dec, wire) /\ Planned

\* The pieces in the buffer and on the wire are pieces of frames.
LEMMA Joined ==
  ASSUME NEW S, NEW d \in Seq(S), NEW w \in Seq(S)
  PROVE  /\ \A i \in 1 .. Len(d \o w) : (d \o w)[i] \in S
         /\ w # <<>> => (d \o w)[1] \in S
<1>1. d \o w \in Seq(S) /\ Len(d \o w) = Len(d) + Len(w) /\ Len(d) \in Nat
  OBVIOUS
<1>2. \A i \in 1 .. Len(d \o w) : (d \o w)[i] \in S
  BY <1>1
<1>3. w # <<>> => Len(w) \in Nat /\ Len(w) > 0
  OBVIOUS
<1>4. w # <<>> => 1 \in 1 .. Len(d \o w)
  BY <1>1, <1>3
<1>. QED
  BY <1>2, <1>4, Zenon

\* A frame on its way is a frame.
LEMMA FramesSent ==
  ASSUME NEW e, NEW a \in Seq(AnyFrame)
  PROVE  Send(e, a) \in Seq(AnyFrame)
<1>1. CASE a = <<>> \/ reset
  BY <1>1 DEF Send
<1>2. CASE a # <<>> /\ ~reset
  <2>1. a[1] \in AnyFrame
    BY <1>2
  <2>2. [i \in 1 .. Parts |-> a[1]] \in Seq(AnyFrame)
    BY <2>1, TcpConstants
  <2>. QED
    BY <1>2, <2>2, Zenon DEF Send
<1>. QED
  BY <1>1, <1>2

\* A frame with a known type and a chunk number.
LEMMA FrameTyped ==
  ASSUME NEW ty \in FrameType, NEW id \in Nat
  PROVE  <<Frame(ty, id)>> \in Seq(AnyFrame) /\ <<>> \in Seq(AnyFrame)
<1>1. Frame(ty, id) \in AnyFrame
  BY DEF Frame, AnyFrame
<1>. QED
  BY <1>1

\* send_all(): one direction grows by a frame.
LEMMA StreamsSent ==
  ASSUME Shape, Streams(dec, wire), NEW p \in End, NEW e, NEW a \in Seq(AnyFrame),
         dec' = dec, wire' = [wire EXCEPT ![p] = @ \o Send(e, a)]
  PROVE  Streams(dec', wire')
<1>1. PICK s \in Seq(AnyFrame) : s = Send(e, a)
  BY FramesSent
<1>2. wire'[p] = wire[p] \o s /\ \A q \in End \ {p} : wire'[q] = wire[q]
  BY <1>1, SMTT(30) DEF Shape
<1>3. wire[p] \o s \in Seq(AnyFrame)
  BY DEF Streams
<1>. QED
  BY <1>2, <1>3, Zenon DEF Streams

\* recv() and feed(): pieces move from the wire to the buffer, a frame leaves it.
LEMMA StreamsReceived ==
  ASSUME Shape, Streams(dec, wire), NEW e \in End, NEW a \in Seq(AnyFrame), Receive(e, a)
  PROVE  Streams(dec', wire')
<1>. DEFINE d(k) == SubSeq(dec[e] \o SubSeq(wire[e], 1, k), Parts + 1, Len(dec[e]) + k)
            w(k) == SubSeq(wire[e], k + 1, Len(wire[e]))
<1>0. dec[e] \in Seq(AnyFrame) /\ wire[e] \in Seq(AnyFrame) /\ wire[Peer(e)] \in Seq(AnyFrame)
  BY DEF Streams, Peer, End
<1>1. PICK s \in Seq(AnyFrame) : s = Send(e, a)
  BY FramesSent
<1>2. PICK k \in 1 .. Len(wire[e]) :
        /\ dec' = [dec EXCEPT ![e] = d(k)]
        /\ wire' = [wire EXCEPT ![e] = w(k), ![Peer(e)] = @ \o s]
  BY <1>1, Zenon DEF Receive
<1>3. w(k) \in Seq(AnyFrame) /\ wire[Peer(e)] \o s \in Seq(AnyFrame)
  BY <1>0
<1>4. d(k) \in Seq(AnyFrame)
  <2>1. SubSeq(wire[e], 1, k) \in Seq(AnyFrame) /\ Len(SubSeq(wire[e], 1, k)) = k
    BY <1>0
  <2>2. PICK t : t = dec[e] \o SubSeq(wire[e], 1, k)
    BY Zenon
  <2>3. t \in Seq(AnyFrame) /\ Len(t) = Len(dec[e]) + k
    BY <1>0, <2>1, <2>2
  <2>4. SubSeq(t, Parts + 1, Len(t)) \in Seq(AnyFrame)
    BY <2>3, TcpConstants
  <2>. QED
    BY <2>2, <2>3, <2>4, Zenon
<1>. HIDE DEF d, w
<1>5. Peer(e) \in End /\ Peer(e) # e /\ End = {e, Peer(e)}
  BY DEF Peer, End
<1>6. PICK p : p = Peer(e)
  BY Zenon
<1>7. /\ dec'[e] = d(k) /\ dec'[p] = dec[p]
      /\ wire'[e] = w(k) /\ wire'[p] = wire[p] \o s
  BY <1>2, <1>5, <1>6 DEF Shape
<1>8. \A q \in End : q = e \/ q = p
  BY <1>5, <1>6, Zenon
<1>. QED
  BY <1>3, <1>4, <1>5, <1>6, <1>7, <1>8, Zenon DEF Streams

\* recv() returned too little for a frame.
LEMMA StreamsPartial ==
  ASSUME Shape, Streams(dec, wire), NEW e \in End, Partial(e)
  PROVE  Streams(dec', wire')
<1>1. PICK k \in 1 .. Len(wire[e]) :
        /\ dec' = [dec EXCEPT ![e] = dec[e] \o SubSeq(wire[e], 1, k)]
        /\ wire' = [wire EXCEPT ![e] = SubSeq(wire[e], k + 1, Len(wire[e]))]
  BY Zenon DEF Partial
<1>2. dec[e] \in Seq(AnyFrame) /\ wire[e] \in Seq(AnyFrame)
  BY Zenon DEF Streams
<1>3. SubSeq(wire[e], k + 1, Len(wire[e])) \in Seq(AnyFrame)
  BY <1>2
<1>4. dec[e] \o SubSeq(wire[e], 1, k) \in Seq(AnyFrame)
  <2>1. SubSeq(wire[e], 1, k) \in Seq(AnyFrame)
    BY <1>2
  <2>. QED
    BY <1>2, <2>1
<1>5. /\ dec'[e] = dec[e] \o SubSeq(wire[e], 1, k)
      /\ wire'[e] = SubSeq(wire[e], k + 1, Len(wire[e]))
      /\ \A q \in End \ {e} : dec'[q] = dec[q] /\ wire'[q] = wire[q]
  BY <1>1, Zenon DEF Shape
<1>. QED
  BY <1>3, <1>4, <1>5, Zenon DEF Streams

\* The steps of serve_once().
LEMMA ServerTyped ==
  ASSUME IInv, TInv, ServerNext
  PROVE  TInv'
<1>. USE DEF IInv, TInv
<1>0. "server" \in End /\ "client" \in End /\ req' = req
  BY Zenon DEF End, ServerNext, ServerAccepts, ServerReceives, ServerOpens, ServerOpenFails,
     ServerSends, ServerAborts, ServerCommits, ServerLoses, Partial
<1>a. /\ server.next \in Nat /\ req.length \in Nat
      /\ DOMAIN server = {"pc", "next", "result"}
  BY DEF Shape
<1>1. CASE ServerAccepts \/ ServerOpens \/ ServerOpenFails \/ ServerAborts \/ ServerLoses
  <2>1. /\ dec' = dec /\ wire' = wire /\ server'.next = server.next /\ server'.pc # "ack"
    BY <1>1, <1>a, Zenon DEF ServerAccepts, ServerOpens, ServerOpenFails, ServerAborts,
       ServerLoses, ServerReturns
  <2>. QED
    BY <1>0, <2>1, Zenon DEF Planned
<1>2. CASE ServerSends
  <2>1. /\ server.next < req.length /\ server'.next = server.next /\ dec' = dec
        /\ wire' = [wire EXCEPT !["client"] = @ \o Send("server", <<Frame("chunk", server.next)>>)]
    BY <1>2, <1>a DEF ServerSends
  <2>2. <<Frame("chunk", server.next)>> \in Seq(AnyFrame)
    BY <1>a, FrameTyped DEF FrameType
  <2>3. Streams(dec', wire')
    BY <1>0, <2>1, <2>2, StreamsSent, Zenon
  <2>. QED
    BY <1>0, <2>1, <2>3, Zenon DEF Planned
<1>3. CASE ServerCommits
  <2>1. /\ server'.next = server.next /\ server'.pc = "commit_ack" /\ dec' = dec
        /\ wire' = [wire EXCEPT !["client"] = @ \o Send("server", <<Frame("commit", 0)>>)]
    BY <1>3, <1>a DEF ServerCommits
  <2>2. <<Frame("commit", 0)>> \in Seq(AnyFrame)
    BY FrameTyped DEF FrameType
  <2>3. Streams(dec', wire')
    BY <1>0, <2>1, <2>2, StreamsSent, Zenon
  <2>. QED
    BY <1>0, <2>1, <2>3, Zenon DEF Planned
<1>4. CASE ServerReceives
  <2>1. <<Frame("hello_ack", 0)>> \in Seq(AnyFrame) /\ <<>> \in Seq(AnyFrame)
    BY FrameTyped DEF FrameType
  <2>2. \E a \in Seq(AnyFrame) : Receive("server", a)
    BY <1>4, <2>1, Zenon DEF ServerReceives
  <2>3. Streams(dec', wire')
    BY <1>0, <2>2, StreamsReceived, Zenon
  <2>4. /\ server.pc \in {"hello", "req", "ack", "commit_ack"}
        /\ \/ server' = server
           \/ server' = [server EXCEPT !.pc = ServerStep[server.pc],
                                       !.next = IF server.pc = "ack" THEN server.next + 1
                                                ELSE server.next]
    BY <1>4, Zenon DEF ServerReceives, ServerStep
  <2>5. Planned'
    <3>1. CASE server' = server
      BY <1>0, <3>1, Zenon DEF Planned
    <3>2. CASE server' = [server EXCEPT !.pc = ServerStep[server.pc],
                                       !.next = IF server.pc = "ack" THEN server.next + 1
                                                ELSE server.next]
      <4>1. /\ server'.pc = ServerStep[server.pc]
            /\ server'.next = IF server.pc = "ack" THEN server.next + 1 ELSE server.next
        BY <1>a, <3>2
      <4>2. ServerStep[server.pc] # "ack"
        BY <2>4 DEF ServerStep
      <4>. QED
        BY <1>0, <1>a, <4>1, <4>2 DEF Planned
    <3>. QED
      BY <2>4, <3>1, <3>2, Zenon
  <2>. QED
    BY <2>3, <2>5, Zenon
<1>5. CASE Partial("server")
  <2>1. Streams(dec', wire')
    BY <1>0, <1>5, StreamsPartial, Zenon
  <2>. QED
    BY <1>0, <1>5, <2>1, Zenon DEF Planned, Partial
<1>. QED
  BY <1>1, <1>2, <1>3, <1>4, <1>5, Zenon DEF ServerNext

\* The steps of transfer(), and the connection.
LEMMA ClientTyped ==
  ASSUME IInv, TInv, ClientNext \/ ClientHello \/ Break
  PROVE  TInv'
<1>. USE DEF IInv, TInv
<1>0. "server" \in End /\ "client" \in End
  BY DEF End
<1>1. Planned'
  <2>1. server' = server /\ req' = req
    BY Zenon DEF ClientNext, ClientGreeted, ClientRequests, ClientSendFails, ClientChunk,
       ClientCommit, ClientLoses, ClientCloses, ClientHello, Break, Partial
  <2>. QED
    BY <2>1, Zenon DEF Planned
<1>2. Streams(dec', wire')
  <2>1. CASE ClientSendFails \/ ClientLoses \/ ClientCloses
    BY <2>1, Zenon DEF ClientSendFails, ClientLoses, ClientCloses, Streams
  <2>2. CASE ClientHello \/ ClientRequests
    <3>1. PICK ty \in {"hello", "transfer_req"} :
            /\ dec' = dec
            /\ wire' = [wire EXCEPT !["server"] = @ \o Send("client", <<Frame(ty, 0)>>)]
      BY <2>2, Zenon DEF ClientHello, ClientRequests
    <3>2. <<Frame(ty, 0)>> \in Seq(AnyFrame)
      BY FrameTyped DEF FrameType
    <3>. QED
      BY <1>0, <3>1, <3>2, StreamsSent, Zenon
  <2>3. CASE ClientGreeted \/ ClientChunk \/ ClientCommit
    <3>1. <<>> \in Seq(AnyFrame) /\ <<Frame("commit_ack", 0)>> \in Seq(AnyFrame)
      BY FrameTyped DEF FrameType
    <3>2. wire["client"] # <<>> => <<Frame("chunk_ack", Incoming("client").chunk_id)>> \in Seq(AnyFrame)
      <4>1. dec["client"] \in Seq(AnyFrame) /\ wire["client"] \in Seq(AnyFrame)
        BY <1>0, Zenon DEF Streams
      <4>2. wire["client"] # <<>> => (dec["client"] \o wire["client"])[1] \in AnyFrame
        BY <4>1, Joined, Zenon
      <4>3. \A f \in AnyFrame : f.chunk_id \in Nat
        BY DEF AnyFrame
      <4>. QED
        BY <4>2, <4>3, FrameTyped, Zenon DEF FrameType, Incoming
    <3>3. \E a \in Seq(AnyFrame) : Receive("client", a)
      BY <2>3, <3>1, <3>2, Zenon DEF ClientGreeted, ClientChunk, ClientCommit
    <3>. QED
      BY <1>0, <3>3, StreamsReceived, Zenon
  <2>4. CASE Partial("client")
    BY <1>0, <2>4, StreamsPartial, Zenon
  <2>5. CASE Break
    <3>1. <<>> \in Seq(AnyFrame)
      BY FrameTyped
    <3>. QED
      BY <2>5, <3>1, Zenon DEF Break, Streams
  <2>. QED
    BY <2>1, <2>2, <2>3, <2>4, <2>5, Zenon DEF ClientNext
<1>. QED
  BY <1>1, <1>2, Zenon

\* Whatever is still under way when an end returns are frames of the protocol,
\* and neither end ever counts more chunks than the range has.
THEOREM TypeCorrect == Spec => []TypeOK
<1>1. ASSUME Init PROVE TInv
  <2>1. \A e \in End : dec[e] = <<>> /\ wire[e] = <<>>
    BY <1>1, Zenon DEF Init
  <2>2. server.next = 0 /\ server.pc = "accept" /\ req.length \in Nat
    BY <1>1, TcpConstants, Zenon DEF Init
  <2>4. <<>> \in Seq(AnyFrame)
    OBVIOUS
  <2>5. Streams(dec, wire)
    BY <2>1, <2>4, Zenon DEF Streams
  <2>6. Planned
    BY <2>2 DEF Planned
  <2>. QED
    BY <2>5, <2>6, Zenon DEF TInv
<1>2. ASSUME IInv, TInv, [Next]_vars PROVE TInv'
  <2>1. CASE UNCHANGED vars
    BY <1>2, <2>1, Zenon DEF vars, TInv, Planned
  <2>. QED
    BY <1>2, <2>1, ServerTyped, ClientTyped, Zenon DEF Next, Ended
<1>3. ASSUME IInv, TInv PROVE TypeOK
  <2>1. ASSUME NEW e \in End, NEW i \in 1 .. Len(dec[e] \o wire[e])
        PROVE  (dec[e] \o wire[e])[i].type \in FrameType
    <3>1. dec[e] \in Seq(AnyFrame) /\ wire[e] \in Seq(AnyFrame)
      BY <1>3, Zenon DEF TInv, Streams
    <3>3. (dec[e] \o wire[e])[i] \in AnyFrame
      BY <2>1, <3>1, Joined, Zenon
    <3>. QED
      BY <3>3 DEF AnyFrame
  <2>2. server.next \in 0 .. req.length /\ client.expected \in 0 .. req.length
    BY <1>3 DEF IInv, TInv, Shape, Planned, FileFits
  <2>. QED
    BY <1>3, <2>1, <2>2, Zenon DEF TypeOK, IInv, Shape, FileFits
<1>4. Init => TInv
  BY <1>1, Zenon
<1>5. IInv /\ TInv /\ [Next]_vars => TInv'
  BY <1>2, Zenon
<1>6. IInv /\ TInv => TypeOK
  BY <1>3, Zenon
<1>. QED
  BY <1>4, <1>5, <1>6, InvAlways, PTL DEF Spec
-----------------------------------------------------------------------------
(* Waiting for each other: a third layer, on what has not been lost.       *)

\* All pieces of a frame are in the buffer or on the wire.
Whole(d, w) == Len(d) + Len(w) = Parts
Due(e) == Whole(dec[e], wire[e])

\* To which of the two ends that wait for a frame one is on its way.
OnItsWay ==
  ~reset =>
    /\ server.pc \in {"accept", "hello"} /\ client.pc # "idle" => Due("server")
    /\ server.pc = "req" /\ client.pc = "hello_ack" => Due("client")
    /\ server.pc = "req" /\ client.pc = "recv" => Due("server")
    /\ server.pc = "ack" /\ client.pc = "recv" =>
         IF server.next = client.expected THEN Due("client") ELSE Due("server")
    /\ server.pc = "commit_ack" /\ client.pc = "recv" => Due("client")

\* While the connection stands, serve_once() and transfer() are never both in
\* recv() unless the rest of a frame is on its way to one of them: the two ends
\* do not wait for each other.
NoMutualWait ==
  ~reset /\ Waiting("client") /\ Waiting("server") =>
    \E e \in End : wire[e] # <<>> /\ Len(dec[e]) + Len(wire[e]) >= Parts

\* send_all() on a connection that stands, to an end that has nothing to read.
LEMMA SentWhole ==
  ASSUME NEW e, NEW p, NEW f, ~reset, dec'[p] = <<>>, wire[p] = <<>>,
         wire'[p] = wire[p] \o Send(e, <<f>>)
  PROVE  Whole(dec'[p], wire'[p])
<1>1. Send(e, <<f>>) = [i \in 1 .. Parts |-> f]
  BY DEF Send
<1>. DEFINE w == [i \in 1 .. Parts |-> f]
<1>2. w \in Seq({f}) /\ Len(w) = Parts
  BY TcpConstants
<1>3. <<>> \o w = w
  BY <1>2
<1>4. wire'[p] = w
  BY <1>1, <1>3, Zenon
<1>. HIDE DEF w
<1>. QED
  BY <1>2, <1>4, TcpConstants DEF Whole

\* recv() returns a part of a frame: the rest is still on its way.
LEMMA PartialWhole ==
  ASSUME Shape, NEW e \in End, NEW f, Pieces(dec[e], wire[e], f), Partial(e)
  PROVE  Whole(dec[e], wire[e]) => Whole(dec'[e], wire'[e])
<1>1. PICK k \in 1 .. Len(wire[e]) :
        /\ dec' = [dec EXCEPT ![e] = dec[e] \o SubSeq(wire[e], 1, k)]
        /\ wire' = [wire EXCEPT ![e] = SubSeq(wire[e], k + 1, Len(wire[e]))]
  BY Zenon DEF Partial
<1>2. /\ dec'[e] = dec[e] \o SubSeq(wire[e], 1, k)
      /\ wire'[e] = SubSeq(wire[e], k + 1, Len(wire[e]))
  BY <1>1 DEF Shape
<1>3. /\ dec[e] \in Seq({f}) /\ wire[e] \in Seq({f})
      /\ Len(dec[e]) \in Nat /\ Len(wire[e]) \in Nat
  BY DEF Pieces
<1>4. /\ SubSeq(wire[e], 1, k) \in Seq({f}) /\ Len(SubSeq(wire[e], 1, k)) = k
      /\ Len(SubSeq(wire[e], k + 1, Len(wire[e]))) = Len(wire[e]) - k
  BY <1>3
<1>5. Len(dec[e] \o SubSeq(wire[e], 1, k)) = Len(dec[e]) + k
  BY <1>3, <1>4
<1>6. Len(dec'[e]) = Len(dec[e]) + k /\ Len(wire'[e]) = Len(wire[e]) - k
  BY <1>2, <1>4, <1>5, Zenon
<1>7. (Len(dec[e]) + k) + (Len(wire[e]) - k) = Len(dec[e]) + Len(wire[e])
  <2>1. \A a, b, c \in Nat : (a + c) + (b - c) = a + b
    OBVIOUS
  <2>2. k \in Nat
    BY <1>3
  <2>. QED
    BY <1>3, <2>1, <2>2, ZenonT(40)
<1>. QED
  BY <1>6, <1>7, Zenon DEF Whole

\* The steps that neither send nor receive.
LEMMA QuietOnItsWay ==
  ASSUME IInv, OnItsWay,
         \/ ServerAccepts \/ ServerOpens \/ ServerOpenFails \/ ServerAborts \/ ServerLoses
         \/ ClientSendFails \/ ClientLoses \/ ClientCloses \/ Break
  PROVE  OnItsWay'
<1>. USE DEF IInv, OnItsWay, Due
<1>1. CASE ServerAccepts
  BY <1>1 DEF ServerAccepts, Shape
<1>2. CASE ServerOpens
  BY <1>2 DEF ServerOpens, Shape
<1>3. CASE ServerOpenFails \/ ServerAborts \/ ServerLoses
  BY <1>3, ZenonT(40) DEF ServerOpenFails, ServerAborts, ServerLoses, ServerReturns, Shape
<1>4. CASE ClientSendFails \/ ClientLoses \/ ClientCloses
  <2>1. /\ client'.pc \in {"returned", "closed"}
        /\ UNCHANGED <<wire, dec, reset, server>>
        /\ ~reset => server.pc = "closed" \/ client.pc = "returned"
    BY <1>4, Zenon
    DEF ClientSendFails, ClientLoses, ClientCloses, ClientReturns, Lost, Pc, Peer, Shape
  <2>. QED
    BY <2>1
<1>5. CASE Break
  BY <1>5 DEF Break
<1>. QED
  BY <1>1, <1>2, <1>3, <1>4, <1>5

\* A frame is sent to the other end, which has nothing to read if it waits.
LEMMA SendOnItsWay ==
  ASSUME IInv, OnItsWay, ServerSends \/ ServerCommits \/ ClientHello \/ ClientRequests
  PROVE  OnItsWay'
<1>. USE DEF IInv
<1>1. CASE ServerSends \/ ServerCommits
  <2>1. PICK f : wire' = [wire EXCEPT !["client"] = @ \o Send("server", <<f>>)]
    BY <1>1, Zenon DEF ServerSends, ServerCommits
  <2>2. /\ server.pc = "send" /\ UNCHANGED <<dec, reset, client>>
        /\ server'.pc \in {"ack", "commit_ack"} /\ server'.next = server.next
    BY <1>1 DEF ServerSends, ServerCommits, Shape
  <2>3. wire'["client"] = wire["client"] \o Send("server", <<f>>)
    BY <2>1, SMTT(30) DEF Shape, End
  <2>4. server.next = client.expected /\ (client.pc = "recv" => None("client"))
    BY <2>2 DEF ServerFits, ClientFits
  <2>5. ~reset /\ client.pc = "recv" => Whole(dec'["client"], wire'["client"])
    BY <2>2, <2>3, <2>4, SentWhole, Zenon DEF None
  <2>. QED
    BY <2>2, <2>4, <2>5 DEF OnItsWay, Due
<1>2. CASE ClientHello \/ ClientRequests
  <2>1. PICK f : wire' = [wire EXCEPT !["server"] = @ \o Send("client", <<f>>)]
    BY <1>2, Zenon DEF ClientHello, ClientRequests
  <2>2. /\ UNCHANGED <<dec, reset, server>>
        /\ \/ client.pc = "idle" /\ client'.pc = "hello_ack"
           \/ client.pc = "request" /\ client'.pc \in {"recv", "returned"}
    BY <1>2, Zenon DEF ClientHello, ClientRequests, ClientReturns, Shape
  <2>3. wire'["server"] = wire["server"] \o Send("client", <<f>>)
    BY <2>1, SMTT(30) DEF Shape, End
  <2>4. /\ client.pc = "idle" => server.pc = "accept"
        /\ client.pc = "request" => server.pc \in {"req", "closed"}
        /\ server.pc \in {"accept", "req"} => None("server")
    BY <2>2 DEF ServerFits, ClientFits
  <2>5. ~reset /\ server.pc \in {"accept", "req"} => Whole(dec'["server"], wire'["server"])
    BY <2>2, <2>3, <2>4, SentWhole, Zenon DEF None
  <2>. QED
    BY <2>2, <2>4, <2>5 DEF OnItsWay, Due
<1>. QED
  BY <1>1, <1>2

\* serve_once() takes a frame: only hello is answered at once.
LEMMA ServerReceivesOnItsWay ==
  ASSUME IInv, OnItsWay, ServerReceives
  PROVE  OnItsWay'
<1>. USE DEF IInv
<1>0. /\ UNCHANGED <<reset, client>> /\ wire["server"] # <<>>
      /\ server.pc \in {"hello", "req", "ack", "commit_ack"}
  BY DEF ServerReceives, ServerStep
<1>1. PICK f : Has("server", f) /\ f.type \in Awaited[server.pc]
  <2>1. \E ty \in {"hello", "transfer_req", "chunk_ack", "commit_ack"} : \E id :
          Has("server", Frame(ty, id)) /\ ty \in Awaited[server.pc]
    BY <1>0 DEF ServerFits, None, Awaited
  <2>. QED
    BY <2>1 DEF Frame
<1>2. /\ dec'["server"] = <<>> /\ wire'["server"] = <<>> /\ dec'["client"] = dec["client"]
      /\ wire'["client"] = wire["client"] \o
           Send("server", IF server.pc = "hello" THEN <<Frame("hello_ack", 0)>> ELSE <<>>)
      /\ server' = [server EXCEPT !.pc = ServerStep[server.pc],
                                  !.next = IF server.pc = "ack" THEN server.next + 1
                                           ELSE server.next]
  BY <1>1, ServerTakes, Zenon
<1>3. server'.pc = ServerStep[server.pc]
  BY <1>2, SMTT(30) DEF Shape
<1>4. CASE server.pc = "hello"
  <2>1. /\ client.pc \in {"hello_ack", "returned", "closed"}
        /\ (client.pc = "hello_ack" => None("client"))
    BY <1>0, <1>4 DEF ServerFits, ClientFits, None
  <2>2. wire'["client"] = wire["client"] \o Send("server", <<Frame("hello_ack", 0)>>)
    BY <1>2, <1>4, Zenon
  <2>3. ~reset /\ client.pc = "hello_ack" => Whole(dec'["client"], wire'["client"])
    BY <1>2, <2>1, <2>2, SentWhole, Zenon DEF None
  <2>4. server'.pc = "req"
    BY <1>3, <1>4 DEF ServerStep
  <2>. QED
    BY <1>0, <2>1, <2>3, <2>4, SMTT(30) DEF OnItsWay, Due
<1>5. CASE server.pc # "hello"
  <2>1. server'.pc \in {"open", "send", "closed"}
    BY <1>0, <1>3, <1>5 DEF ServerStep
  <2>. QED
    BY <2>1 DEF OnItsWay
<1>. QED
  BY <1>4, <1>5

\* transfer() takes a frame: a chunk is answered, or transfer() returns.
LEMMA ClientReceivesOnItsWay ==
  ASSUME IInv, OnItsWay, ClientGreeted \/ ClientChunk \/ ClientCommit
  PROVE  OnItsWay'
<1>. USE DEF IInv
<1>1. CASE ClientGreeted
  <2>1. /\ UNCHANGED <<reset, server>> /\ wire["client"] # <<>>
        /\ client.pc = "hello_ack" /\ Receive("client", <<>>)
    BY <1>1, SMTT(30) DEF ClientGreeted
  <2>2. Has("client", Frame("hello_ack", 0)) /\ server.pc \in {"req", "closed"}
    BY <2>1 DEF ClientFits, ServerFits, None
  <2>3. Incoming("client") = Frame("hello_ack", 0)
    BY <2>1, <2>2, ClientTakes, Zenon
  <2>4. client'.pc = "request"
    BY <1>1, <2>3 DEF ClientGreeted, Frame, Awaited, Shape
  <2>. QED
    BY <2>1, <2>2, <2>4 DEF OnItsWay
<1>2. CASE ClientChunk
  <2>1. /\ UNCHANGED <<reset, server, req>> /\ client.pc = "recv" /\ wire["client"] # <<>>
        /\ Incoming("client").type = "chunk"
    BY <1>2, Zenon DEF ClientChunk
  <2>2. PICK a : Receive("client", a)
    BY <1>2, Zenon DEF ClientChunk
  <2>3. /\ Has("client", Frame("chunk", client.expected))
        /\ server.pc \in {"ack", "closed"}
        /\ server.pc = "ack" => None("server") /\ server.next = client.expected
    BY <2>1, <2>2, ChunkExpected, Zenon
  <2>4. CASE \E r : ClientReturns(r)
    <3>1. client'.pc = "returned"
      BY <2>4 DEF ClientReturns, Shape
    <3>. QED
      BY <2>1, <2>3, <3>1 DEF OnItsWay
  <2>5. CASE /\ Receive("client", <<Frame("chunk_ack", Incoming("client").chunk_id)>>)
             /\ client' = [client EXCEPT !.expected = @ + 1]
    <3>1. /\ dec'["server"] = dec["server"]
          /\ wire'["server"] = wire["server"] \o
                Send("client", <<Frame("chunk_ack", Incoming("client").chunk_id)>>)
      BY <2>3, <2>5, ClientTakes, Zenon
    <3>2. ~reset /\ server.pc = "ack" => Whole(dec'["server"], wire'["server"])
      BY <2>3, <3>1, SentWhole, Zenon DEF None
    <3>3. client'.expected = client.expected + 1 /\ client.expected \in Nat
      BY <2>5 DEF Shape
    <3>. QED
      BY <2>1, <2>3, <3>2, <3>3 DEF OnItsWay, Due
  <2>. QED
    BY <1>2, <2>4, <2>5, Zenon DEF ClientChunk
<1>3. CASE ClientCommit
  <2>1. /\ UNCHANGED <<reset, server, req>> /\ client.pc = "recv" /\ wire["client"] # <<>>
        /\ Incoming("client").type # "chunk"
    BY <1>3, Zenon DEF ClientCommit
  <2>2. PICK a : Receive("client", a)
    BY <1>3, Zenon DEF ClientCommit
  <2>3. Has("client", Frame("commit", 0)) /\ server.pc \in {"commit_ack", "closed"}
    BY <2>1, <2>2, CommitExpected, Zenon
  <2>4. Incoming("client") = Frame("commit", 0)
    BY <2>2, <2>3, ClientTakes, Zenon
  <2>5. Incoming("client").type = "commit"
    BY <2>4 DEF Frame
  <2>6. client'.pc = "returned"
    BY <1>3, <2>5 DEF ClientCommit, Shape
  <2>. QED
    BY <2>1, <2>3, <2>6 DEF OnItsWay
<1>. QED
  BY <1>1, <1>2, <1>3

\* A part of a frame arrives at one end.
LEMMA PartialOnItsWay ==
  ASSUME IInv, OnItsWay, NEW e \in End, Partial(e)
  PROVE  OnItsWay'
<1>. USE DEF IInv
<1>1. UNCHANGED <<reset, server, client>> /\ wire[e] # <<>>
  BY DEF Partial
<1>2. /\ e = "server" => server.pc \in {"hello", "req", "ack", "commit_ack"}
      /\ e = "client" => client.pc \in {"hello_ack", "recv"}
  BY SMTT(30) DEF Partial, Waiting, Pc, Awaited, Shape
<1>3. PICK f : Pieces(dec[e], wire[e], f)
  <2>1. CASE e = "server"
    BY <1>1, <1>2, <2>1, SMTT(30) DEF ServerFits, Has, None
  <2>2. CASE e = "client"
    BY <1>1, <1>2, <2>2 DEF ClientFits, ServerFits, Has, None
  <2>. QED
    BY <2>1, <2>2 DEF End
<1>4. Kept(Peer(e))
  BY <1>3, PartialKeeps, Zenon
<1>5. Whole(dec[e], wire[e]) => Whole(dec'[e], wire'[e])
  BY <1>3, PartialWhole, Zenon
<1>6. \A q \in End : Due(q) => Whole(dec'[q], wire'[q])
  <2>1. \A q \in End : q = e \/ q = Peer(e)
    BY DEF End, Peer
  <2>. QED
    BY <1>4, <1>5, <2>1, Zenon DEF Due, Kept
<1>7. "server" \in End /\ "client" \in End
  BY DEF End
<1>. QED
  BY <1>1, <1>6, <1>7, Zenon DEF OnItsWay, Due

\* However frames are cut into pieces and whichever files fail, serve_once() and
\* transfer() never sit in recv() at the same time with nothing on its way to
\* either: whatever is sent is one answer to what was received, and a frame that
\* an end waits for is complete in its decoder and on the wire.
THEOREM NoMutualWaitAlways == Spec => []NoMutualWait
<1>1. ASSUME Init PROVE OnItsWay
  <2>1. server.pc = "accept" /\ client.pc = "idle"
    BY <1>1 DEF Init
  <2>. QED
    BY <2>1 DEF OnItsWay
<1>2. ASSUME IInv, OnItsWay, [Next]_vars PROVE OnItsWay'
  <2>1. CASE UNCHANGED vars
    BY <1>2, <2>1, Zenon DEF vars, OnItsWay, Due
  <2>2. "server" \in End /\ "client" \in End
    BY DEF End
  <2>. QED
    BY <1>2, <2>1, <2>2, QuietOnItsWay, SendOnItsWay, ServerReceivesOnItsWay,
       ClientReceivesOnItsWay, PartialOnItsWay, Zenon
    DEF Next, ServerNext, ClientNext, Ended
<1>3. ASSUME IInv, OnItsWay, ~reset, Waiting("client"), Waiting("server")
      PROVE  \E e \in End : wire[e] # <<>> /\ Len(dec[e]) + Len(wire[e]) >= Parts
  <2>1. /\ server.pc \in {"hello", "req", "ack", "commit_ack"}
        /\ client.pc \in {"hello_ack", "recv"}
    BY <1>3, SMTT(30) DEF Waiting, Pc, Awaited, IInv, Shape
  <2>2. \E e \in End : \E f : Due(e) /\ (Has(e, f) \/ None(e))
    BY <1>3, <2>1 DEF OnItsWay, IInv, ServerFits, ClientFits, End
  <2>3. PICK e \in End : Due(e) /\ (None(e) \/ \E f : Has(e, f))
    BY <2>2, Zenon
  <2>4. wire[e] # <<>>
    <3>. SUFFICES ASSUME wire[e] = <<>> PROVE FALSE
      OBVIOUS
    <3>1. Len(dec[e]) < Parts /\ Len(dec[e]) \in Nat
      <4>1. CASE None(e)
        BY <4>1, TcpConstants DEF None
      <4>2. CASE \E f : Has(e, f)
        <5>1. PICK f : Pieces(dec[e], wire[e], f)
          BY <4>2, Zenon DEF Has
        <5>. QED
          BY <5>1 DEF Pieces
      <4>. QED
        BY <2>3, <4>1, <4>2, Zenon
    <3>. QED
      BY <2>3, <3>1, TcpConstants DEF Due, Whole
  <2>5. Parts >= Parts
    BY TcpConstants
  <2>. QED
    BY <2>3, <2>4, <2>5, Zenon DEF Due, Whole
<1>4. Init => OnItsWay
  BY <1>1, Zenon
<1>5. IInv /\ OnItsWay /\ [Next]_vars => OnItsWay'
  BY <1>2, Zenon
<1>6. IInv /\ OnItsWay => NoMutualWait
  BY <1>3, Zenon DEF NoMutualWait
<1>. QED
  BY <1>4, <1>5, <1>6, InvAlways, PTL DEF Spec
=============================================================================
