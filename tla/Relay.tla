------------------------------- MODULE Relay -------------------------------
(***************************************************************************)
(* One redirected connection after its destination is known: the           *)
(* readAndClassify loop that collects a ClientHello, and what becomes of   *)
(* the bytes it collected, in relayPrefixed (passthrough: dial, write the  *)
(* prefix, copy both ways until the first copy returns) or in the TLS      *)
(* server that reads the prefix before the connection (interception).      *)
(*                                                                         *)
(* A byte stream is the sequence of its chunks, one per Read, numbered in  *)
(* the order they were sent.                                               *)
(***************************************************************************)
EXTENDS Naturals, Sequences

CONSTANTS MaxSend,   \* bound: chunks either endpoint sends
          MaxHello   \* maxClientHello, in chunks

ASSUME BoundsAssumption == MaxSend \in Nat /\ MaxHello \in Nat \ {0}

VARIABLES hello,     \* what the client's first bytes are: kind, and chunks until that shows
          phase,     \* where the goroutine is
          buf,       \* chunks collected by readAndClassify
          client,    \* the client's end: chunks sent, chunks the gateway has read, fin
          server,    \* the same for the original destination
          toServer,  \* what the destination (or the TLS server) has received
          toClient,  \* what the client has received
          ended,     \* directions whose io.Copy has returned
          failed     \* a dial, write or read error ended the connection

vars == <<hello, phase, buf, client, server, toServer, toClient, ended, failed>>

Endpoint == [sent : 0..MaxSend, read : 0..MaxSend, fin : BOOLEAN]
Stream == Seq(1..MaxSend)

TypeOK == /\ hello \in [kind : {"target", "other"}, length : 1..MaxSend]
          /\ phase \in {"classify", "dial", "prefix", "copy", "mitm", "closed"}
          /\ buf \in Stream /\ Len(buf) <= MaxHello
          /\ client \in Endpoint /\ client.read <= client.sent
          /\ server \in Endpoint /\ server.read <= server.sent
          /\ toServer \in Stream /\ Len(toServer) <= client.sent
          /\ toClient \in Stream /\ Len(toClient) <= server.sent
          /\ ended \subseteq {"up", "down"}
          /\ failed \in BOOLEAN

Init == /\ hello \in [kind : {"target", "other"}, length : 1..MaxSend]
        /\ phase = "classify"
        /\ buf = <<>>
        /\ client = [sent |-> 0, read |-> 0, fin |-> FALSE]
        /\ server = [sent |-> 0, read |-> 0, fin |-> FALSE]
        /\ toServer = <<>>
        /\ toClient = <<>>
        /\ ended = {}
        /\ failed = FALSE

-----------------------------------------------------------------------------
(* The endpoints: each sends, and may close its direction and still read. *)
CanSend(e) == e.sent < MaxSend /\ ~e.fin

ClientSends == /\ phase # "closed" /\ CanSend(client)
               /\ client' = [client EXCEPT !.sent = @ + 1]
               /\ UNCHANGED <<hello, phase, buf, server, toServer, toClient, ended, failed>>

ClientFinishes == /\ phase # "closed" /\ ~client.fin
                  /\ client' = [client EXCEPT !.fin = TRUE]
                  /\ UNCHANGED <<hello, phase, buf, server, toServer, toClient, ended, failed>>

ServerSends == /\ phase \in {"prefix", "copy"} /\ CanSend(server)
               /\ server' = [server EXCEPT !.sent = @ + 1]
               /\ UNCHANGED <<hello, phase, buf, client, toServer, toClient, ended, failed>>

ServerFinishes == /\ phase \in {"prefix", "copy"} /\ ~server.fin
                  /\ server' = [server EXCEPT !.fin = TRUE]
                  /\ UNCHANGED <<hello, phase, buf, client, toServer, toClient, ended, failed>>

-----------------------------------------------------------------------------
Pending(e) == e.read < e.sent
AtEOF(e) == e.fin /\ e.read = e.sent

(* A mistake: no limit on what is collected. *)
DecisionUnlimited(n) == CASE n >= hello.length /\ hello.kind = "target" -> "mitm"
                          [] n >= hello.length /\ hello.kind = "other" -> "dial"
                          [] OTHER -> "classify"

(* What readAndClassify makes of the bytes it has: intercept a complete    *)
(* ClientHello for an allowed name; pass through anything else that is     *)
(* complete, no TLS record, or as large as the limit; else read on.        *)
Decision(n) == CASE n >= hello.length /\ hello.kind = "target" -> "mitm"
                 [] n >= hello.length /\ hello.kind = "other" -> "dial"
                 [] n >= MaxHello -> "dial"
                 [] OTHER -> "classify"

(* One Read of the loop. *)
ReadAndClassify == /\ phase = "classify" /\ Pending(client)
                   /\ buf' = Append(buf, client.read + 1)
                   /\ client' = [client EXCEPT !.read = @ + 1]
                   /\ phase' = Decision(Len(buf) + 1)
                   /\ UNCHANGED <<hello, server, toServer, toClient, ended, failed>>

(* A Read that brings nothing: the client has closed, or the 5 s read      *)
(* deadline is over.  What was collected so far is passed through.         *)
ReadFails == /\ phase = "classify"
             /\ phase' = "dial"
             /\ UNCHANGED <<hello, buf, client, server, toServer, toClient, ended, failed>>

(* The TLS server's reader: first the prefix, then the connection. *)
ServeMITM == /\ phase = "mitm"
             /\ \/ /\ Len(toServer) < Len(buf)
                   /\ toServer' = Append(toServer, buf[Len(toServer) + 1])
                   /\ UNCHANGED client
                \/ /\ Len(toServer) >= Len(buf) /\ Pending(client)
                   /\ toServer' = Append(toServer, client.read + 1)
                   /\ client' = [client EXCEPT !.read = @ + 1]
             /\ UNCHANGED <<hello, phase, buf, server, toClient, ended, failed>>

(* An error anywhere in relayPrefixed closes both ends. *)
Fails == /\ phase \in {"dial", "prefix", "copy"}
         /\ phase' = "closed"
         /\ failed' = TRUE
         /\ UNCHANGED <<hello, buf, client, server, toServer, toClient, ended>>

Dial == /\ phase = "dial"
        /\ phase' = "prefix"
        /\ UNCHANGED <<hello, buf, client, server, toServer, toClient, ended, failed>>

(* A mistake: what was collected is not forwarded. *)
SkipPrefix == /\ phase = "prefix"
              /\ phase' = "copy"
              /\ UNCHANGED <<hello, buf, client, server, toServer, toClient, ended, failed>>

WritePrefix == /\ phase = "prefix"
               /\ toServer' = toServer \o buf
               /\ phase' = "copy"
               /\ UNCHANGED <<hello, buf, client, server, toClient, ended, failed>>

(* io.Copy(upstream, conn) and io.Copy(conn, upstream), one goroutine each. *)
CopyUp == /\ phase = "copy" /\ Pending(client)
          /\ toServer' = Append(toServer, client.read + 1)
          /\ client' = [client EXCEPT !.read = @ + 1]
          /\ UNCHANGED <<hello, phase, buf, server, toClient, ended, failed>>

CopyDown == /\ phase = "copy" /\ Pending(server)
            /\ toClient' = Append(toClient, server.read + 1)
            /\ server' = [server EXCEPT !.read = @ + 1]
            /\ UNCHANGED <<hello, phase, buf, client, toServer, ended, failed>>

(* A copy returns at end of file and reports on the result channel. *)
(* EndsEarly is a mistake: bytes still to be read are forgotten.            *)
EndsEarly(d, e) == d \notin ended /\ e.fin
Ends(d, e) == /\ d \notin ended
              /\ AtEOF(e)

CopyEnds == /\ phase = "copy"
            /\ \/ Ends("up", client) /\ ended' = ended \cup {"up"}
               \/ Ends("down", server) /\ ended' = ended \cup {"down"}
            /\ UNCHANGED <<hello, phase, buf, client, server, toServer, toClient, failed>>

(* relayPrefixed returns on the first result; its defers close both ends. *)
RelayReturns == /\ phase = "copy" /\ ended # {}
                /\ phase' = "closed"
                /\ UNCHANGED <<hello, buf, client, server, toServer, toClient, ended, failed>>

Next == \/ ClientSends \/ ClientFinishes \/ ServerSends \/ ServerFinishes
        \/ ReadAndClassify \/ ReadFails \/ ServeMITM
        \/ Fails \/ Dial \/ WritePrefix \/ CopyUp \/ CopyDown \/ CopyEnds \/ RelayReturns

Spec == Init /\ [][Next]_vars

-----------------------------------------------------------------------------
InOrder(s) == \A i \in DOMAIN s : s[i] = i

(* Whatever mixture of buffering, prefix and copying a stream went         *)
(* through, the far end sees what was sent, from the first byte, in order, *)
(* nothing twice and nothing left out.                                     *)
ByteForByte == InOrder(toServer) /\ InOrder(toClient)

(* The direction whose end of file made the relay return is complete: the  *)
(* relay never closes on bytes it has yet to forward in that direction,    *)
(* and without an error it never closes unless one direction has ended.    *)
EndedDirectionComplete ==
  /\ "up" \in ended => Len(toServer) = client.sent
  /\ "down" \in ended => Len(toClient) = server.sent
  /\ phase = "closed" /\ ~failed => ended # {}

(* Passthrough is end to end: when the gateway closes a connection without *)
(* an error, no byte that either end has sent is left undelivered.         *)
PassthroughLosesNothing ==
  phase = "closed" /\ ~failed => /\ Len(toServer) = client.sent
                                 /\ Len(toClient) = server.sent
=============================================================================
