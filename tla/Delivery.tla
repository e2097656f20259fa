------------------------------ MODULE Delivery ------------------------------
(***************************************************************************)
(* What a session promises to those who use it.  The items of a stream     *)
(* come out as they went in, each once and in order, the payload of an     *)
(* object perhaps in parts; a datagram comes out as some datagram that     *)
(* went in.  The client starts with one item and sends another only when   *)
(* it has the first one of the server; the server sends nothing before it  *)
(* has the first one of the client; and nothing but the control stream is  *)
(* read by a client that has no answer.                                    *)
(*                                                                         *)
(* No byte, buffer, connection, or end of a session appears here:          *)
(* Session.tla has those, and implements this specification.               *)
(***************************************************************************)
EXTENDS Naturals, Sequences

CONSTANT Streams    \* "up" and "down", the control stream; "data"; "datagrams"

VARIABLES sent,     \* of each stream: the items that went in
          got,      \* of each stream: the items that came out
          left      \* of each stream: what the last one lacks of its payload

vars == <<sent, got, left>>

Payload(item) == IF "payload" \in DOMAIN item THEN item.payload ELSE <<>>
\* An item that lacks the last bytes of its payload.
Lacking(item, rest) ==
    IF "payload" \in DOMAIN item
    THEN [item EXCEPT !.payload = SubSeq(item.payload, 1, Len(item.payload) - rest)]
    ELSE item

Init ==
    /\ sent = [s \in Streams |-> <<>>]
    /\ got = [s \in Streams |-> <<>>]
    /\ left = [s \in Streams |-> 0]

ClientMaySend == sent["up"] = <<>> \/ got["down"] # <<>>
\* The server may answer while it takes what it answers.
ServerMaySend == got'["up"] # <<>>

Send(s) ==
    /\ IF s = "up" THEN ClientMaySend ELSE ServerMaySend
    /\ sent'[s] # <<>> /\ sent'[s] = Append(sent[s], sent'[s][Len(sent'[s])])
    /\ got'[s] = got[s] /\ left'[s] = left[s]

MayTake(s) == s \notin {"up", "down"} => got["down"] # <<>>
\* The next item, with none, a part, or all of its payload.
TakeNext(s) ==
    /\ MayTake(s) /\ left[s] = 0 /\ Len(got[s]) < Len(sent[s])
    /\ LET next == sent[s][Len(got[s]) + 1]
       IN  \E rest \in 0..Len(Payload(next)) :
              got'[s] = Append(got[s], Lacking(next, rest)) /\ left'[s] = rest
    /\ sent'[s] = sent[s]
\* More of the payload of the last one.
TakeMore(s) ==
    /\ MayTake(s)
    /\ \E rest \in 0..left[s] :
          /\ rest < left[s] /\ left'[s] = rest
          /\ got'[s] = [got[s] EXCEPT ![Len(got[s])] = Lacking(sent[s][Len(got[s])], rest)]
    /\ sent'[s] = sent[s]
\* Datagrams are lost, overtaken or, for the same bytes, confused.
TakeAny(s) ==
    /\ MayTake(s)
    /\ \E i \in 1..Len(sent[s]) : got'[s] = Append(got[s], sent[s][i])
    /\ sent'[s] = sent[s] /\ left'[s] = left[s]

Rest(s) == sent'[s] = sent[s] /\ got'[s] = got[s] /\ left'[s] = left[s]

\* The streams go on independently; some steps of a session are about two of them.
Next ==
    \A s \in Streams :
        \/ Rest(s) \/ Send(s)
        \/ s # "datagrams" /\ (TakeNext(s) \/ TakeMore(s))
        \/ s = "datagrams" /\ TakeAny(s)

Spec == Init /\ [][Next]_vars
=============================================================================
