--------------------------- MODULE AnnounceProofs ---------------------------
(***************************************************************************)
(* Proofs about Announce.tla for every set of namespaces and any number of *)
(* announcements: its type invariant, whose the answers and the cancels    *)
(* are, which entries linger, and what ends a session by a duplicate.      *)
(*                                                                         *)
(* The messages on their way say what their senders did and their          *)
(* receivers have not heard: an announcement that is not offered yet has   *)
(* its publish in flight, ahead of anything else about it, and one that    *)
(* was unannounced has its done in flight or its entry is gone.            *)
(***************************************************************************)
EXTENDS Announce, TLAPS

\* An announcement has state on either end once it is made, never before.
MadeOnly ==
    \A i \in Ids :
        /\ announce[i] = "none" <=> i \notin Made
        /\ i \notin Made => handle[i] = "none" /\ closed[i] = "no"
        /\ announce[i] = "ended" => closed[i] # "no"

\* The publisher's entry of a namespace is the latest announcement of it.
EntryIsLatest ==
    \A n \in Namespaces :
        announces[n] # None =>
            /\ announces[n] \in Made
            /\ namespace[announces[n]] = n
            /\ \A i \in Made : namespace[i] = n => i <= announces[n]

\* The subscriber's entry of a namespace is of that namespace.
EntryIsOffered ==
    \A n \in Namespaces :
        announced[n] # None => announced[n] \in Made /\ namespace[announced[n]] = n

\* What is on its way to the subscriber: nothing precedes the publish of an
\* announcement, which is offered when that arrives.
SubMessages ==
    /\ \A k \in 1..Len(toSub) : toSub[k][2] \in Made
    /\ \A k \in 1..Len(toSub) : toSub[k][1] = "publish" => handle[toSub[k][2]] = "none"
    /\ \A k, l \in 1..Len(toSub) :
          k < l /\ toSub[l][1] = "publish" => toSub[k][2] # toSub[l][2]

\* What is on its way to the publisher: the Announced has done what it says.
PubMessages ==
    \A k \in 1..Len(toPub) :
        /\ toPub[k][2] \in Made
        /\ toPub[k][1] = "ok" => handle[toPub[k][2]] \in {"accepted", "cancelling", "cancelled"}
        /\ toPub[k][1] = "error" => handle[toPub[k][2]] = "rejected"
        /\ toPub[k][1] = "cancel" => handle[toPub[k][2]] = "cancelled"

Sent(kind, i) == \E k \in 1..Len(toSub) : toSub[k] = <<kind, i>>

PublishInFlight ==
    session = "open" => \A i \in Made : handle[i] = "none" => Sent("publish", i)

DoneInFlight ==
    session = "open" =>
        \A i \in Made : announce[i] = "unannounced" =>
            Sent("done", i) \/ (handle[i] # "none" /\ ~Active(i))

IInv ==
    /\ TypeOK
    /\ MadeOnly
    /\ EntryIsLatest
    /\ EntryIsOffered
    /\ OnlyRejectedLinger
    /\ SubMessages
    /\ PubMessages
    /\ PublishInFlight
    /\ DoneInFlight
    /\ AnswerIsOwn
    /\ CancelIsOfNamespace

-----------------------------------------------------------------------------
(* Queues of messages. *)

LEMMA Appended ==
    ASSUME NEW S, NEW q \in Seq(S), NEW x \in S
    PROVE  /\ Append(q, x) \in Seq(S)
           /\ Len(Append(q, x)) = Len(q) + 1
           /\ \A k \in 1..Len(q) : Append(q, x)[k] = q[k]
           /\ Append(q, x)[Len(q) + 1] = x
  OBVIOUS

LEMMA Popped ==
    ASSUME NEW S, NEW q \in Seq(S), q # <<>>
    PROVE  /\ Tail(q) \in Seq(S)
           /\ Len(q) \in Nat \ {0}
           /\ Len(Tail(q)) = Len(q) - 1
           /\ \A k \in 1..Len(Tail(q)) : k + 1 \in 1..Len(q) /\ Tail(q)[k] = q[k + 1]
           /\ Head(q) = q[1]
  OBVIOUS

\* Received: what is left was behind the message, and was there before.
LEMMA SubPopped ==
    ASSUME TypeOK, NEW kind, NEW i \in Ids, ToSubHead(kind, i)
    PROVE  /\ toSub' \in Messages({"publish", "done"})
           /\ 1 \in 1..Len(toSub) /\ toSub[1] = <<kind, i>>
           /\ \A k \in 1..Len(toSub') : k + 1 \in 1..Len(toSub) /\ toSub'[k] = toSub[k + 1]
           /\ \A k \in 1..Len(toSub) : k # 1 => k - 1 \in 1..Len(toSub') /\ toSub'[k - 1] = toSub[k]
<1>1. toSub \in Seq({"publish", "done"} \X Ids) /\ toSub # <<>> /\ toSub' = Tail(toSub)
  BY DEF TypeOK, Messages, ToSubHead
<1>2. QED
  BY <1>1, Popped DEF ToSubHead, Messages

LEMMA PubPopped ==
    ASSUME TypeOK, NEW kind, NEW i \in Ids, ToPubHead(kind, i)
    PROVE  /\ toPub' \in Messages({"ok", "error", "cancel"})
           /\ 1 \in 1..Len(toPub) /\ toPub[1] = <<kind, i>>
           /\ \A k \in 1..Len(toPub') : k + 1 \in 1..Len(toPub) /\ toPub'[k] = toPub[k + 1]
<1>1. toPub \in Seq({"ok", "error", "cancel"} \X Ids) /\ toPub # <<>> /\ toPub' = Tail(toPub)
  BY DEF TypeOK, Messages, ToPubHead
<1>2. QED
  BY <1>1, Popped DEF ToPubHead, Messages

LEMMA SubAppended ==
    ASSUME TypeOK, NEW kind \in {"publish", "done"}, NEW i \in Ids, ToSubscriber(kind, i)
    PROVE  /\ toSub' \in Messages({"publish", "done"})
           /\ Len(toSub) \in Nat /\ Len(toSub') = Len(toSub) + 1
           /\ \A k \in 1..Len(toSub) : toSub'[k] = toSub[k]
           /\ toSub'[Len(toSub) + 1] = <<kind, i>>
<1>1. /\ toSub \in Seq({"publish", "done"} \X Ids) /\ toSub' = Append(toSub, <<kind, i>>)
      /\ <<kind, i>> \in {"publish", "done"} \X Ids
  BY DEF TypeOK, Messages, ToSubscriber
<1>2. QED
  BY <1>1, Appended DEF Messages

LEMMA PubAppended ==
    ASSUME TypeOK, NEW kind \in {"ok", "error", "cancel"}, NEW i \in Ids, ToPublisher(kind, i)
    PROVE  /\ toPub' \in Messages({"ok", "error", "cancel"})
           /\ Len(toPub) \in Nat /\ Len(toPub') = Len(toPub) + 1
           /\ \A k \in 1..Len(toPub) : toPub'[k] = toPub[k]
           /\ toPub'[Len(toPub) + 1] = <<kind, i>>
<1>1. /\ toPub \in Seq({"ok", "error", "cancel"} \X Ids) /\ toPub' = Append(toPub, <<kind, i>>)
      /\ <<kind, i>> \in {"ok", "error", "cancel"} \X Ids
  BY DEF TypeOK, Messages, ToPublisher
<1>2. QED
  BY <1>1, Appended DEF Messages

-----------------------------------------------------------------------------
LEMMA InitIInv == ASSUME AnnounceAssumption, Init PROVE IInv
<1>1. Made = {} /\ Len(namespace) = 0 /\ Len(toSub) = 0 /\ Len(toPub) = 0
  BY DEF Init, Made
<1>2. TypeOK
  <2>1. namespace \in Seq(Namespaces) /\ Len(namespace) <= MaxAnnounces
    BY AnnounceAssumption, <1>1 DEF Init, AnnounceAssumption
  <2>2. toSub \in Messages({"publish", "done"}) /\ toPub \in Messages({"ok", "error", "cancel"})
    BY DEF Init, Messages
  <2>3. QED
    BY <2>1, <2>2 DEF Init, TypeOK
<1>3. MadeOnly
  BY <1>1 DEF Init, MadeOnly
<1>4. EntryIsLatest /\ EntryIsOffered /\ OnlyRejectedLinger
  BY DEF Init, EntryIsLatest, EntryIsOffered, OnlyRejectedLinger
<1>5. SubMessages /\ PubMessages /\ PublishInFlight /\ DoneInFlight
  BY <1>1 DEF SubMessages, PubMessages, PublishInFlight, DoneInFlight
<1>6. AnswerIsOwn /\ CancelIsOfNamespace
  BY DEF Init, AnswerIsOwn, CancelIsOfNamespace
<1>7. QED
  BY <1>2, <1>3, <1>4, <1>5, <1>6 DEF IInv

-----------------------------------------------------------------------------
(* The publisher's steps. *)

\* What a new announcement leaves of the old ones.
LEMMA NamespaceGrows ==
    ASSUME TypeOK, NEW n \in Namespaces, NextId \in Ids, namespace' = Append(namespace, n)
    PROVE  /\ namespace' \in Seq(Namespaces) /\ Len(namespace') <= MaxAnnounces
           /\ Made' = Made \cup {NextId} /\ NextId \notin Made
           /\ \A i \in Made : i \in Ids /\ i < NextId /\ namespace'[i] = namespace[i]
           /\ namespace'[NextId] = n
<1>1. namespace \in Seq(Namespaces) /\ Len(namespace) \in Nat /\ Len(namespace) < MaxAnnounces
  BY AnnounceAssumption DEF TypeOK, NextId, Ids, AnnounceAssumption
<1>2. /\ namespace' \in Seq(Namespaces) /\ Len(namespace') = Len(namespace) + 1
      /\ \A k \in 1..Len(namespace) : namespace'[k] = namespace[k]
      /\ namespace'[Len(namespace) + 1] = n
  BY <1>1, Appended
<1>3. QED
  BY <1>1, <1>2, AnnounceAssumption DEF Made, NextId, Ids, AnnounceAssumption

LEMMA MadeAreIds == ASSUME TypeOK PROVE \A i \in Made : i \in Ids /\ i \in Nat
  BY AnnounceAssumption DEF TypeOK, Made, Ids, AnnounceAssumption

LEMMA StartAnnounceKeeps ==
    ASSUME IInv, NEW n \in Namespaces, StartAnnounce(n) PROVE IInv'
<1>1. /\ TypeOK /\ NextId \in Ids /\ namespace' = Append(namespace, n)
      /\ announces' = [announces EXCEPT ![n] = NextId]
      /\ announce' = [announce EXCEPT ![NextId] = "held"]
      /\ ToSubscriber("publish", NextId)
      /\ UNCHANGED <<ok, closed, announced, handle, toPub, session>>
  BY DEF IInv, StartAnnounce, subVars
<1>2. /\ namespace' \in Seq(Namespaces) /\ Len(namespace') <= MaxAnnounces
      /\ Made' = Made \cup {NextId} /\ NextId \notin Made
      /\ \A i \in Made : i \in Ids /\ i < NextId /\ namespace'[i] = namespace[i]
      /\ namespace'[NextId] = n
  BY <1>1, NamespaceGrows
<1>3. /\ toSub' \in Messages({"publish", "done"})
      /\ Len(toSub) \in Nat /\ Len(toSub') = Len(toSub) + 1
      /\ \A k \in 1..Len(toSub) : toSub'[k] = toSub[k]
      /\ toSub'[Len(toSub) + 1] = <<"publish", NextId>>
  BY <1>1, SubAppended
<1>4. handle[NextId] = "none" /\ closed[NextId] = "no"
  BY <1>1, <1>2 DEF IInv, MadeOnly
<1>5. TypeOK'
  BY <1>1, <1>2, <1>3 DEF TypeOK, Messages
<1>6. MadeOnly'
  BY <1>1, <1>2, <1>4 DEF IInv, TypeOK, MadeOnly
<1>7. EntryIsLatest'
  <2> SUFFICES ASSUME NEW m \in Namespaces, announces'[m] # None
               PROVE  /\ announces'[m] \in Made' /\ namespace'[announces'[m]] = m
                      /\ \A i \in Made' : namespace'[i] = m => i <= announces'[m]
    BY DEF EntryIsLatest
  <2>1. CASE m = n
    <3>1. announces'[m] = NextId
      BY <2>1, <1>1 DEF TypeOK
    <3>2. NextId \in Nat /\ \A i \in Made : i \in Nat
      BY <1>1, <1>2 DEF Ids
    <3>3. QED
      BY <1>2, <2>1, <3>1, <3>2
  <2>2. CASE m # n
    <3>1. announces'[m] = announces[m]
      BY <2>2, <1>1 DEF TypeOK
    <3>2. QED
      BY <1>2, <2>2, <3>1 DEF IInv, EntryIsLatest
  <2>3. QED
    BY <2>1, <2>2
<1>8. EntryIsOffered' /\ OnlyRejectedLinger'
  BY <1>1, <1>2 DEF IInv, EntryIsOffered, OnlyRejectedLinger
<1>9. SubMessages'
  <2>1. \A k \in 1..Len(toSub) : toSub'[k] = toSub[k] /\ toSub[k][2] \in Made
    BY <1>3 DEF IInv, SubMessages
  <2>2. \A k \in 1..Len(toSub') : k \in 1..Len(toSub) \/ k = Len(toSub) + 1
    BY <1>3
  <2>3. \A k \in 1..Len(toSub') : toSub'[k][2] \in Made'
    BY <1>2, <1>3, <2>1, <2>2
  <2>4. \A k \in 1..Len(toSub') : toSub'[k][1] = "publish" => handle'[toSub'[k][2]] = "none"
    BY <1>1, <1>3, <1>4, <2>1, <2>2 DEF IInv, SubMessages
  <2>5. ASSUME NEW k \in 1..Len(toSub'), NEW l \in 1..Len(toSub'), k < l,
               toSub'[l][1] = "publish"
        PROVE  toSub'[k][2] # toSub'[l][2]
    <3>1. k \in 1..Len(toSub)
      BY <1>3, <2>5
    <3>2. CASE l \in 1..Len(toSub)
      BY <2>1, <2>5, <3>1, <3>2 DEF IInv, SubMessages
    <3>3. CASE l = Len(toSub) + 1
      BY <1>2, <1>3, <2>1, <3>1, <3>3
    <3>4. QED
      BY <2>2, <3>2, <3>3
  <2>6. QED
    BY <2>3, <2>4, <2>5 DEF SubMessages
<1>10. PubMessages'
  BY <1>1, <1>2 DEF IInv, PubMessages
<1>11. \A kind, i : Sent(kind, i) => Sent(kind, i)'
  BY <1>3 DEF Sent
<1>12. PublishInFlight'
  <2>1. PICK new \in Ids : new = NextId
    BY <1>1
  <2>2. Sent("publish", new)'
    BY <1>3, <2>1 DEF Sent
  <2>3. QED
    BY <1>1, <1>2, <1>11, <2>1, <2>2 DEF IInv, PublishInFlight
<1>13. DoneInFlight'
  <2>1. \A i \in Made : announce'[i] = announce[i] /\ Active(i)' = Active(i)
    BY <1>1, <1>2 DEF TypeOK, Active
  <2>2. announce'[NextId] # "unannounced"
    BY <1>1 DEF TypeOK
  <2>3. QED
    BY <1>1, <1>2, <1>11, <2>1, <2>2 DEF IInv, DoneInFlight
<1>14. AnswerIsOwn'
  BY <1>1 DEF IInv, AnswerIsOwn
<1>15. CancelIsOfNamespace'
  <2> SUFFICES ASSUME NEW i \in Ids, closed'[i] = "cancelled"
               PROVE  \E j \in 1..i : namespace'[j] = namespace'[i] /\ handle'[j] = "cancelled"
    BY DEF CancelIsOfNamespace
  <2>1. i \in Made
    BY <1>1 DEF IInv, MadeOnly
  <2>2. PICK j \in 1..i : namespace[j] = namespace[i] /\ handle[j] = "cancelled"
    BY <1>1 DEF IInv, CancelIsOfNamespace
  <2>3. j \in Made
    BY <2>1, <2>2, <1>1 DEF Made, Ids, TypeOK
  <2>4. QED
    BY <1>1, <1>2, <2>1, <2>2, <2>3
<1>16. QED
  BY <1>5, <1>6, <1>7, <1>8, <1>9, <1>10, <1>12, <1>13, <1>14, <1>15 DEF IInv

LEMMA DropAnnounceKeeps ==
    ASSUME IInv, NEW i \in Ids, DropAnnounce(i) PROVE IInv'
<1>1. /\ announce[i] = "held" /\ announce' \in [Ids -> {"none", "held", "dropping",
                                          "forgotten", "unannounced", "ended"}]
      /\ announce'[i] \in {"dropping", "ended"}
      /\ announce'[i] = "ended" => closed[i] # "no"
      /\ \A j \in Ids : j # i => announce'[j] = announce[j]
      /\ UNCHANGED <<namespace, announces, ok, closed, announced, handle, toSub, toPub, session>>
  BY DEF IInv, TypeOK, DropAnnounce, subVars
<1>2. TypeOK'
  BY <1>1 DEF IInv, TypeOK
<1>3. MadeOnly'
  BY <1>1 DEF IInv, MadeOnly, Made
<1>4. DoneInFlight'
  <2>1. \A j \in Made : announce'[j] = "unannounced" => announce[j] = "unannounced"
    BY <1>1, MadeAreIds DEF IInv, TypeOK
  <2>2. QED
    BY <1>1, <2>1 DEF IInv, DoneInFlight, Made, Sent, Active
<1>5. EntryIsLatest' /\ EntryIsOffered' /\ OnlyRejectedLinger'
  BY <1>1 DEF IInv, EntryIsLatest, EntryIsOffered, OnlyRejectedLinger, Made
<1>6. SubMessages' /\ PubMessages' /\ PublishInFlight'
  BY <1>1 DEF IInv, SubMessages, PubMessages, PublishInFlight, Made, Sent
<1>7. AnswerIsOwn' /\ CancelIsOfNamespace'
  BY <1>1 DEF IInv, AnswerIsOwn, CancelIsOfNamespace
<1>8. QED
  BY <1>2, <1>3, <1>4, <1>5, <1>6, <1>7 DEF IInv

LEMMA ForgetAnnounceKeeps ==
    ASSUME IInv, NEW i \in Ids, ForgetAnnounce(i) PROVE IInv'
<1>1. /\ announce[i] = "dropping" /\ announce' = [announce EXCEPT ![i] = "forgotten"]
      /\ announces' = [announces EXCEPT ![namespace[i]] = None]
      /\ UNCHANGED <<namespace, ok, closed, announced, handle, toSub, toPub, session>>
  BY DEF ForgetAnnounce, subVars, Without
<1>2. /\ announces' \in [Namespaces -> Ids \cup {None}]
      /\ \A n \in Namespaces : announces'[n] = announces[n] \/ announces'[n] = None
  BY <1>1 DEF IInv, TypeOK
<1>3. /\ announce' \in [Ids -> {"none", "held", "dropping", "forgotten", "unannounced", "ended"}]
      /\ announce'[i] = "forgotten" /\ \A j \in Ids : j # i => announce'[j] = announce[j]
  BY <1>1 DEF IInv, TypeOK
<1>4. TypeOK'
  BY <1>1, <1>2, <1>3 DEF IInv, TypeOK
<1>5. MadeOnly'
  BY <1>1, <1>3 DEF IInv, MadeOnly, Made
<1>6. DoneInFlight'
  <2>1. \A j \in Made : announce'[j] = "unannounced" => announce[j] = "unannounced"
    BY <1>1, <1>3, MadeAreIds DEF IInv, TypeOK
  <2>2. QED
    BY <1>1, <2>1 DEF IInv, DoneInFlight, Made, Sent, Active
<1>7. EntryIsLatest'
  BY <1>1, <1>2 DEF IInv, EntryIsLatest, Made
<1>8. EntryIsOffered' /\ OnlyRejectedLinger'
  BY <1>1 DEF IInv, EntryIsOffered, OnlyRejectedLinger, Made
<1>9. SubMessages' /\ PubMessages' /\ PublishInFlight'
  BY <1>1 DEF IInv, SubMessages, PubMessages, PublishInFlight, Made, Sent
<1>10. AnswerIsOwn' /\ CancelIsOfNamespace'
  BY <1>1 DEF IInv, AnswerIsOwn, CancelIsOfNamespace
<1>11. QED
  BY <1>4, <1>5, <1>6, <1>7, <1>8, <1>9, <1>10 DEF IInv

LEMMA SendDoneKeeps ==
    ASSUME IInv, NEW i \in Ids, SendDone(i) PROVE IInv'
<1>1. /\ TypeOK /\ announce[i] = "forgotten" /\ announce' = [announce EXCEPT ![i] = "unannounced"]
      /\ ToSubscriber("done", i)
      /\ UNCHANGED <<namespace, announces, ok, closed, announced, handle, toPub, session>>
  BY DEF IInv, SendDone, subVars
<1>2. i \in Made
  BY <1>1 DEF IInv, MadeOnly
<1>3. /\ announce' \in [Ids -> {"none", "held", "dropping", "forgotten", "unannounced", "ended"}]
      /\ announce'[i] = "unannounced" /\ \A j \in Ids : j # i => announce'[j] = announce[j]
  BY <1>1 DEF TypeOK
<1>4. /\ toSub' \in Messages({"publish", "done"})
      /\ Len(toSub) \in Nat /\ Len(toSub') = Len(toSub) + 1
      /\ \A k \in 1..Len(toSub) : toSub'[k] = toSub[k]
      /\ toSub'[Len(toSub) + 1] = <<"done", i>>
  BY <1>1, SubAppended
<1>5. TypeOK'
  BY <1>1, <1>3, <1>4 DEF TypeOK
<1>6. MadeOnly'
  BY <1>1, <1>2, <1>3 DEF IInv, MadeOnly, Made
<1>7. \A kind, j : Sent(kind, j) => Sent(kind, j)'
  BY <1>4 DEF Sent
<1>8. PublishInFlight'
  BY <1>1, <1>7 DEF IInv, PublishInFlight, Made
<1>9. DoneInFlight'
  <2>1. Sent("done", i)'
    BY <1>4 DEF Sent
  <2>2. \A j \in Made : j # i => announce'[j] = announce[j]
    BY <1>1, <1>3, MadeAreIds DEF TypeOK
  <2>3. QED
    BY <1>1, <1>7, <2>1, <2>2 DEF IInv, DoneInFlight, Made, Active
<1>10. SubMessages'
  <2>1. \A k \in 1..Len(toSub') : k \in 1..Len(toSub) \/ (k = Len(toSub) + 1 /\ toSub'[k] = <<"done", i>>)
    BY <1>4
  <2>2. \A k \in 1..Len(toSub') : toSub'[k][2] \in Made'
    BY <1>1, <1>2, <1>4, <2>1 DEF IInv, SubMessages, Made
  <2>3. \A k \in 1..Len(toSub') : toSub'[k][1] = "publish" => k \in 1..Len(toSub)
    BY <2>1
  <2>4. QED
    BY <1>1, <1>4, <2>2, <2>3 DEF IInv, SubMessages
<1>11. EntryIsLatest' /\ EntryIsOffered' /\ OnlyRejectedLinger' /\ PubMessages'
  BY <1>1 DEF IInv, EntryIsLatest, EntryIsOffered, OnlyRejectedLinger, PubMessages, Made
<1>12. AnswerIsOwn' /\ CancelIsOfNamespace'
  BY <1>1 DEF IInv, AnswerIsOwn, CancelIsOfNamespace
<1>13. QED
  BY <1>5, <1>6, <1>8, <1>9, <1>10, <1>11, <1>12 DEF IInv

LEMMA RecvOkKeeps ==
    ASSUME IInv, NEW i \in Ids, RecvOk(i) PROVE IInv'
<1>1. /\ ToPubHead("ok", i)
      /\ ok' = [ok EXCEPT ![i] = ok[i] \/ Routed(i)]
      /\ UNCHANGED <<namespace, announces, announce, closed, announced, handle, toSub, session>>
  BY DEF RecvOk, subVars
<1>2. /\ toPub' \in Messages({"ok", "error", "cancel"})
      /\ 1 \in 1..Len(toPub) /\ toPub[1] = <<"ok", i>>
      /\ \A k \in 1..Len(toPub') : k + 1 \in 1..Len(toPub) /\ toPub'[k] = toPub[k + 1]
  BY <1>1, PubPopped DEF IInv
<1>3. ok[i] \in BOOLEAN /\ (ok[i] \/ Routed(i)) \in BOOLEAN
  BY DEF IInv, TypeOK, Routed
<1>4. ok' \in [Ids -> BOOLEAN] /\ \A j \in Ids : j # i => ok'[j] = ok[j]
  BY <1>1, <1>3 DEF IInv, TypeOK
<1>5. handle[i] \in {"accepted", "cancelling", "cancelled"}
  BY <1>2 DEF IInv, PubMessages
<1>6. AnswerIsOwn'
  BY <1>1, <1>4, <1>5 DEF IInv, AnswerIsOwn
<1>7. TypeOK'
  BY <1>1, <1>2, <1>4 DEF IInv, TypeOK
<1>8. MadeOnly' /\ EntryIsLatest' /\ EntryIsOffered' /\ OnlyRejectedLinger'
  BY <1>1 DEF IInv, MadeOnly, EntryIsLatest, EntryIsOffered, OnlyRejectedLinger, Made
<1>9. SubMessages' /\ PublishInFlight' /\ DoneInFlight'
  BY <1>1 DEF IInv, SubMessages, PublishInFlight, DoneInFlight, Made, Sent, Active
<1>10. PubMessages'
  BY <1>1, <1>2 DEF IInv, PubMessages, Made
<1>11. CancelIsOfNamespace'
  BY <1>1 DEF IInv, CancelIsOfNamespace
<1>12. QED
  BY <1>6, <1>7, <1>8, <1>9, <1>10, <1>11 DEF IInv

\* An error or a cancel of i has arrived, and closes the state of j or of nobody.
LEMMA ClosingKeeps ==
    ASSUME IInv, NEW kind \in {"error", "cancel"}, NEW i \in Ids, ToPubHead(kind, i),
           NEW j \in Ids, NEW error \in {"rejected", "cancelled"},
           CloseWith(j, error) \/ UNCHANGED <<announces, closed>>,
           UNCHANGED <<namespace, announce, ok, announced, handle, toSub, session>>,
           closed' # closed /\ error = "rejected" => handle[j] = "rejected",
           closed' # closed /\ error = "cancelled" =>
              \E h \in 1..j : namespace[h] = namespace[j] /\ handle[h] = "cancelled"
    PROVE  IInv'
<1>1. UNCHANGED <<namespace, announce, ok, announced, handle, toSub, session>>
  OBVIOUS
<1>2. /\ toPub' \in Messages({"ok", "error", "cancel"})
      /\ \A k \in 1..Len(toPub') : k + 1 \in 1..Len(toPub) /\ toPub'[k] = toPub[k + 1]
  BY PubPopped DEF IInv
<1>3. /\ announces' \in [Namespaces -> Ids \cup {None}]
      /\ \A n \in Namespaces : announces'[n] = announces[n] \/ announces'[n] = None
  BY DEF IInv, TypeOK, CloseWith, Without
<1>4. \/ closed' = closed
      \/ /\ announce[j] \in {"held", "dropping", "forgotten"}
         /\ closed' = [closed EXCEPT ![j] = error]
         /\ closed[j] = "no"
  BY DEF CloseWith
<1>5. /\ closed' \in [Ids -> {"no", "rejected", "cancelled"}]
      /\ \A h \in Ids : closed'[h] = closed[h] \/ (h = j /\ closed'[h] = error /\ closed' # closed)
  BY <1>4 DEF IInv, TypeOK
<1>6. TypeOK'
  BY <1>1, <1>2, <1>3, <1>5 DEF IInv, TypeOK
<1>7. MadeOnly'
  BY <1>1, <1>4, <1>5 DEF IInv, MadeOnly, TypeOK, Made
<1>8. EntryIsLatest'
  BY <1>1, <1>3 DEF IInv, EntryIsLatest, Made
<1>9. EntryIsOffered' /\ OnlyRejectedLinger'
  BY <1>1 DEF IInv, EntryIsOffered, OnlyRejectedLinger, Made
<1>10. SubMessages' /\ PublishInFlight' /\ DoneInFlight'
  <2>1. SubMessages'
    BY <1>1 DEF IInv, SubMessages, Made
  <2>2. PublishInFlight'
    BY <1>1 DEF IInv, PublishInFlight, Made, Sent
  <2>3. DoneInFlight'
    BY <1>1 DEF IInv, DoneInFlight, Made, Sent, Active
  <2>4. QED
    BY <2>1, <2>2, <2>3
<1>11. PubMessages'
  BY <1>1, <1>2 DEF IInv, PubMessages, Made
<1>12. AnswerIsOwn'
  BY <1>1, <1>5 DEF IInv, AnswerIsOwn
<1>13. CancelIsOfNamespace'
  BY <1>1, <1>5 DEF IInv, CancelIsOfNamespace
<1>14. QED
  BY <1>6, <1>7, <1>8, <1>9, <1>10, <1>11, <1>12, <1>13 DEF IInv

LEMMA RecvErrorKeeps ==
    ASSUME IInv, NEW i \in Ids, RecvError(i) PROVE IInv'
<1>1. /\ ToPubHead("error", i)
      /\ CloseWith(i, "rejected") \/ UNCHANGED <<announces, closed>>
      /\ UNCHANGED <<namespace, announce, ok, announced, handle, toSub, session>>
  BY DEF RecvError, subVars
<1>2. handle[i] = "rejected"
  BY <1>1, PubPopped DEF IInv, PubMessages
<1>3. QED
  BY <1>1, <1>2, ClosingKeeps

LEMMA RecvCancelKeeps ==
    ASSUME IInv, NEW i \in Ids, RecvCancel(i) PROVE IInv'
<1>1. /\ ToPubHead("cancel", i)
      /\ UNCHANGED <<namespace, announce, ok, announced, handle, toSub, session>>
  BY DEF RecvCancel, subVars
<1>2. i \in Made /\ handle[i] = "cancelled"
  BY <1>1, PubPopped DEF IInv, PubMessages
<1>3. namespace[i] \in Namespaces
  BY <1>2 DEF IInv, TypeOK, Made
<1>4. CASE announces[namespace[i]] = None
  <2>1. UNCHANGED <<announces, closed>>
    BY <1>4 DEF RecvCancel
  <2>2. QED
    BY <1>1, <2>1, ClosingKeeps
<1>5. CASE announces[namespace[i]] # None
  <2>1. PICK j \in Ids : j = announces[namespace[i]]
    BY <1>3, <1>5 DEF IInv, TypeOK
  <2>2. CloseWith(j, "cancelled")
    BY <1>5, <2>1 DEF RecvCancel
  <2>3. namespace[i] = namespace[j] /\ i <= j
    BY <1>2, <1>3, <1>5, <2>1 DEF IInv, EntryIsLatest
  <2>4. i \in 1..j
    BY <2>3 DEF Ids
  <2>5. \E h \in 1..j : namespace[h] = namespace[j] /\ handle[h] = "cancelled"
    BY <1>2, <2>3, <2>4
  <2>6. QED
    BY <1>1, <2>2, <2>5, ClosingKeeps
<1>6. QED
  BY <1>4, <1>5

-----------------------------------------------------------------------------
(* The subscriber's steps. *)

\* What is left behind a message on its way to the subscriber is still in order, and
\* what follows the message is not its publish.
LEMMA SubPoppedOrder ==
    ASSUME TypeOK, SubMessages, NEW kind, NEW i \in Ids, ToSubHead(kind, i)
    PROVE  /\ \A k, l \in 1..Len(toSub') :
                k < l /\ toSub'[l][1] = "publish" => toSub'[k][2] # toSub'[l][2]
           /\ \A k \in 1..Len(toSub') : toSub'[k][1] = "publish" => toSub'[k][2] # i
<1>1. /\ 1 \in 1..Len(toSub) /\ toSub[1] = <<kind, i>>
      /\ \A k \in 1..Len(toSub') : k + 1 \in 1..Len(toSub) /\ toSub'[k] = toSub[k + 1]
  BY SubPopped
<1>2. ASSUME NEW k \in 1..Len(toSub'), NEW l \in 1..Len(toSub'), k < l,
             toSub'[l][1] = "publish"
      PROVE  toSub'[k][2] # toSub'[l][2]
  <2>1. k + 1 < l + 1
    BY <1>2
  <2>2. toSub[l + 1][1] = "publish"
    BY <1>1, <1>2
  <2>3. toSub[k + 1][2] # toSub[l + 1][2]
    BY <1>1, <2>1, <2>2 DEF SubMessages
  <2>4. QED
    BY <1>1, <2>3
<1>3. ASSUME NEW k \in 1..Len(toSub'), toSub'[k][1] = "publish" PROVE toSub'[k][2] # i
  <2>1. 1 < k + 1 /\ toSub[k + 1][1] = "publish"
    BY <1>1, <1>3
  <2>2. toSub[1][2] # toSub[k + 1][2]
    BY <1>1, <2>1 DEF SubMessages
  <2>3. QED
    BY <1>1, <2>2
<1>4. QED
  BY <1>2, <1>3

LEMMA RecvPublishKeeps ==
    ASSUME IInv, NEW i \in Ids, RecvPublish(i) PROVE IInv'
<1>1. /\ TypeOK /\ ToSubHead("publish", i) /\ session = "open"
      /\ UNCHANGED <<namespace, announces, announce, ok, closed, toPub>>
  BY DEF IInv, RecvPublish, pubVars, ToSubHead
<1>2. /\ toSub' \in Messages({"publish", "done"})
      /\ 1 \in 1..Len(toSub) /\ toSub[1] = <<"publish", i>>
      /\ \A k \in 1..Len(toSub') : k + 1 \in 1..Len(toSub) /\ toSub'[k] = toSub[k + 1]
      /\ \A k \in 1..Len(toSub) : k # 1 => k - 1 \in 1..Len(toSub') /\ toSub'[k - 1] = toSub[k]
  BY <1>1, SubPopped
<1>3. i \in Made /\ handle[i] = "none" /\ namespace[i] \in Namespaces
  BY <1>2 DEF IInv, SubMessages, Made, TypeOK
<1>4. EntryIsLatest'
  BY <1>1 DEF IInv, EntryIsLatest, Made
<1>5. CASE announced[namespace[i]] = None
  <2>1. /\ announced' = [announced EXCEPT ![namespace[i]] = i]
        /\ handle' = [handle EXCEPT ![i] = "offered"]
        /\ session' = session
    BY <1>5 DEF RecvPublish
  <2>2. /\ handle'[i] = "offered" /\ \A j \in Ids : j # i => handle'[j] = handle[j]
        /\ announced'[namespace[i]] = i
        /\ \A n \in Namespaces : n # namespace[i] => announced'[n] = announced[n]
    BY <1>3, <2>1 DEF IInv, TypeOK
  <2>3. TypeOK'
    BY <1>1, <1>2, <2>1 DEF TypeOK
  <2>4. MadeOnly'
    BY <1>1, <1>3, <2>2 DEF IInv, MadeOnly, Made
  <2>5. EntryIsOffered'
    BY <1>1, <1>3, <2>2 DEF IInv, EntryIsOffered, Made
  <2>6. OnlyRejectedLinger'
    BY <2>2, MadeAreIds, <1>1 DEF IInv, OnlyRejectedLinger, EntryIsOffered
  <2>7. \A k \in 1..Len(toSub') : toSub'[k][2] # i \/ toSub'[k][1] # "publish"
    BY <1>1, SubPoppedOrder DEF IInv
  <2>8. SubMessages'
    <3>1. \A k \in 1..Len(toSub') : toSub'[k][2] \in Made'
      BY <1>1, <1>2 DEF IInv, SubMessages, Made
    <3>2. \A k \in 1..Len(toSub') : toSub'[k][1] = "publish" => handle'[toSub'[k][2]] = "none"
      <4>1. \A k \in 1..Len(toSub') : toSub'[k][2] \in Ids
        BY <1>1, <3>1, MadeAreIds DEF Made
      <4>2. QED
        BY <1>2, <2>2, <2>7, <4>1 DEF IInv, SubMessages
    <3>3. \A k, l \in 1..Len(toSub') :
            k < l /\ toSub'[l][1] = "publish" => toSub'[k][2] # toSub'[l][2]
      BY <1>1, SubPoppedOrder DEF IInv
    <3>4. QED
      BY <3>1, <3>2, <3>3 DEF SubMessages
  <2>9. PubMessages'
    <3>1. \A k \in 1..Len(toPub) : toPub[k][2] \in Ids
      BY <1>1, MadeAreIds DEF IInv, PubMessages
    <3>2. \A k \in 1..Len(toPub) : toPub[k] \in {"ok", "error", "cancel"} \X Ids
      BY <1>1 DEF TypeOK, Messages
    <3>3. \A k \in 1..Len(toPub) : toPub[k][2] # i
      BY <1>3, <3>2 DEF IInv, PubMessages
    <3>4. QED
      BY <1>1, <2>2, <3>1, <3>3 DEF IInv, PubMessages, Made
  <2>10. \A kind, j : Sent(kind, j) /\ <<kind, j>> # <<"publish", i>> => Sent(kind, j)'
    BY <1>2 DEF Sent
  <2>11. PublishInFlight'
    <3>1. SUFFICES ASSUME NEW j \in Made, handle'[j] = "none" PROVE Sent("publish", j)'
      BY <1>1 DEF PublishInFlight, Made
    <3>2. j # i /\ handle[j] = "none"
      BY <1>1, <2>2, <3>1, MadeAreIds
    <3>3. Sent("publish", j)
      BY <1>1, <3>2 DEF IInv, PublishInFlight
    <3>4. QED
      BY <2>10, <3>2, <3>3
  <2>12. DoneInFlight'
    <3>1. SUFFICES ASSUME NEW j \in Made, announce[j] = "unannounced"
                   PROVE  Sent("done", j)' \/ (handle'[j] # "none" /\ ~Active(j)')
      BY <1>1 DEF DoneInFlight, Made
    <3>2. CASE Sent("done", j)
      BY <2>10, <3>2
    <3>3. CASE handle[j] # "none" /\ ~Active(j)
      <4>1. j # i /\ handle'[j] # "none" /\ namespace[j] \in Namespaces
        BY <1>1, <1>3, <2>2, <3>3, MadeAreIds DEF TypeOK, Made
      <4>2. announced'[namespace[j]] # j
        BY <2>2, <3>3, <4>1 DEF Active
      <4>3. QED
        BY <1>1, <4>1, <4>2 DEF Active
    <3>4. QED
      BY <1>1, <3>1, <3>2, <3>3 DEF IInv, DoneInFlight
  <2>13. AnswerIsOwn' /\ CancelIsOfNamespace'
    <3>1. AnswerIsOwn'
      BY <1>1, <1>3, <2>2 DEF IInv, AnswerIsOwn
    <3>2. \A j \in Ids : handle[j] = "cancelled" => handle'[j] = "cancelled"
      BY <1>3, <2>2
    <3>3. \A j \in Ids : \A h \in 1..j : h \in Ids
      BY AnnounceAssumption DEF Ids, AnnounceAssumption
    <3>4. CancelIsOfNamespace'
      BY <1>1, <3>2, <3>3 DEF IInv, CancelIsOfNamespace
    <3>5. QED
      BY <3>1, <3>4
  <2>14. QED
    BY <1>4, <2>3, <2>4, <2>5, <2>6, <2>8, <2>9, <2>11, <2>12, <2>13 DEF IInv
<1>6. CASE announced[namespace[i]] # None
  <2>1. session' = "duplicate" /\ UNCHANGED <<announced, handle>>
    BY <1>6 DEF RecvPublish, subVars
  <2>2. TypeOK'
    BY <1>1, <1>2, <2>1 DEF TypeOK
  <2>3. MadeOnly' /\ EntryIsOffered' /\ OnlyRejectedLinger'
    BY <1>1, <2>1 DEF IInv, MadeOnly, EntryIsOffered, OnlyRejectedLinger, Made
  <2>4. SubMessages'
    <3>1. \A k, l \in 1..Len(toSub') :
            k < l /\ toSub'[l][1] = "publish" => toSub'[k][2] # toSub'[l][2]
      BY <1>1, SubPoppedOrder DEF IInv
    <3>2. \A k \in 1..Len(toSub') : toSub'[k][2] \in Made'
      BY <1>1, <1>2 DEF IInv, SubMessages, Made
    <3>3. \A k \in 1..Len(toSub') :
            toSub'[k][1] = "publish" => handle'[toSub'[k][2]] = "none"
      BY <1>2, <2>1 DEF IInv, SubMessages
    <3>4. QED
      BY <3>1, <3>2, <3>3 DEF SubMessages
  <2>5. PubMessages' /\ PublishInFlight' /\ DoneInFlight'
    BY <1>1, <2>1 DEF IInv, PubMessages, PublishInFlight, DoneInFlight, Made
  <2>6. AnswerIsOwn' /\ CancelIsOfNamespace'
    BY <1>1, <2>1 DEF IInv, AnswerIsOwn, CancelIsOfNamespace
  <2>7. QED
    BY <1>4, <2>2, <2>3, <2>4, <2>5, <2>6 DEF IInv
<1>7. QED
  BY <1>5, <1>6

LEMMA RecvDoneKeeps ==
    ASSUME IInv, NEW i \in Ids, RecvDone(i) PROVE IInv'
<1>1. /\ TypeOK /\ ToSubHead("done", i) /\ session = "open"
      /\ announced' = [announced EXCEPT ![namespace[i]] = None]
      /\ UNCHANGED <<namespace, announces, announce, ok, closed, handle, toPub, session>>
  BY DEF IInv, RecvDone, pubVars, ToSubHead, Without
<1>2. /\ toSub' \in Messages({"publish", "done"})
      /\ 1 \in 1..Len(toSub) /\ toSub[1] = <<"done", i>>
      /\ \A k \in 1..Len(toSub') : k + 1 \in 1..Len(toSub) /\ toSub'[k] = toSub[k + 1]
      /\ \A k \in 1..Len(toSub) : k # 1 => k - 1 \in 1..Len(toSub') /\ toSub'[k - 1] = toSub[k]
  BY <1>1, SubPopped
<1>3. i \in Made /\ namespace[i] \in Namespaces
  BY <1>2 DEF IInv, SubMessages, Made, TypeOK
<1>4. /\ announced'[namespace[i]] = None
      /\ \A n \in Namespaces : announced'[n] = announced[n] \/ announced'[n] = None
  BY <1>1, <1>3 DEF TypeOK
<1>5. TypeOK'
  BY <1>1, <1>2 DEF TypeOK
<1>6. MadeOnly' /\ EntryIsLatest' /\ PubMessages'
  BY <1>1 DEF IInv, MadeOnly, EntryIsLatest, PubMessages, Made
<1>7. EntryIsOffered' /\ OnlyRejectedLinger'
  BY <1>1, <1>4 DEF IInv, EntryIsOffered, OnlyRejectedLinger, Made
<1>8. SubMessages'
  <2>1. \A k, l \in 1..Len(toSub') :
          k < l /\ toSub'[l][1] = "publish" => toSub'[k][2] # toSub'[l][2]
    BY <1>1, SubPoppedOrder DEF IInv
  <2>2. \A k \in 1..Len(toSub') : toSub'[k][2] \in Made'
    BY <1>1, <1>2 DEF IInv, SubMessages, Made
  <2>3. \A k \in 1..Len(toSub') :
          toSub'[k][1] = "publish" => handle'[toSub'[k][2]] = "none"
    BY <1>1, <1>2 DEF IInv, SubMessages
  <2>4. QED
    BY <2>1, <2>2, <2>3 DEF SubMessages
<1>9. \A kind, j : Sent(kind, j) /\ <<kind, j>> # <<"done", i>> => Sent(kind, j)'
  BY <1>2 DEF Sent
<1>10. PublishInFlight'
  BY <1>1, <1>9 DEF IInv, PublishInFlight, Made
<1>11. handle[i] # "none"
  <2>1. \A k \in 1..Len(toSub) : toSub[k] # <<"publish", i>>
    BY <1>2 DEF IInv, SubMessages
  <2>2. ~Sent("publish", i)
    BY <2>1 DEF Sent
  <2>3. QED
    BY <1>1, <1>3, <2>2 DEF IInv, PublishInFlight
<1>12. DoneInFlight'
  <2>1. SUFFICES ASSUME NEW j \in Made, announce[j] = "unannounced"
                 PROVE  Sent("done", j)' \/ (handle[j] # "none" /\ ~Active(j)')
    BY <1>1 DEF DoneInFlight, Made
  <2>2. j \in Nat \ {0} /\ namespace[j] \in Namespaces
    BY <1>1 DEF Made, TypeOK
  <2>3. CASE j = i
    BY <1>1, <1>4, <1>11, <2>2, <2>3 DEF Active, None
  <2>4. CASE j # i /\ Sent("done", j)
    BY <1>9, <2>4
  <2>5. CASE handle[j] # "none" /\ ~Active(j)
    BY <1>1, <1>4, <2>2, <2>5 DEF Active, None
  <2>6. QED
    BY <1>1, <2>1, <2>3, <2>4, <2>5 DEF IInv, DoneInFlight
<1>13. AnswerIsOwn' /\ CancelIsOfNamespace'
  BY <1>1 DEF IInv, AnswerIsOwn, CancelIsOfNamespace
<1>14. QED
  BY <1>5, <1>6, <1>7, <1>8, <1>10, <1>12, <1>13 DEF IInv

\* The application accepts, rejects or drops an Announced: what is left as it was.
Moves == {<<"offered", "accepted">>, <<"offered", "rejected">>,
          <<"accepted", "cancelling">>, <<"cancelling", "cancelled">>}

LEMMA HandleMoves ==
    ASSUME IInv, NEW i \in Ids, NEW from, NEW to, <<from, to>> \in Moves, SetHandle(i, from, to),
           announced' \in [Namespaces -> Ids \cup {None}],
           \A n \in Namespaces : announced'[n] = announced[n] \/ announced'[n] = None,
           to = "cancelling" /\ i \in Made => announced'[namespace[i]] # i,
           toPub' \in Messages({"ok", "error", "cancel"}),
           \A k \in 1..Len(toPub') :
              \/ k \in 1..Len(toPub) /\ toPub'[k] = toPub[k]
              \/ toPub'[k] = <<"ok", i>> /\ to = "accepted"
              \/ toPub'[k] = <<"error", i>> /\ to = "rejected"
              \/ toPub'[k] = <<"cancel", i>> /\ to = "cancelled",
           UNCHANGED <<namespace, announces, announce, ok, closed, toSub, session>>
    PROVE  IInv'
<1>1. UNCHANGED <<namespace, announces, announce, ok, closed, toSub, session>>
  OBVIOUS
<1>2. /\ handle[i] = from /\ handle' = [handle EXCEPT ![i] = to]
      /\ from # "none" /\ to # "none"
      /\ from = "offered" => to \in {"accepted", "rejected"}
      /\ from = "accepted" => to = "cancelling"
      /\ from = "cancelling" => to = "cancelled"
      /\ from \in {"offered", "accepted", "cancelling"}
      /\ to \in {"accepted", "rejected", "cancelling", "cancelled"}
  BY DEF Moves, SetHandle
<1>3. /\ handle'[i] = to /\ \A j \in Ids : j # i => handle'[j] = handle[j]
      /\ handle' \in [Ids -> {"none", "offered", "accepted", "rejected",
                              "cancelling", "cancelled"}]
  BY <1>2 DEF IInv, TypeOK
<1>4. i \in Made
  BY <1>2 DEF IInv, MadeOnly
<1>5. TypeOK'
  BY <1>1, <1>3 DEF IInv, TypeOK
<1>6. MadeOnly'
  BY <1>1, <1>3, <1>4 DEF IInv, MadeOnly, Made
<1>7. EntryIsLatest'
  BY <1>1 DEF IInv, EntryIsLatest, Made
<1>8. EntryIsOffered'
  BY <1>1 DEF IInv, EntryIsOffered, Made
<1>9. OnlyRejectedLinger'
  <2> SUFFICES ASSUME NEW n \in Namespaces, announced'[n] # None
               PROVE  handle'[announced'[n]] \notin {"none", "cancelling", "cancelled"}
    BY DEF OnlyRejectedLinger
  <2>1. announced'[n] = announced[n] /\ announced[n] \in Ids /\ namespace[announced[n]] = n
    BY DEF IInv, TypeOK, EntryIsOffered
  <2>2. handle[announced[n]] \notin {"none", "cancelling", "cancelled"}
    BY <2>1 DEF IInv, OnlyRejectedLinger
  <2>3. CASE announced[n] # i
    BY <1>3, <2>1, <2>2, <2>3
  <2>4. CASE announced[n] = i
    <3>1. to # "cancelling"
      BY <1>4, <2>1, <2>4
    <3>2. from # "cancelling"
      BY <1>2, <2>2, <2>4
    <3>3. QED
      BY <1>2, <1>3, <2>1, <2>4, <3>1, <3>2
  <2>5. QED
    BY <2>3, <2>4
<1>10. SubMessages'
  <2>1. \A k \in 1..Len(toSub) : toSub[k][1] = "publish" => handle'[toSub[k][2]] = "none"
    <3>1. \A k \in 1..Len(toSub) : toSub[k][2] \in Ids
      BY MadeAreIds DEF IInv, SubMessages
    <3>2. QED
      BY <1>2, <1>3, <3>1 DEF IInv, SubMessages
  <2>2. QED
    BY <1>1, <2>1 DEF IInv, SubMessages, Made
<1>11. PubMessages'
  <2> SUFFICES ASSUME NEW k \in 1..Len(toPub')
               PROVE  /\ toPub'[k][2] \in Made
                      /\ toPub'[k][1] = "ok" =>
                           handle'[toPub'[k][2]] \in {"accepted", "cancelling", "cancelled"}
                      /\ toPub'[k][1] = "error" => handle'[toPub'[k][2]] = "rejected"
                      /\ toPub'[k][1] = "cancel" => handle'[toPub'[k][2]] = "cancelled"
    BY <1>1 DEF PubMessages, Made
  <2>1. CASE k \in 1..Len(toPub) /\ toPub'[k] = toPub[k]
    <3>1. toPub[k][2] \in Ids
      BY <2>1, MadeAreIds DEF IInv, PubMessages
    <3>2. CASE toPub[k][2] = i
      BY <1>2, <1>3, <2>1, <3>2 DEF IInv, PubMessages
    <3>3. CASE toPub[k][2] # i
      BY <1>3, <2>1, <3>1, <3>3 DEF IInv, PubMessages
    <3>4. QED
      BY <3>2, <3>3
  <2>2. CASE ~(k \in 1..Len(toPub) /\ toPub'[k] = toPub[k])
    <3>1. toPub'[k] \in {<<"ok", i>>, <<"error", i>>, <<"cancel", i>>}
      BY <2>2
    <3>2. CASE toPub'[k] = <<"ok", i>>
      BY <1>3, <1>4, <2>2, <3>2
    <3>3. CASE toPub'[k] = <<"error", i>>
      BY <1>3, <1>4, <2>2, <3>3
    <3>4. CASE toPub'[k] = <<"cancel", i>>
      BY <1>3, <1>4, <2>2, <3>4
    <3>5. QED
      BY <3>1, <3>2, <3>3, <3>4
  <2>3. QED
    BY <2>1, <2>2
<1>12. PublishInFlight'
  <2>1. \A j \in Made : handle'[j] = "none" => handle[j] = "none"
    BY <1>2, <1>3, MadeAreIds DEF IInv
  <2>2. QED
    BY <1>1, <2>1 DEF IInv, PublishInFlight, Made, Sent
<1>13. DoneInFlight'
  <2>1. \A j \in Made : handle[j] # "none" => handle'[j] # "none"
    BY <1>2, <1>3, MadeAreIds DEF IInv
  <2>2. \A j \in Made : ~Active(j) => ~Active(j)'
    <3>1. \A j \in Made : j # None /\ namespace[j] \in Namespaces
      BY DEF IInv, TypeOK, Made, None
    <3>2. QED
      BY <1>1, <3>1 DEF Active
  <2>3. QED
    BY <1>1, <2>1, <2>2 DEF IInv, DoneInFlight, Made, Sent
<1>14. AnswerIsOwn'
  BY <1>1, <1>2, <1>3 DEF IInv, AnswerIsOwn
<1>15. CancelIsOfNamespace'
  <2>1. \A j \in Ids : handle[j] = "cancelled" => handle'[j] = "cancelled"
    BY <1>2, <1>3
  <2>2. \A j \in Ids : \A h \in 1..j : h \in Ids
    BY AnnounceAssumption DEF Ids, AnnounceAssumption
  <2>3. QED
    BY <1>1, <2>1, <2>2 DEF IInv, CancelIsOfNamespace
<1>16. QED
  BY <1>5, <1>6, <1>7, <1>8, <1>9, <1>10, <1>11, <1>12, <1>13, <1>14, <1>15 DEF IInv

\* The messages to the publisher after one was added.
LEMMA PubGrown ==
    ASSUME TypeOK, NEW kind \in {"ok", "error", "cancel"}, NEW i \in Ids, ToPublisher(kind, i)
    PROVE  /\ toPub' \in Messages({"ok", "error", "cancel"})
           /\ \A k \in 1..Len(toPub') :
                \/ k \in 1..Len(toPub) /\ toPub'[k] = toPub[k]
                \/ toPub'[k] = <<kind, i>>
<1>1. \A k \in 1..Len(toPub') : k \in 1..Len(toPub) \/ k = Len(toPub) + 1
  BY PubAppended
<1>2. QED
  BY <1>1, PubAppended

LEMMA AnsweringKeeps ==
    ASSUME IInv, NEW i \in Ids, Answering(i) PROVE IInv'
<1>1. TypeOK /\ announced \in [Namespaces -> Ids \cup {None}]
  BY DEF IInv, TypeOK
<1>2. CASE Accept(i)
  <2>1. /\ SetHandle(i, "offered", "accepted") /\ ToPublisher("ok", i)
        /\ UNCHANGED <<namespace, announces, announce, ok, closed, announced, toSub, session>>
    BY <1>2 DEF Accept, pubVars
  <2>2. <<"offered", "accepted">> \in Moves
    BY DEF Moves
  <2>3. QED
    BY <1>1, <2>1, <2>2, PubGrown, HandleMoves
<1>3. CASE Reject(i)
  <2>1. /\ SetHandle(i, "offered", "rejected") /\ ToPublisher("error", i)
        /\ UNCHANGED <<namespace, announces, announce, ok, closed, announced, toSub, session>>
    BY <1>3 DEF Reject, pubVars
  <2>2. <<"offered", "rejected">> \in Moves
    BY DEF Moves
  <2>3. QED
    BY <1>1, <2>1, <2>2, PubGrown, HandleMoves
<1>4. QED
  BY <1>2, <1>3 DEF Answering

LEMMA LeavingKeeps ==
    ASSUME IInv, NEW i \in Ids, Leaving(i) PROVE IInv'
<1>1. TypeOK /\ announced \in [Namespaces -> Ids \cup {None}] /\ toPub \in Messages({"ok", "error", "cancel"})
  BY DEF IInv, TypeOK
<1>2. CASE Cancel(i)
  <2>1. /\ SetHandle(i, "accepted", "cancelling")
        /\ announced' = [announced EXCEPT ![namespace[i]] = None]
        /\ UNCHANGED <<namespace, announces, announce, ok, closed, toSub, toPub, session>>
    BY <1>2 DEF Cancel, pubVars, Without
  <2>2. /\ announced' \in [Namespaces -> Ids \cup {None}]
        /\ \A n \in Namespaces : announced'[n] = announced[n] \/ announced'[n] = None
    BY <1>1, <2>1
  <2>3. i \in Made => announced'[namespace[i]] # i
    <3>1. i \in Made => namespace[i] \in Namespaces
      BY <1>1 DEF TypeOK, Made
    <3>2. i # None
      BY DEF Ids, None
    <3>3. QED
      BY <1>1, <2>1, <3>1, <3>2
  <2>4. <<"accepted", "cancelling">> \in Moves
    BY DEF Moves
  <2>5. QED
    BY <1>1, <2>1, <2>2, <2>3, <2>4, HandleMoves
<1>3. CASE SendCancel(i)
  <2>1. /\ SetHandle(i, "cancelling", "cancelled") /\ ToPublisher("cancel", i)
        /\ UNCHANGED <<namespace, announces, announce, ok, closed, announced, toSub, session>>
    BY <1>3 DEF SendCancel, pubVars
  <2>2. <<"cancelling", "cancelled">> \in Moves
    BY DEF Moves
  <2>3. QED
    BY <1>1, <2>1, <2>2, PubGrown, HandleMoves
<1>4. QED
  BY <1>2, <1>3 DEF Leaving

-----------------------------------------------------------------------------
LEMMA StutterKeeps == ASSUME IInv, UNCHANGED vars PROVE IInv'
<1>1. UNCHANGED <<namespace, announces, announce, ok, closed, announced, handle, toSub,
                  toPub, session>>
  BY DEF vars, pubVars, subVars
<1>2. TypeOK' /\ MadeOnly' /\ EntryIsLatest' /\ EntryIsOffered' /\ OnlyRejectedLinger'
  BY <1>1 DEF IInv, TypeOK, MadeOnly, EntryIsLatest, EntryIsOffered, OnlyRejectedLinger, Made
<1>3. SubMessages' /\ PubMessages'
  BY <1>1 DEF IInv, SubMessages, PubMessages, Made
<1>4. PublishInFlight' /\ DoneInFlight'
  BY <1>1 DEF IInv, PublishInFlight, DoneInFlight, Made, Sent, Active
<1>5. AnswerIsOwn' /\ CancelIsOfNamespace'
  BY <1>1 DEF IInv, AnswerIsOwn, CancelIsOfNamespace
<1>6. QED
  BY <1>2, <1>3, <1>4, <1>5 DEF IInv

LEMMA StepKeeps == ASSUME IInv, [Next]_vars PROVE IInv'
<1>1. ASSUME NEW n \in Namespaces, StartAnnounce(n) PROVE IInv'
  BY <1>1, StartAnnounceKeeps
<1>2. ASSUME NEW i \in Ids, Announcing(i) PROVE IInv'
  BY <1>2, DropAnnounceKeeps, ForgetAnnounceKeeps, SendDoneKeeps DEF Announcing
<1>3. ASSUME NEW i \in Ids, PublisherRecv(i) PROVE IInv'
  BY <1>3, RecvOkKeeps, RecvErrorKeeps, RecvCancelKeeps DEF PublisherRecv
<1>4. ASSUME NEW i \in Ids, SubscriberRecv(i) PROVE IInv'
  BY <1>4, RecvPublishKeeps, RecvDoneKeeps DEF SubscriberRecv
<1>5. ASSUME NEW i \in Ids, Answering(i) \/ Leaving(i) PROVE IInv'
  BY <1>5, AnsweringKeeps, LeavingKeeps
<1>6. QED
  BY <1>1, <1>2, <1>3, <1>4, <1>5, StutterKeeps DEF Next, Step

\* The inductive invariant: what is on its way between the two ends agrees with what
\* each of them has done (session/publisher.rs, session/subscriber.rs).
THEOREM InvariantHolds == Spec => []IInv
<1>1. Init => IInv
  BY InitIInv, AnnounceAssumption
<1>2. IInv /\ [Next]_vars => IInv'
  BY StepKeeps
<1>3. QED
  BY <1>1, <1>2, PTL DEF Spec

\* The type invariant of both ends of the session.
THEOREM TypeCorrect == Spec => []TypeOK
<1>1. IInv => TypeOK
  BY DEF IInv
<1>2. QED
  BY <1>1, InvariantHolds, PTL

\* No announcement takes the answer to another one of its namespace for its own
\* (publisher.rs:261, 278), however many were announced, dropped and announced again.
THEOREM AnswersAreOwn == Spec => []AnswerIsOwn
<1>1. IInv => AnswerIsOwn
  BY DEF IInv
<1>2. QED
  BY <1>1, InvariantHolds, PTL

\* A cancel closes an announcement only if it is of that namespace and was sent for it
\* or for one before it (publisher.rs:304).
THEOREM CancelsStayInNamespace == Spec => []CancelIsOfNamespace
<1>1. IInv => CancelIsOfNamespace
  BY DEF IInv
<1>2. QED
  BY <1>1, InvariantHolds, PTL

\* The subscriber's map keeps no announcement that was accepted and dropped
\* (subscriber.rs:148): only rejected ones linger.
THEOREM RejectedAloneLinger == Spec => []OnlyRejectedLinger
<1>1. IInv => OnlyRejectedLinger
  BY DEF IInv
<1>2. QED
  BY <1>1, InvariantHolds, PTL

LEMMA DuplicateStep ==
    ASSUME IInv, [Next]_vars, session' # session
    PROVE  LET old == announced[namespace[Head(toSub)[2]]]
           IN  \/ handle[old] = "rejected"
               \/ closed[old] = "cancelled"
               \/ DoneToCome(old)
<1>1. PICK i \in Ids : RecvPublish(i)
  BY DEF Next, Step, Announcing, DropAnnounce, ForgetAnnounce, SendDone, PublisherRecv,
         RecvOk, RecvError, RecvCancel, SubscriberRecv, RecvDone, Answering, Accept, Reject,
         Leaving, Cancel, SendCancel, StartAnnounce, vars
<1>2. /\ session = "open" /\ Head(toSub) = <<"publish", i>>
      /\ announced[namespace[i]] # None
  BY <1>1 DEF RecvPublish, ToSubHead
<1>3. i \in Made /\ namespace[i] \in Namespaces
  BY <1>1, SubPopped DEF IInv, RecvPublish, SubMessages, Made, TypeOK
<1>4. PICK old \in Ids : old = announced[namespace[Head(toSub)[2]]]
  BY <1>2, <1>3 DEF IInv, TypeOK
<1>5. old \in Made /\ namespace[old] = namespace[i] /\ Active(old)
  BY <1>2, <1>3, <1>4 DEF IInv, EntryIsOffered, Active
<1>6. announce[old] \in {"held", "dropping", "forgotten", "unannounced", "ended"}
  BY <1>5 DEF IInv, MadeOnly, TypeOK
<1>7. CASE announce[old] \in {"held", "dropping", "forgotten"}
  BY <1>4, <1>7 DEF DoneToCome
<1>8. CASE announce[old] = "ended"
  <2>1. closed[old] \in {"rejected", "cancelled"}
    BY <1>8 DEF IInv, MadeOnly, TypeOK
  <2>2. QED
    BY <1>4, <2>1 DEF IInv, AnswerIsOwn
<1>9. CASE announce[old] = "unannounced"
  <2>1. Sent("done", old)
    BY <1>2, <1>5, <1>9 DEF IInv, DoneInFlight
  <2>2. DOMAIN toSub = 1..Len(toSub)
    BY DEF IInv, TypeOK, Messages
  <2>3. QED
    BY <1>4, <2>1, <2>2 DEF Sent, DoneToCome
<1>10. QED
  BY <1>6, <1>7, <1>8, <1>9

\* A duplicate ends the session (subscriber.rs:200) only if the announcement in the
\* way was rejected, was closed by a cancel, or has its done still to come.
THEOREM DuplicatesHaveACause == Spec => DuplicateHasACause
<1>1. IInv /\ [Next]_vars =>
        [ session' # session =>
            LET old == announced[namespace[Head(toSub)[2]]]
            IN  \/ handle[old] = "rejected"
                \/ closed[old] = "cancelled"
                \/ DoneToCome(old) ]_vars
  BY DuplicateStep
<1>2. QED
  BY <1>1, InvariantHolds, PTL DEF Spec, DuplicateHasACause
=============================================================================
