------------------------------ MODULE Announce ------------------------------
(***************************************************************************)
(* Announcing namespaces over one session of moq-transport: on one end the *)
(* Publisher (session/publisher.rs) with the Announce handles of the tasks *)
(* that announce (announce.rs), on the other end the Subscriber            *)
(* (subscriber.rs) with the Announced handles its application accepts,     *)
(* rejects and drops (announced.rs), and the control stream between them.  *)
(*                                                                         *)
(* Announcements are numbered in the order of their request ids.  Each     *)
(* step is one critical section of the map of one end, with the message it *)
(* pushes under that lock; a drop that locks twice is two or three steps.  *)
(* A direction of the control stream, with the outgoing queue of run_send  *)
(* and the loop of run_recv, is a FIFO: that the queue is one is what      *)
(* Queue.tla shows.  PUBLISH_NAMESPACE_DONE and _CANCEL carry the          *)
(* namespace and not the id, so their handlers look at no more than that.  *)
(* A connection that is lost delivers no more: that is a behaviour of Spec *)
(* in which no message is received from some point on.                     *)
(***************************************************************************)
EXTENDS Naturals, Sequences

CONSTANTS Namespaces,     \* track namespaces
          MaxAnnounces    \* bound: calls of announce that send a message

ASSUME AnnounceAssumption == MaxAnnounces \in Nat

Ids == 1..MaxAnnounces
None == 0

VARIABLES
    namespace,  \* the namespaces announced so far, by announcement
    announces,  \* Publisher.announces: the AnnounceRecv under each namespace, or None
    announce,   \* each Announce: held by its task, or how far its drop is
    ok,         \* AnnounceState.ok
    closed,     \* AnnounceState.closed
    announced,  \* Subscriber.announced: the AnnouncedRecv under each namespace, or None
    handle,     \* each Announced: offered, accepted, or how it was dropped
    toSub,      \* messages on their way to the Subscriber
    toPub,      \* messages on their way to the Publisher
    session     \* open, or ended by a duplicate announcement

pubVars == <<namespace, announces, announce, ok, closed>>
subVars == <<announced, handle>>
vars == <<pubVars, subVars, toSub, toPub, session>>

Made == 1..Len(namespace)
NextId == Len(namespace) + 1

Init ==
    /\ namespace = <<>>
    /\ announces = [n \in Namespaces |-> None]
    /\ announce = [i \in Ids |-> "none"]
    /\ ok = [i \in Ids |-> FALSE]
    /\ closed = [i \in Ids |-> "no"]
    /\ announced = [n \in Namespaces |-> None]
    /\ handle = [i \in Ids |-> "none"]
    /\ toSub = <<>>
    /\ toPub = <<>>
    /\ session = "open"

\* A message is its kind and the announcement that sent it or that it answers.
ToSubscriber(kind, i) == toSub' = Append(toSub, <<kind, i>>)
ToPublisher(kind, i) == toPub' = Append(toPub, <<kind, i>>)

\* The AnnounceRecv, or the AnnouncedRecv, of an announcement is in its map: the
\* handle on the same end sees its State dropped when it is not.
Routed(i) == announces[namespace[i]] = i
Active(i) == announced[namespace[i]] = i

Without(map, n) == [map EXCEPT ![n] = None]

-----------------------------------------------------------------------------
(* The publisher's tasks. *)

\* announce: under the lock of the map the message is queued and the entry inserted.
\* For a namespace that is occupied it returns Duplicate and nothing changes.
StartAnnounce(n) ==
    /\ NextId \in Ids
    /\ announces[n] = None
    /\ namespace' = Append(namespace, n)
    /\ announces' = [announces EXCEPT ![n] = NextId]
    /\ announce' = [announce EXCEPT ![NextId] = "held"]
    /\ ToSubscriber("publish", NextId)
    /\ UNCHANGED <<ok, closed, subVars, toPub, session>>

\* The Announce is dropped, because announce returned or its task was cancelled: drop
\* reads the state, and says nothing to the peer if an error closed it.
DropAnnounce(i) ==
    /\ announce[i] = "held"
    /\ announce' = [announce EXCEPT ![i] = IF closed[i] = "no" THEN "dropping" ELSE "ended"]
    /\ UNCHANGED <<namespace, announces, ok, closed, subVars, toSub, toPub, session>>

\* announce returns on its own when an error closed the state or its entry is gone.
AnnounceReturns(i) == DropAnnounce(i) /\ (closed[i] # "no" \/ ~Routed(i))

\* send_message: first act_on_message_to_send removes the entry of the namespace,
\* whose ever it is by now,
ForgetAnnounce(i) ==
    /\ announce[i] = "dropping"
    /\ announce' = [announce EXCEPT ![i] = "forgotten"]
    /\ announces' = Without(announces, namespace[i])
    /\ UNCHANGED <<namespace, ok, closed, subVars, toSub, toPub, session>>

\* and then the message is queued.
SendDone(i) ==
    /\ announce[i] = "forgotten"
    /\ announce' = [announce EXCEPT ![i] = "unannounced"]
    /\ ToSubscriber("done", i)
    /\ UNCHANGED <<namespace, announces, ok, closed, subVars, toPub, session>>

-----------------------------------------------------------------------------
(* The publisher's messages. *)

ToPubHead(kind, i) ==
    /\ session = "open"
    /\ toPub # <<>>
    /\ Head(toPub) = <<kind, i>>
    /\ toPub' = Tail(toPub)

\* Variant for mutation: the answer is given to whoever holds the namespace now.
RecvOkByNamespace(i) ==
    /\ ToPubHead("ok", i)
    /\ ok' = [j \in Ids |-> ok[j] \/ j = announces[namespace[i]]]
    /\ UNCHANGED <<namespace, announces, announce, closed, subVars, toSub, session>>

\* recv_publish_namespace_ok finds the entry by the request id; a second answer is
\* an error that recv_message logs.
RecvOk(i) ==
    /\ ToPubHead("ok", i)
    /\ ok' = [ok EXCEPT ![i] = @ \/ Routed(i)]
    /\ UNCHANGED <<namespace, announces, announce, closed, subVars, toSub, session>>

\* An entry is removed and its state closed with this error, unless the Announce has
\* gone or its state was closed before.
CloseWith(i, error) ==
    /\ announces' = Without(announces, namespace[i])
    /\ closed' = IF announce[i] \in {"held", "dropping", "forgotten"} /\ closed[i] = "no"
                 THEN [closed EXCEPT ![i] = error] ELSE closed

\* Variant for mutation: an error is not handled.
RecvErrorIgnoring(i) ==
    /\ ToPubHead("error", i)
    /\ UNCHANGED <<pubVars, subVars, toSub, session>>

\* recv_publish_namespace_error finds the entry by the request id, too.
RecvError(i) ==
    /\ ToPubHead("error", i)
    /\ IF Routed(i) THEN CloseWith(i, "rejected") ELSE UNCHANGED <<announces, closed>>
    /\ UNCHANGED <<namespace, announce, ok, subVars, toSub, session>>

\* recv_publish_namespace_cancel: the entry of the namespace.
RecvCancel(i) ==
    /\ ToPubHead("cancel", i)
    /\ LET j == announces[namespace[i]] IN
          IF j # None THEN CloseWith(j, "cancelled") ELSE UNCHANGED <<announces, closed>>
    /\ UNCHANGED <<namespace, announce, ok, subVars, toSub, session>>

-----------------------------------------------------------------------------
(* The subscriber's messages. *)

ToSubHead(kind, i) ==
    /\ session = "open"
    /\ toSub # <<>>
    /\ Head(toSub) = <<kind, i>>
    /\ toSub' = Tail(toSub)

\* recv_publish_namespace: under the lock of the map the Announced is queued for the
\* application and its entry inserted; an occupied namespace ends the session.
RecvPublish(i) ==
    /\ ToSubHead("publish", i)
    /\ IF announced[namespace[i]] = None
       THEN /\ announced' = [announced EXCEPT ![namespace[i]] = i]
            /\ handle' = [handle EXCEPT ![i] = "offered"]
            /\ UNCHANGED session
       ELSE session' = "duplicate" /\ UNCHANGED subVars
    /\ UNCHANGED <<pubVars, toPub>>

\* Variant for mutation: the entry stays.
RecvDoneIgnoring(i) ==
    /\ ToSubHead("done", i)
    /\ UNCHANGED <<pubVars, subVars, toPub, session>>

\* recv_publish_namespace_done: the entry of the namespace is dropped.
RecvDone(i) ==
    /\ ToSubHead("done", i)
    /\ announced' = Without(announced, namespace[i])
    /\ UNCHANGED <<pubVars, handle, toPub, session>>

-----------------------------------------------------------------------------
(* The subscriber's application. *)

SetHandle(i, from, to) == handle[i] = from /\ handle' = [handle EXCEPT ![i] = to]

\* Announced::ok, once the application has popped the Announced.
Accept(i) ==
    /\ SetHandle(i, "offered", "accepted")
    /\ ToPublisher("ok", i)
    /\ UNCHANGED <<pubVars, announced, toSub, session>>

\* Announced::drop before ok, with or without close.  send_message leaves the entry.
Reject(i) ==
    /\ SetHandle(i, "offered", "rejected")
    /\ ToPublisher("error", i)
    /\ UNCHANGED <<pubVars, announced, toSub, session>>

\* Variant for mutation: the entry is left as it is for a rejected announcement.
CancelKeeping(i) ==
    /\ SetHandle(i, "accepted", "cancelling")
    /\ UNCHANGED <<pubVars, announced, toSub, toPub, session>>

\* Announced::drop after ok: send_message removes the entry of the namespace, whose
\* ever it is by now,
Cancel(i) ==
    /\ SetHandle(i, "accepted", "cancelling")
    /\ announced' = Without(announced, namespace[i])
    /\ UNCHANGED <<pubVars, toSub, toPub, session>>

\* and then the message is queued.
SendCancel(i) ==
    /\ SetHandle(i, "cancelling", "cancelled")
    /\ ToPublisher("cancel", i)
    /\ UNCHANGED <<pubVars, announced, toSub, session>>

\* The application drops an Announced whose closed() returned; it learns so while it
\* serves the announcement it accepted.
Unannounce(i) == Cancel(i) /\ ~Active(i)

-----------------------------------------------------------------------------
Announcing(i) == DropAnnounce(i) \/ ForgetAnnounce(i) \/ SendDone(i)
PublisherRecv(i) == RecvOk(i) \/ RecvError(i) \/ RecvCancel(i)
SubscriberRecv(i) == RecvPublish(i) \/ RecvDone(i)
Answering(i) == Accept(i) \/ Reject(i)
Leaving(i) == Cancel(i) \/ SendCancel(i)

Step(i) ==
    \/ Announcing(i) \/ PublisherRecv(i) \/ SubscriberRecv(i)
    \/ Answering(i) \/ Leaving(i)

Next == (\E n \in Namespaces : StartAnnounce(n)) \/ (\E i \in Ids : Step(i))

Spec == Init /\ [][Next]_vars

\* What does not wait for anybody's decision, nor for a pop that may sleep beside what
\* it should take (Queue.tla): of run_send, or of the application.
Progress(i) ==
    \/ AnnounceReturns(i) \/ ForgetAnnounce(i) \/ SendDone(i)
    \/ Unannounce(i) \/ SendCancel(i)

\* A call of announce and the drops run to their end; the application drops what it is
\* told has ended, as Consumer::serve of the relay does.  No message has to go out, no
\* Announced to be popped; nobody has to announce, to unannounce, or to cancel what goes
\* on.  An announcement makes a bounded number of steps, so one fairness condition does
\* for all of them.
FairSpec == Spec /\ WF_vars(\E i \in Ids : Progress(i))
-----------------------------------------------------------------------------
Messages(kinds) == Seq(kinds \X Ids)

TypeOK ==
    /\ namespace \in Seq(Namespaces) /\ Len(namespace) <= MaxAnnounces
    /\ announces \in [Namespaces -> Ids \cup {None}]
    /\ announce \in
          [Ids -> {"none", "held", "dropping", "forgotten", "unannounced", "ended"}]
    /\ ok \in [Ids -> BOOLEAN]
    /\ closed \in [Ids -> {"no", "rejected", "cancelled"}]
    /\ announced \in [Namespaces -> Ids \cup {None}]
    /\ handle \in [Ids -> {"none", "offered", "accepted", "rejected",
                           "cancelling", "cancelled"}]
    /\ toSub \in Messages({"publish", "done"})
    /\ toPub \in Messages({"ok", "error", "cancel"})
    /\ session \in {"open", "duplicate"}

\* An announcement is answered by its own Announced (publisher.rs:261, 278 look it up by
\* its request id): one is taken for accepted only if it was, and for rejected only
\* if it was, however often its namespace is announced, dropped and announced again.
AnswerIsOwn ==
    \A i \in Ids :
        /\ ok[i] => handle[i] \in {"accepted", "cancelling", "cancelled"}
        /\ closed[i] = "rejected" => handle[i] = "rejected"

\* An announcement is closed by a cancel only after the Announced of that namespace
\* that sent it, which is its own or an earlier one, has left the subscriber's map.
CancelIsOfNamespace ==
    \A i \in Ids :
        closed[i] = "cancelled" =>
            \E j \in 1..i : namespace[j] = namespace[i] /\ handle[j] = "cancelled"

\* The subscriber keeps an entry only for an announcement its application may still
\* act on, or one that it rejected (subscriber.rs:152): a dropped Announced that had
\* been accepted leaves none, whichever of done and cancel comes first.
OnlyRejectedLinger ==
    \A n \in Namespaces :
        announced[n] # None => handle[announced[n]] \notin {"none", "cancelling", "cancelled"}

\* The subscriber has still to hear that an announcement is over.
DoneToCome(i) ==
    \/ announce[i] \in {"held", "dropping", "forgotten"}
    \/ \E k \in DOMAIN toSub : toSub[k] = <<"done", i>>

\* announce never sends two announcements of a namespace at a time; still the second
\* may end the session of the peer as a duplicate (subscriber.rs:200), but only if the
\* first was rejected, or closed by a cancel meant for one before it, or was overtaken:
\* its drop, or the drop of one before it, removed the entry before the done was sent.
DuplicateHasACause ==
    [][ session' # session =>
          LET old == announced[namespace[Head(toSub)[2]]]
          IN  \/ handle[old] = "rejected"
              \/ closed[old] = "cancelled"
              \/ DoneToCome(old) ]_vars

Underway(kind, i, messages) == \E k \in DOMAIN messages : messages[k] = <<kind, i>>

\* An announcement is answered, or ends, or its session does, unless its message, its
\* Announced or its answer stays in a queue for ever: its lookups by id and by namespace
\* never leave the task of announce waiting for an entry that is gone.
AnnounceIsAnswered ==
    \A i \in Ids :
        (announce[i] = "held") ~>
            \/ ok[i] \/ closed[i] # "no" \/ announce[i] # "held" \/ session # "open"
            \/ []Underway("publish", i, toSub) \/ [](handle[i] = "offered")
            \/ [](Underway("ok", i, toPub) \/ Underway("error", i, toPub))

\* The subscriber's application is told of every unannounce (announced.rs:68) and lets
\* go of its Announced, unless the session ends first, or the message or the Announced
\* stays in a queue for ever.
UnannounceIsHeard ==
    \A i \in Ids :
        (announce[i] = "unannounced") ~>
            \/ handle[i] \in {"rejected", "cancelled"} \/ session # "open"
            \/ []Underway("done", i, toSub) \/ [](handle[i] = "offered")

=============================================================================
