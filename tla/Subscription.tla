---------------------------- MODULE Subscription ----------------------------
(***************************************************************************)
(* Subscriptions over one session of moq-transport.  On the subscriber's   *)
(* end a call of subscribe_open (session/subscriber.rs) makes a Subscribe  *)
(* (subscribe.rs), and the data streams that arrive find it by its alias;  *)
(* on the publisher's end recv_subscribe (publisher.rs) makes a Subscribed *)
(* (subscribed.rs) that is routed, served and dropped.  The two directions *)
(* of the control stream are FIFOs; a data stream arrives at any time      *)
(* after it was opened, before or after any message.                       *)
(*                                                                         *)
(* Subscriptions are numbered in the order of their request ids, and the   *)
(* alias of each is its id.  A track is served as subgroups, each on a     *)
(* data stream of its own, or as datagrams, which are not followed here.   *)
(***************************************************************************)
EXTENDS Naturals, Sequences, FiniteSets

CONSTANTS MaxSubscribes,    \* bound: subscriptions made in a behaviour
          MaxStreams        \* bound: data streams opened for each of them

ASSUME SubscriptionAssumption == MaxSubscribes \in Nat /\ MaxStreams \in Nat

Ids == 1..MaxSubscribes
Streams == Ids \X (1..MaxStreams)

VARIABLES
    subscribe,     \* each Subscribe, and the call of subscribe_open that made it
    subscribes,    \* Subscriber.subscribes: the ids of its entries
    aliases,       \* Subscriber.subscribe_alias_map: the aliases of its entries
    ok,            \* SubscribeState.ok
    subscribed,    \* each Subscribed
    unsubscribed,  \* SubscribedState.closed is an error
    toSub,         \* messages on their way to the Subscriber
    toPub,         \* messages on their way to the Publisher
    sending,       \* data streams whose task on the publisher's end still runs
    stream,        \* each data stream, and the task that receives it
    early          \* history: ids whose answer came before their entry

subVars == <<subscribe, subscribes, aliases, ok, early>>
pubVars == <<subscribed, unsubscribed, sending>>
vars == <<subVars, pubVars, toSub, toPub, stream>>

Init ==
    /\ subscribe = [i \in Ids |-> "none"]
    /\ subscribes = {}
    /\ aliases = {}
    /\ ok = [i \in Ids |-> FALSE]
    /\ subscribed = [i \in Ids |-> "none"]
    /\ unsubscribed = [i \in Ids |-> FALSE]
    /\ toSub = <<>>
    /\ toPub = <<>>
    /\ sending = {}
    /\ stream = [x \in Streams |-> "none"]
    /\ early = {}

ToSubscriber(kind, i) == toSub' = Append(toSub, <<kind, i>>)
ToPublisher(kind, i) == toPub' = Append(toPub, <<kind, i>>)

SetSubscribe(i, from, to) == subscribe[i] = from /\ subscribe' = [subscribe EXCEPT ![i] = to]
SetSubscribed(i, from, to) == subscribed[i] = from /\ subscribed' = [subscribed EXCEPT ![i] = to]
SetStream(x, from, to) == stream[x] = from /\ stream' = [stream EXCEPT ![x] = to]

-----------------------------------------------------------------------------
(* The subscriber's application. *)

\* subscribe_open: Subscribe::new queues the message,
Subscribe(i) ==
    /\ \A j \in 1..(i - 1) : subscribe[j] # "none"
    /\ SetSubscribe(i, "none", "opening")
    /\ ToPublisher("subscribe", i)
    /\ UNCHANGED <<subscribes, aliases, ok, early, pubVars, toSub, stream>>

\* and then the entry is inserted and the call waits for the answer.
InsertSubscribe(i) ==
    /\ SetSubscribe(i, "opening", "waiting")
    /\ subscribes' = subscribes \cup {i}
    /\ UNCHANGED <<aliases, ok, early, pubVars, toSub, toPub, stream>>

\* Subscribe::ok returns Ok to its caller, unless the subscription ended with an error
\* (then the call returns the error and drops the Subscribe).
SubscribeOpens(i) ==
    /\ ok[i]
    /\ SetSubscribe(i, "waiting", "open")
    /\ UNCHANGED <<subscribes, aliases, ok, early, pubVars, toSub, toPub, stream>>

\* The Subscribe is dropped: by subscribe_open or subscribe that return an error, or
\* by an application that lets go of it.  drop queues the message,
Unsubscribe(i) ==
    /\ subscribe[i] \in {"waiting", "open"}
    /\ subscribe' = [subscribe EXCEPT ![i] = "dropping"]
    /\ ToPublisher("unsubscribe", i)
    /\ UNCHANGED <<subscribes, aliases, ok, early, pubVars, toSub, stream>>

\* Variant for mutation: the alias stays.
RemoveSubscribeOnly(i) == subscribes' = subscribes \ {i} /\ UNCHANGED aliases

\* remove_subscribe removes both entries under the lock of the first; where there is
\* none it changes nothing.
RemoveSubscribe(i) ==
    /\ subscribes' = subscribes \ {i}
    /\ aliases' = IF i \in subscribes THEN aliases \ {i} ELSE aliases

\* and then removes the entries.
ForgetSubscribe(i) ==
    /\ SetSubscribe(i, "dropping", "gone")
    /\ RemoveSubscribe(i)
    /\ UNCHANGED <<ok, early, pubVars, toSub, toPub, stream>>

\* ok and closed return once the entry is gone, with its error or without.
SubscribeReturns(i) == i \notin subscribes /\ Unsubscribe(i)

-----------------------------------------------------------------------------
(* The subscriber's messages. *)

ToSubHead(kind, i) ==
    /\ toSub # <<>>
    /\ Head(toSub) = <<kind, i>>
    /\ toSub' = Tail(toSub)

\* recv_subscribe_ok: where there is no entry the answer is dropped.
RecvSubscribeOk(i) ==
    /\ ToSubHead("ok", i)
    /\ IF i \in subscribes
       THEN aliases' = aliases \cup {i} /\ ok' = [ok EXCEPT ![i] = TRUE]
       ELSE UNCHANGED <<aliases, ok>>
    /\ early' = IF subscribe[i] = "opening" THEN early \cup {i} ELSE early
    /\ UNCHANGED <<subscribe, subscribes, pubVars, toPub, stream>>

\* Variant for mutation: the end of a subscription is not handled.
RecvEndIgnoring(i) ==
    /\ ToSubHead("error", i) \/ ToSubHead("done", i)
    /\ UNCHANGED <<subVars, pubVars, toPub, stream>>

\* recv_subscribe_error and recv_publish_done.
RecvEnd(i) ==
    /\ ToSubHead("error", i) \/ ToSubHead("done", i)
    /\ RemoveSubscribe(i)
    /\ UNCHANGED <<subscribe, ok, early, pubVars, toPub, stream>>

-----------------------------------------------------------------------------
(* The publisher. *)

ToPubHead(kind, i) ==
    /\ toPub # <<>>
    /\ Head(toPub) = <<kind, i>>
    /\ toPub' = Tail(toPub)

Live == {"queued", "acking", "accepted", "serving", "datagrams", "ending"}
Accepted == {"accepted", "serving", "datagrams", "ending"}

\* recv_subscribe: the Subscribed is queued at its Announce, or as unknown.
RecvSubscribe(i) ==
    /\ ToPubHead("subscribe", i)
    /\ SetSubscribed(i, "none", "queued")
    /\ UNCHANGED <<subVars, unsubscribed, sending, toSub, stream>>

\* Variant for mutation: the publisher goes on.
RecvUnsubscribeIgnoring(i) ==
    /\ ToPubHead("unsubscribe", i)
    /\ UNCHANGED <<subVars, pubVars, toSub, stream>>

\* recv_unsubscribe: the Subscribed is told, if it is still there.
RecvUnsubscribe(i) ==
    /\ ToPubHead("unsubscribe", i)
    /\ unsubscribed' = [unsubscribed EXCEPT ![i] = @ \/ subscribed[i] \in Live]
    /\ UNCHANGED <<subVars, subscribed, sending, toSub, stream>>

\* Variant for mutation: the Subscribed waits for an answer that it did not queue.
ServeUnanswered(i) ==
    /\ SetSubscribed(i, "queued", "acking")
    /\ UNCHANGED <<subVars, unsubscribed, sending, toSub, toPub, stream>>

\* serve: a Subscribed that was popped from its queue and whose track was found queues
\* the answer, unsubscribed or not, and waits until it is popped.
Serve(i) ==
    /\ SetSubscribed(i, "queued", "acking")
    /\ ToSubscriber("ok", i)
    /\ UNCHANGED <<subVars, unsubscribed, sending, toPub, stream>>

\* It was; ok is set, and serve waits for the mode of the track whatever happens.
Acknowledged(i) ==
    /\ SetSubscribed(i, "acking", "accepted")
    /\ UNCHANGED <<subVars, unsubscribed, sending, toSub, toPub, stream>>

\* The track has a mode: subgroups, or datagrams.  A deprecated stream panics, and the
\* Subscribed is dropped with its task.
ModeReturns(i) ==
    /\ \E served \in {"serving", "datagrams"} : SetSubscribed(i, "accepted", served)
    /\ UNCHANGED <<subVars, unsubscribed, sending, toSub, toPub, stream>>

\* serve_subgroups: a task for the next subgroup of the track, which opens its stream.
OpenStream(x) ==
    /\ subscribed[x[1]] = "serving"
    /\ \A k \in 1..(x[2] - 1) : stream[<<x[1], k>>] # "none"
    /\ SetStream(x, "none", "sent")
    /\ sending' = sending \cup {x}
    /\ UNCHANGED <<subVars, subscribed, unsubscribed, toSub, toPub>>

\* The subgroup ended, or its stream was stopped by the peer.
FinishSending(x) ==
    /\ x \in sending
    /\ sending' = sending \ {x}
    /\ UNCHANGED <<subVars, subscribed, unsubscribed, toSub, toPub, stream>>

\* The track has no further subgroup, or closed() returns: done is set.
EndServing(i) ==
    /\ SetSubscribed(i, "serving", "ending")
    /\ UNCHANGED <<subVars, unsubscribed, sending, toSub, toPub, stream>>

SendingOf(i) == {x \in sending : x[1] = i}

\* Variant for mutation: drop always says that the subscription was rejected.
EndOf(i) == "error"

\* The message of Subscribed::drop depends on whether the answer was popped.
End(i) == IF subscribed[i] \in Accepted THEN "done" ELSE "error"

\* Subscribed::drop, with the task that holds it or the queue that it is in.  That is
\* also how datagrams end, with their track or an error: serve_datagrams does not look
\* at closed.
DropSubscribed(i) ==
    /\ subscribed[i] \in Live
    /\ subscribed' = [subscribed EXCEPT ![i] = "gone"]
    /\ sending' = sending \ SendingOf(i)
    /\ ToSubscriber(End(i), i)
    /\ UNCHANGED <<subVars, unsubscribed, toPub, stream>>

\* serve_subgroups returns only when every task has.
ServeReturns(i) ==
    /\ subscribed[i] = "ending" /\ SendingOf(i) = {}
    /\ DropSubscribed(i)

-----------------------------------------------------------------------------
(* The data streams on the subscriber's end, a task each. *)

\* recv_stream has the header, and waits for the alias: it is there,
FindAlias(x) ==
    /\ x[1] \in aliases
    /\ SetStream(x, "sent", "found")
    /\ UNCHANGED <<subVars, pubVars, toSub, toPub>>

\* or it does not come in time,
AliasTimeout(x) ==
    /\ x[1] \notin aliases
    /\ SetStream(x, "sent", "unknown")
    /\ UNCHANGED <<subVars, pubVars, toSub, toPub>>

\* and then the subscription: the subgroup gets a writer,
CreateWriter(x) ==
    /\ x[1] \in subscribes
    /\ SetStream(x, "found", "receiving")
    /\ UNCHANGED <<subVars, pubVars, toSub, toPub>>

\* or there is no such subscription any more, or nobody reads its track.
RefuseWriter(x) ==
    /\ SetStream(x, "found", "refused")
    /\ UNCHANGED <<subVars, pubVars, toSub, toPub>>

\* the stream ends,
FinishStream(x) ==
    /\ x \notin sending
    /\ SetStream(x, "receiving", "finished")
    /\ UNCHANGED <<subVars, pubVars, toSub, toPub>>

\* or the writer of the subgroup fails.
BreakStream(x) ==
    /\ SetStream(x, "receiving", "refused")
    /\ UNCHANGED <<subVars, pubVars, toSub, toPub>>

\* After an error recv_stream looks the alias up once more and ends the subscription.
FailStream(x) ==
    /\ stream[x] \in {"unknown", "refused"}
    /\ stream' = [stream EXCEPT ![x] = "failed"]
    /\ IF x[1] \in aliases
       THEN RemoveSubscribe(x[1])
       ELSE UNCHANGED <<subscribes, aliases>>
    /\ UNCHANGED <<subscribe, ok, early, pubVars, toSub, toPub>>

-----------------------------------------------------------------------------
SubscriberRecv == \E i \in Ids : RecvSubscribeOk(i) \/ RecvEnd(i)

PublisherRecv == \E i \in Ids : RecvSubscribe(i) \/ RecvUnsubscribe(i)

Application ==
    \E i \in Ids :
        \/ Subscribe(i) \/ InsertSubscribe(i) \/ SubscribeOpens(i)
        \/ Unsubscribe(i) \/ ForgetSubscribe(i)

Publisher ==
    \E i \in Ids :
        \/ Serve(i) \/ Acknowledged(i) \/ ModeReturns(i) \/ EndServing(i)
        \/ DropSubscribed(i)

DataStream ==
    \E x \in Streams :
        \/ OpenStream(x) \/ FinishSending(x)
        \/ FindAlias(x) \/ AliasTimeout(x) \/ CreateWriter(x) \/ RefuseWriter(x)
        \/ FinishStream(x) \/ BreakStream(x) \/ FailStream(x)

Next == SubscriberRecv \/ PublisherRecv \/ Application \/ Publisher \/ DataStream

Spec == Init /\ [][Next]_vars

\* Calls and tasks that can go on do.  Nothing forces a track to get a mode or to end,
\* a subgroup to be finished, or the application to pop a Subscribed and serve it; nor a
\* message to go out, for the pop of run_send may sleep beside it (Queue.tla).
FairSpec ==
    /\ Spec
    /\ \A i \in Ids :
        /\ WF_vars(InsertSubscribe(i))
        /\ WF_vars(SubscribeOpens(i))
        /\ WF_vars(SubscribeReturns(i))
        /\ WF_vars(ForgetSubscribe(i))
        /\ WF_vars(unsubscribed[i] /\ EndServing(i))
        /\ WF_vars(ServeReturns(i))

-----------------------------------------------------------------------------
InFlight(kind, i) == \E k \in DOMAIN toSub : toSub[k] = <<kind, i>>

UnsubscribeInFlight(i) == \E k \in DOMAIN toPub : toPub[k] = <<"unsubscribe", i>>

\* Every variable stays within its type: no alias names a subscription that was never
\* made.
TypeOK ==
    /\ subscribe \in [Ids -> {"none", "opening", "waiting", "open", "dropping", "gone"}]
    /\ subscribes \subseteq Ids
    /\ aliases \subseteq Ids
    /\ ok \in [Ids -> BOOLEAN]
    /\ early \subseteq Ids
    /\ subscribed \in [Ids -> Live \cup {"none", "gone"}]
    /\ unsubscribed \in [Ids -> BOOLEAN]
    /\ sending \subseteq Streams
    /\ stream \in [Streams -> {"none", "sent", "found", "unknown", "receiving",
                                "finished", "refused", "failed"}]
    /\ toSub \in Seq({"ok", "error", "done"} \X Ids)
    /\ toPub \in Seq({"subscribe", "unsubscribe"} \X Ids)

\* Whoever removes a subscription (its drop, its end, or a failed stream), and however
\* that crosses its answer, no alias of it stays behind: the map of aliases would grow
\* for the life of the session, and streams would be sent to a subscription that is gone.
AliasesAreLive == \A i \in aliases : i \in subscribes /\ ok[i]

\* A subscription is ended as rejected only if no stream was opened for it: drop looks
\* at the flag that is set after the answer was popped.
RejectedServesNothing ==
    \A i \in Ids : InFlight("error", i) =>
        \A k \in 1..MaxStreams : stream[<<i, k>>] = "none"

\* Whatever is served, streams or datagrams, finds its alias, or the answer that brings
\* it is on its way; unless the answer came before subscribe_open had inserted the
\* entry, or the subscription has gone.
AnswerPrecedesStreams ==
    \A i \in subscribes : subscribed[i] \in Accepted =>
        i \in aliases \/ InFlight("ok", i) \/ i \in early

\* The end of a subscription reaches the call that waits for it, if its entry was there
\* when the publisher sent it, unless it never arrives.
EndIsHeard ==
    \A i \in Ids :
        (InFlight("error", i) \/ InFlight("done", i)) /\ i \in subscribes
            ~> (subscribe[i] = "gone" \/ [](InFlight("error", i) \/ InFlight("done", i)))

\* After an unsubscribe the publisher lets go of the subscription, whatever it was doing
\* when the message came, unless one thing holds it for ever: the message does not
\* arrive; the Subscribed stays in the queue it was put in (publisher.rs:341), or its
\* answer in that of run_send; the track gets no mode; it has datagrams, which nobody
\* cancels (subscribed.rs:125); or a subgroup is never finished.
UnsubscribeEndsServing ==
    \A i \in Ids :
        subscribe[i] = "gone" ~>
            \/ subscribed[i] = "gone"
            \/ []UnsubscribeInFlight(i)
            \/ \E waiting \in {"queued", "acking", "accepted", "datagrams"} :
                  [](subscribed[i] = waiting)
            \/ [](subscribed[i] = "ending" /\ SendingOf(i) # {})

\* "Subscribe to a track and wait until the publisher acknowledges it": once the
\* publisher serves a subscription, subscribe_open returns while it does, unless a message
\* to it never arrives.  It does not.
AcknowledgedOpens ==
    \A i \in Ids :
        subscribed[i] = "serving"
            ~> \/ subscribe[i] \notin {"opening", "waiting"} \/ subscribed[i] # "serving"
               \/ [](toSub # <<>>)
=============================================================================
