------------------------- MODULE SubscriptionProofs -------------------------
(***************************************************************************)
(* Proofs about Subscription.tla for any number of subscriptions and of    *)
(* data streams: its type invariant, that no alias outlives its            *)
(* subscription, that a rejected subscription has sent no data, and that   *)
(* whoever is served has its alias or an answer on its way.                *)
(***************************************************************************)
EXTENDS Subscription, TLAPS

\* The entry of a subscription is of a call that has inserted it.
EntriesHaveCalls == \A i \in subscribes : subscribe[i] \in {"waiting", "open", "dropping"}

\* The publisher knows of no subscription that was not made.
MadeOnly ==
    /\ \A i \in Ids : subscribe[i] = "none" => subscribed[i] = "none"
    /\ \A k \in 1..Len(toPub) : subscribe[toPub[k][2]] # "none"

\* A stream was opened by a Subscribed that served.
StreamsAreServed ==
    \A x \in Streams : stream[x] # "none" => subscribed[x[1]] \in {"serving", "ending", "gone"}

\* One that sent an error is gone and never served.
RejectedIsGone ==
    \A i \in Ids : InFlight("error", i) =>
        /\ subscribed[i] = "gone"
        /\ \A k \in 1..MaxStreams : stream[<<i, k>>] = "none"

\* AnswerPrecedesStreams from the moment the answer is queued, and also for a call
\* that has not inserted its entry.
AnswerIsSeen ==
    \A i \in Ids :
        /\ i \in subscribes \/ subscribe[i] = "opening"
        /\ subscribed[i] \in Accepted \cup {"acking"}
        => i \in aliases \/ InFlight("ok", i) \/ i \in early

IInv ==
    /\ TypeOK
    /\ AliasesAreLive
    /\ EntriesHaveCalls
    /\ MadeOnly
    /\ StreamsAreServed
    /\ RejectedIsGone
    /\ AnswerIsSeen

SubMessage == {"ok", "error", "done"} \X Ids
PubMessage == {"subscribe", "unsubscribe"} \X Ids

-----------------------------------------------------------------------------
(* Queues of messages. *)

\* What a message that is sent adds to what is on its way.
LEMMA SubSent ==
    ASSUME TypeOK, NEW kind \in {"ok", "error", "done"}, NEW i \in Ids, ToSubscriber(kind, i)
    PROVE  /\ toSub' \in Seq(SubMessage)
           /\ InFlight(kind, i)'
           /\ \A word, j : InFlight(word, j) => InFlight(word, j)'
           /\ \A word, j : InFlight(word, j)' => InFlight(word, j) \/ (word = kind /\ j = i)
<1>1. /\ toSub \in Seq(SubMessage) /\ <<kind, i>> \in SubMessage
      /\ toSub' = Append(toSub, <<kind, i>>)
  BY DEF TypeOK, ToSubscriber, SubMessage
<1>2. /\ toSub' \in Seq(SubMessage)
      /\ Len(toSub) \in Nat /\ Len(toSub') = Len(toSub) + 1
      /\ DOMAIN toSub = 1..Len(toSub) /\ DOMAIN toSub' = 1..Len(toSub')
      /\ \A k \in 1..Len(toSub) : toSub'[k] = toSub[k]
      /\ toSub'[Len(toSub) + 1] = <<kind, i>>
  BY <1>1
<1>3. \A k \in DOMAIN toSub' : k \in DOMAIN toSub \/ k = Len(toSub) + 1
  BY <1>2
<1>4. DOMAIN toSub \subseteq DOMAIN toSub' /\ Len(toSub) + 1 \in DOMAIN toSub'
  BY <1>2
<1>5. QED
  BY <1>2, <1>3, <1>4 DEF InFlight

\* What a message that is received leaves on its way.
LEMMA SubReceived ==
    ASSUME TypeOK, NEW kind, NEW i \in Ids, ToSubHead(kind, i)
    PROVE  /\ toSub' \in Seq(SubMessage)
           /\ InFlight(kind, i)
           /\ \A word, j : InFlight(word, j)' => InFlight(word, j)
           /\ \A word, j : InFlight(word, j) => InFlight(word, j)' \/ (word = kind /\ j = i)
<1>1. /\ toSub \in Seq(SubMessage) /\ toSub # <<>> /\ toSub' = Tail(toSub)
      /\ Head(toSub) = <<kind, i>>
  BY DEF TypeOK, ToSubHead, SubMessage
<1>2. /\ toSub' \in Seq(SubMessage)
      /\ Len(toSub) \in Nat \ {0} /\ Len(toSub') = Len(toSub) - 1
      /\ DOMAIN toSub = 1..Len(toSub) /\ DOMAIN toSub' = 1..Len(toSub')
      /\ \A k \in 1..Len(toSub') : toSub'[k] = toSub[k + 1]
      /\ toSub[1] = <<kind, i>>
  BY <1>1
<1>3. \A k \in DOMAIN toSub' : k + 1 \in DOMAIN toSub
  BY <1>2
<1>4. \A k \in DOMAIN toSub : k = 1 \/ (k - 1 \in DOMAIN toSub' /\ toSub'[k - 1] = toSub[k])
  BY <1>2
<1>5. ASSUME NEW word, NEW j, InFlight(word, j)' PROVE InFlight(word, j)
  <2>1. PICK k \in DOMAIN toSub' : toSub'[k] = <<word, j>>
    BY <1>5 DEF InFlight
  <2>2. k + 1 \in DOMAIN toSub /\ toSub[k + 1] = <<word, j>>
    BY <1>2, <1>3, <2>1
  <2>3. QED
    BY <2>2 DEF InFlight
<1>6. ASSUME NEW word, NEW j, InFlight(word, j), ~(word = kind /\ j = i)
      PROVE  InFlight(word, j)'
  <2>1. PICK k \in DOMAIN toSub : toSub[k] = <<word, j>>
    BY <1>6 DEF InFlight
  <2>2. k # 1
    BY <1>2, <1>6, <2>1
  <2>3. k - 1 \in DOMAIN toSub' /\ toSub'[k - 1] = <<word, j>>
    BY <1>4, <2>1, <2>2
  <2>4. QED
    BY <2>3 DEF InFlight
<1>7. InFlight(kind, i)
  BY <1>2 DEF InFlight
<1>8. QED
  BY <1>2, <1>5, <1>6, <1>7

LEMMA PubSent ==
    ASSUME TypeOK, NEW kind \in {"subscribe", "unsubscribe"}, NEW i \in Ids, ToPublisher(kind, i)
    PROVE  /\ toPub' \in Seq(PubMessage)
           /\ \A k \in 1..Len(toPub') :
                 (k \in 1..Len(toPub) /\ toPub'[k] = toPub[k]) \/ toPub'[k] = <<kind, i>>
<1>1. /\ toPub \in Seq(PubMessage) /\ <<kind, i>> \in PubMessage
      /\ toPub' = Append(toPub, <<kind, i>>)
  BY DEF TypeOK, ToPublisher, PubMessage
<1>2. QED
  BY <1>1

LEMMA PubReceived ==
    ASSUME TypeOK, NEW kind, NEW i \in Ids, ToPubHead(kind, i)
    PROVE  /\ toPub' \in Seq(PubMessage)
           /\ 1 \in 1..Len(toPub) /\ toPub[1] = <<kind, i>>
           /\ \A k \in 1..Len(toPub') : k + 1 \in 1..Len(toPub) /\ toPub'[k] = toPub[k + 1]
<1>1. /\ toPub \in Seq(PubMessage) /\ toPub # <<>> /\ toPub' = Tail(toPub)
      /\ Head(toPub) = <<kind, i>>
  BY DEF TypeOK, ToPubHead, PubMessage
<1>2. QED
  BY <1>1

-----------------------------------------------------------------------------
LEMMA InitIInv == ASSUME Init PROVE IInv
<1>1. \A word, i : ~InFlight(word, i)
  BY DEF Init, InFlight
<1>2. TypeOK
  BY DEF Init, TypeOK
<1>3. AliasesAreLive /\ EntriesHaveCalls /\ StreamsAreServed
  BY DEF Init, AliasesAreLive, EntriesHaveCalls, StreamsAreServed
<1>4. MadeOnly
  BY DEF Init, MadeOnly
<1>5. RejectedIsGone
  BY <1>1 DEF RejectedIsGone
<1>6. AnswerIsSeen
  BY DEF Init, AnswerIsSeen, Accepted
<1>7. QED
  BY <1>2, <1>3, <1>4, <1>5, <1>6 DEF IInv

LEMMA StutterKeeps == ASSUME IInv, UNCHANGED vars PROVE IInv'
<1>1. \A word, i : InFlight(word, i)' = InFlight(word, i)
  BY DEF vars, InFlight
<1>2. QED
  BY <1>1 DEF IInv, TypeOK, AliasesAreLive, EntriesHaveCalls, MadeOnly, StreamsAreServed,
     RejectedIsGone, AnswerIsSeen, vars, subVars, pubVars

-----------------------------------------------------------------------------
(* The subscriber's calls. *)

LEMMA SubscribeKeeps == ASSUME IInv, NEW i \in Ids, Subscribe(i) PROVE IInv'
<1>1. /\ subscribe[i] = "none" /\ subscribe' = [subscribe EXCEPT ![i] = "opening"]
      /\ ToPublisher("subscribe", i)
      /\ UNCHANGED <<subscribes, aliases, ok, early, subscribed, unsubscribed, sending,
                     toSub, stream>>
  BY DEF Subscribe, SetSubscribe, pubVars
<1>2. subscribe'[i] = "opening" /\ \A j \in Ids : j # i => subscribe'[j] = subscribe[j]
  BY <1>1 DEF IInv, TypeOK
<1>3. \A word, j : InFlight(word, j)' = InFlight(word, j)
  BY <1>1 DEF InFlight
<1>4. /\ toPub' \in Seq(PubMessage)
      /\ \A k \in 1..Len(toPub') :
            (k \in 1..Len(toPub) /\ toPub'[k] = toPub[k]) \/ toPub'[k] = <<"subscribe", i>>
  BY <1>1, PubSent DEF IInv
<1>5. TypeOK'
  BY <1>1, <1>4 DEF IInv, TypeOK, PubMessage
<1>6. AliasesAreLive' /\ StreamsAreServed' /\ RejectedIsGone'
  BY <1>1, <1>3 DEF IInv, AliasesAreLive, StreamsAreServed, RejectedIsGone
<1>7. EntriesHaveCalls'
  BY <1>1, <1>2 DEF IInv, EntriesHaveCalls, TypeOK
<1>8. MadeOnly'
  <2>1. \A k \in 1..Len(toPub) : toPub[k][2] \in Ids
    BY DEF IInv, TypeOK
  <2>2. QED
    BY <1>1, <1>2, <1>4, <2>1 DEF IInv, MadeOnly
<1>9. AnswerIsSeen'
  <2>1. subscribed[i] = "none"
    BY <1>1 DEF IInv, MadeOnly
  <2>2. QED
    BY <1>1, <1>2, <1>3, <2>1 DEF IInv, AnswerIsSeen, Accepted
<1>10. QED
  BY <1>5, <1>6, <1>7, <1>8, <1>9 DEF IInv

\* A call goes on: it was made, and an entry it gets is its own.
LEMMA CallKeeps ==
    ASSUME IInv, NEW i \in Ids,
           subscribe[i] # "none",
           \E to \in {"waiting", "open", "dropping", "gone"} :
               subscribe' = [subscribe EXCEPT ![i] = to],
           subscribes' \in SUBSET Ids, aliases' \in SUBSET Ids,
           \/ UNCHANGED <<subscribes, aliases>> /\ subscribe'[i] # "gone" /\ subscribe[i] # "opening"
           \/ subscribes' = subscribes \cup {i} /\ UNCHANGED aliases
                 /\ subscribe[i] = "opening" /\ subscribe'[i] = "waiting"
           \/ RemoveSubscribe(i) /\ subscribe'[i] = "gone",
           toPub' \in Seq(PubMessage),
           \A k \in 1..Len(toPub') :
               (k \in 1..Len(toPub) /\ toPub'[k] = toPub[k]) \/ toPub'[k] = <<"unsubscribe", i>>,
           UNCHANGED <<ok, early, subscribed, unsubscribed, sending, toSub, stream>>
    PROVE  IInv'
<1>1. /\ subscribe'[i] \in {"waiting", "open", "dropping", "gone"}
      /\ \A j \in Ids : j # i => subscribe'[j] = subscribe[j]
      /\ subscribe' \in [Ids -> {"none", "opening", "waiting", "open", "dropping", "gone"}]
  BY DEF IInv, TypeOK
<1>2. \A word, j : InFlight(word, j)' = InFlight(word, j)
  BY DEF InFlight
<1>3. TypeOK'
  BY <1>1 DEF IInv, TypeOK, PubMessage
<1>4. AliasesAreLive'
  BY DEF IInv, AliasesAreLive, RemoveSubscribe
<1>5. EntriesHaveCalls'
  BY <1>1 DEF IInv, EntriesHaveCalls, TypeOK, RemoveSubscribe
<1>6. MadeOnly'
  <2>1. \A k \in 1..Len(toPub) : toPub[k][2] \in Ids
    BY DEF IInv, TypeOK
  <2>2. QED
    BY <1>1, <2>1 DEF IInv, MadeOnly
<1>7. StreamsAreServed' /\ RejectedIsGone'
  BY <1>2 DEF IInv, StreamsAreServed, RejectedIsGone
<1>8. AnswerIsSeen'
  <2> SUFFICES ASSUME NEW j \in Ids, j \in subscribes' \/ subscribe'[j] = "opening",
                      subscribed[j] \in Accepted \cup {"acking"}
               PROVE  j \in aliases' \/ InFlight("ok", j) \/ j \in early
    BY <1>2 DEF AnswerIsSeen, Accepted
  <2>1. j \in subscribes \/ subscribe[j] = "opening"
    BY <1>1 DEF RemoveSubscribe
  <2>2. j \in aliases => j \in aliases'
    BY <1>1 DEF RemoveSubscribe
  <2>3. QED
    BY <2>1, <2>2 DEF IInv, AnswerIsSeen
<1>9. QED
  BY <1>3, <1>4, <1>5, <1>6, <1>7, <1>8 DEF IInv

\* What removing an entry leaves.
LEMMA Removed ==
    ASSUME IInv, NEW i \in Ids, RemoveSubscribe(i)
    PROVE  /\ subscribes' = subscribes \ {i} /\ aliases' = aliases \ {i}
           /\ subscribes' \in SUBSET Ids /\ aliases' \in SUBSET Ids
  BY DEF IInv, TypeOK, AliasesAreLive, RemoveSubscribe

LEMMA ApplicationKeeps ==
    ASSUME IInv, NEW i \in Ids,
           \/ InsertSubscribe(i) \/ SubscribeOpens(i) \/ Unsubscribe(i) \/ ForgetSubscribe(i)
    PROVE  IInv'
<1>1. ASSUME UNCHANGED toPub
      PROVE  /\ toPub' \in Seq(PubMessage)
             /\ \A k \in 1..Len(toPub') : k \in 1..Len(toPub) /\ toPub'[k] = toPub[k]
  BY <1>1 DEF IInv, TypeOK, PubMessage
<1>2. CASE InsertSubscribe(i)
  <2>1. /\ subscribe[i] = "opening" /\ subscribe' = [subscribe EXCEPT ![i] = "waiting"]
        /\ subscribes' = subscribes \cup {i}
        /\ UNCHANGED <<aliases, ok, early, subscribed, unsubscribed, sending, toSub, toPub, stream>>
    BY <1>2 DEF InsertSubscribe, SetSubscribe, pubVars
  <2>2. subscribe'[i] = "waiting" /\ subscribes' \in SUBSET Ids /\ aliases' \in SUBSET Ids
    BY <2>1 DEF IInv, TypeOK
  <2>3. QED
    BY <1>1, <2>1, <2>2, CallKeeps
<1>3. CASE SubscribeOpens(i)
  <2>1. /\ subscribe[i] = "waiting" /\ subscribe' = [subscribe EXCEPT ![i] = "open"]
        /\ UNCHANGED <<subscribes, aliases, ok, early, subscribed, unsubscribed, sending,
                       toSub, toPub, stream>>
    BY <1>3 DEF SubscribeOpens, SetSubscribe, pubVars
  <2>2. subscribe'[i] = "open" /\ subscribes' \in SUBSET Ids /\ aliases' \in SUBSET Ids
    BY <2>1 DEF IInv, TypeOK
  <2>3. QED
    BY <1>1, <2>1, <2>2, CallKeeps
<1>4. CASE Unsubscribe(i)
  <2>1. /\ subscribe[i] \in {"waiting", "open"} /\ subscribe' = [subscribe EXCEPT ![i] = "dropping"]
        /\ ToPublisher("unsubscribe", i)
        /\ UNCHANGED <<subscribes, aliases, ok, early, subscribed, unsubscribed, sending,
                       toSub, stream>>
    BY <1>4 DEF Unsubscribe, pubVars
  <2>2. subscribe'[i] = "dropping" /\ subscribes' \in SUBSET Ids /\ aliases' \in SUBSET Ids
    BY <2>1 DEF IInv, TypeOK
  <2>3. /\ toPub' \in Seq(PubMessage)
        /\ \A k \in 1..Len(toPub') :
              (k \in 1..Len(toPub) /\ toPub'[k] = toPub[k]) \/ toPub'[k] = <<"unsubscribe", i>>
    BY <2>1, PubSent DEF IInv
  <2>4. QED
    BY <2>1, <2>2, <2>3, CallKeeps
<1>5. CASE ForgetSubscribe(i)
  <2>1. /\ subscribe[i] = "dropping" /\ subscribe' = [subscribe EXCEPT ![i] = "gone"]
        /\ RemoveSubscribe(i)
        /\ UNCHANGED <<ok, early, subscribed, unsubscribed, sending, toSub, toPub, stream>>
    BY <1>5 DEF ForgetSubscribe, SetSubscribe, pubVars
  <2>2. subscribe'[i] = "gone" /\ subscribes' \in SUBSET Ids /\ aliases' \in SUBSET Ids
    BY <2>1, Removed DEF IInv, TypeOK
  <2>3. QED
    BY <1>1, <2>1, <2>2, CallKeeps
<1>6. QED
  BY <1>2, <1>3, <1>4, <1>5

-----------------------------------------------------------------------------
(* The subscriber's messages. *)

LEMMA RecvSubscribeOkKeeps == ASSUME IInv, NEW i \in Ids, RecvSubscribeOk(i) PROVE IInv'
<1>1. /\ ToSubHead("ok", i)
      /\ IF i \in subscribes
         THEN aliases' = aliases \cup {i} /\ ok' = [ok EXCEPT ![i] = TRUE]
         ELSE UNCHANGED <<aliases, ok>>
      /\ early' = IF subscribe[i] = "opening" THEN early \cup {i} ELSE early
      /\ UNCHANGED <<subscribe, subscribes, subscribed, unsubscribed, sending, toPub, stream>>
  BY DEF RecvSubscribeOk, pubVars
<1>2. /\ toSub' \in Seq(SubMessage)
      /\ \A word, j : InFlight(word, j)' => InFlight(word, j)
      /\ \A word, j : InFlight(word, j) => InFlight(word, j)' \/ (word = "ok" /\ j = i)
  BY <1>1, SubReceived DEF IInv
<1>3. TypeOK'
  BY <1>1, <1>2 DEF IInv, TypeOK, SubMessage
<1>4. AliasesAreLive'
  BY <1>1 DEF IInv, AliasesAreLive, TypeOK
<1>5. EntriesHaveCalls' /\ MadeOnly' /\ StreamsAreServed'
  BY <1>1 DEF IInv, EntriesHaveCalls, MadeOnly, StreamsAreServed
<1>6. RejectedIsGone'
  BY <1>1, <1>2 DEF IInv, RejectedIsGone
<1>7. AnswerIsSeen'
  <2> SUFFICES ASSUME NEW j \in Ids, j \in subscribes \/ subscribe[j] = "opening",
                      subscribed[j] \in Accepted \cup {"acking"}
               PROVE  j \in aliases' \/ InFlight("ok", j)' \/ j \in early'
    BY <1>1 DEF AnswerIsSeen, Accepted
  <2>1. j \in aliases \/ InFlight("ok", j) \/ j \in early
    BY DEF IInv, AnswerIsSeen
  <2>2. CASE j = i
    BY <1>1, <2>2
  <2>3. CASE j # i
    BY <1>1, <1>2, <2>1, <2>3
  <2>4. QED
    BY <2>2, <2>3
<1>8. QED
  BY <1>3, <1>4, <1>5, <1>6, <1>7 DEF IInv

\* An entry that is removed, by the end of the subscription or by a stream that failed.
LEMMA RemovalKeeps ==
    ASSUME IInv, NEW i \in Ids,
           RemoveSubscribe(i) \/ UNCHANGED <<subscribes, aliases>>,
           toSub' \in Seq(SubMessage),
           \A word, j : InFlight(word, j)' => InFlight(word, j),
           \A j : InFlight("ok", j) => InFlight("ok", j)',
           stream' \in [Streams -> {"none", "sent", "found", "unknown", "receiving",
                                    "finished", "refused", "failed"}],
           \A x \in Streams : stream'[x] = "none" <=> stream[x] = "none",
           UNCHANGED <<subscribe, ok, early, subscribed, unsubscribed, sending, toPub>>
    PROVE  IInv'
<1>1. \A j \in Ids : <<j, 1>>[1] = j /\ \A k \in 1..MaxStreams : <<j, k>> \in Streams
  BY DEF Streams
<1>2. TypeOK'
  BY Removed DEF IInv, TypeOK, SubMessage
<1>3. AliasesAreLive'
  BY Removed DEF IInv, AliasesAreLive
<1>4. EntriesHaveCalls' /\ MadeOnly' /\ StreamsAreServed'
  BY Removed DEF IInv, EntriesHaveCalls, MadeOnly, StreamsAreServed
<1>5. RejectedIsGone'
  BY <1>1 DEF IInv, RejectedIsGone
<1>6. AnswerIsSeen'
  <2> SUFFICES ASSUME NEW j \in Ids, j \in subscribes' \/ subscribe[j] = "opening",
                      subscribed[j] \in Accepted \cup {"acking"}
               PROVE  j \in aliases' \/ InFlight("ok", j)' \/ j \in early
    BY DEF AnswerIsSeen, Accepted
  <2>1. j \in subscribes \/ subscribe[j] = "opening"
    BY Removed
  <2>2. j \in aliases => j \in aliases'
    BY Removed DEF IInv, AliasesAreLive, EntriesHaveCalls
  <2>3. QED
    BY <2>1, <2>2 DEF IInv, AnswerIsSeen
<1>7. QED
  BY <1>2, <1>3, <1>4, <1>5, <1>6 DEF IInv

LEMMA RecvEndKeeps == ASSUME IInv, NEW i \in Ids, RecvEnd(i) PROVE IInv'
<1>1. PICK kind \in {"error", "done"} : ToSubHead(kind, i)
  BY DEF RecvEnd
<1>2. /\ RemoveSubscribe(i)
      /\ UNCHANGED <<subscribe, ok, early, subscribed, unsubscribed, sending, toPub, stream>>
  BY DEF RecvEnd, pubVars
<1>3. /\ toSub' \in Seq(SubMessage)
      /\ \A word, j : InFlight(word, j)' => InFlight(word, j)
      /\ \A word, j : InFlight(word, j) => InFlight(word, j)' \/ (word = kind /\ j = i)
  BY <1>1, SubReceived DEF IInv
<1>4. \A j : InFlight("ok", j) => InFlight("ok", j)'
  BY <1>3
<1>5. stream' \in [Streams -> {"none", "sent", "found", "unknown", "receiving",
                               "finished", "refused", "failed"}]
  BY <1>2 DEF IInv, TypeOK
<1>6. QED
  BY <1>2, <1>3, <1>4, <1>5, RemovalKeeps

LEMMA FailStreamKeeps == ASSUME IInv, NEW x \in Streams, FailStream(x) PROVE IInv'
<1>1. PICK i \in Ids : i = x[1]
  BY DEF Streams
<1>2. /\ stream[x] \in {"unknown", "refused"}
      /\ stream' = [stream EXCEPT ![x] = "failed"]
      /\ RemoveSubscribe(i) \/ UNCHANGED <<subscribes, aliases>>
      /\ UNCHANGED <<subscribe, ok, early, subscribed, unsubscribed, sending, toSub, toPub>>
  BY <1>1 DEF FailStream, pubVars
<1>3. /\ stream' \in [Streams -> {"none", "sent", "found", "unknown", "receiving",
                                  "finished", "refused", "failed"}]
      /\ \A y \in Streams : stream'[y] = "none" <=> stream[y] = "none"
  BY <1>2 DEF IInv, TypeOK
<1>4. /\ toSub' \in Seq(SubMessage)
      /\ \A word, j : InFlight(word, j)' = InFlight(word, j)
  BY <1>2 DEF IInv, TypeOK, SubMessage, InFlight
<1>5. QED
  BY <1>2, <1>3, <1>4, RemovalKeeps

-----------------------------------------------------------------------------
(* The publisher. *)

\* A Subscribed goes on without a message: it was made, and serves once accepted.
LEMMA PublisherKeeps ==
    ASSUME IInv, NEW i \in Ids, NEW to \in {"queued", "accepted", "serving", "datagrams", "ending"},
           subscribed' = [subscribed EXCEPT ![i] = to],
           subscribe[i] # "none", subscribed[i] # "gone",
           to = "queued" => subscribed[i] = "none",
           to # "queued" => subscribed[i] \in {"acking", "accepted", "serving"},
           subscribed[i] = "serving" => to = "ending",
           toPub' \in Seq(PubMessage),
           \A k \in 1..Len(toPub') : \E l \in 1..Len(toPub) : toPub'[k] = toPub[l],
           UNCHANGED <<subscribe, subscribes, aliases, ok, early, unsubscribed, sending,
                       toSub, stream>>
    PROVE  IInv'
<1>1. /\ subscribed'[i] = to
      /\ \A j \in Ids : j # i => subscribed'[j] = subscribed[j]
      /\ subscribed' \in [Ids -> Live \cup {"none", "gone"}]
  BY DEF IInv, TypeOK, Live
<1>2. \A word, j : InFlight(word, j)' = InFlight(word, j)
  BY DEF InFlight
<1>3. TypeOK'
  BY <1>1 DEF IInv, TypeOK, PubMessage
<1>4. AliasesAreLive' /\ EntriesHaveCalls'
  BY DEF IInv, AliasesAreLive, EntriesHaveCalls
<1>5. MadeOnly'
  BY <1>1 DEF IInv, MadeOnly
<1>6. StreamsAreServed'
  <2> SUFFICES ASSUME NEW x \in Streams, stream[x] # "none"
               PROVE  subscribed'[x[1]] \in {"serving", "ending", "gone"}
    BY DEF StreamsAreServed
  <2>1. x[1] \in Ids /\ subscribed[x[1]] \in {"serving", "ending", "gone"}
    BY DEF IInv, StreamsAreServed, Streams
  <2>2. QED
    BY <1>1, <2>1
<1>7. RejectedIsGone'
  BY <1>1, <1>2 DEF IInv, RejectedIsGone
<1>8. AnswerIsSeen'
  <2>1. \A j \in Ids : subscribed'[j] \in Accepted \cup {"acking"}
                       => subscribed[j] \in Accepted \cup {"acking"}
    BY <1>1 DEF Accepted
  <2>2. QED
    BY <1>2, <2>1 DEF IInv, AnswerIsSeen, Accepted
<1>9. QED
  BY <1>3, <1>4, <1>5, <1>6, <1>7, <1>8 DEF IInv

LEMMA RecvSubscribeKeeps == ASSUME IInv, NEW i \in Ids, RecvSubscribe(i) PROVE IInv'
<1>1. /\ ToPubHead("subscribe", i) /\ subscribed[i] = "none"
      /\ subscribed' = [subscribed EXCEPT ![i] = "queued"]
      /\ UNCHANGED <<subscribe, subscribes, aliases, ok, early, unsubscribed, sending,
                     toSub, stream>>
  BY DEF RecvSubscribe, SetSubscribed, subVars
<1>2. /\ toPub' \in Seq(PubMessage)
      /\ 1 \in 1..Len(toPub) /\ toPub[1] = <<"subscribe", i>>
      /\ \A k \in 1..Len(toPub') : \E l \in 1..Len(toPub) : toPub'[k] = toPub[l]
  BY <1>1, PubReceived DEF IInv
<1>3. subscribe[i] # "none"
  BY <1>2 DEF IInv, MadeOnly
<1>4. QED
  BY <1>1, <1>2, <1>3, PublisherKeeps

LEMMA RecvUnsubscribeKeeps == ASSUME IInv, NEW i \in Ids, RecvUnsubscribe(i) PROVE IInv'
<1>1. /\ ToPubHead("unsubscribe", i)
      /\ unsubscribed' \in [Ids -> BOOLEAN]
      /\ UNCHANGED <<subscribe, subscribes, aliases, ok, early, subscribed, sending,
                     toSub, stream>>
  BY DEF RecvUnsubscribe, subVars, IInv, TypeOK
<1>2. /\ toPub' \in Seq(PubMessage)
      /\ \A k \in 1..Len(toPub') : \E l \in 1..Len(toPub) : toPub'[k] = toPub[l]
  BY <1>1, PubReceived DEF IInv
<1>3. \A word, j : InFlight(word, j)' = InFlight(word, j)
  BY <1>1 DEF InFlight
<1>4. TypeOK'
  BY <1>1, <1>2 DEF IInv, TypeOK, PubMessage
<1>5. MadeOnly'
  BY <1>1, <1>2 DEF IInv, MadeOnly
<1>6. QED
  BY <1>1, <1>3, <1>4, <1>5 DEF IInv, AliasesAreLive, EntriesHaveCalls, StreamsAreServed,
     RejectedIsGone, AnswerIsSeen

LEMMA ServingKeeps ==
    ASSUME IInv, NEW i \in Ids, Acknowledged(i) \/ ModeReturns(i) \/ EndServing(i)
    PROVE  IInv'
<1>1. /\ \E to \in {"accepted", "serving", "datagrams", "ending"} :
            /\ subscribed' = [subscribed EXCEPT ![i] = to]
            /\ subscribed[i] = "serving" => to = "ending"
      /\ subscribed[i] \in {"acking", "accepted", "serving"}
      /\ UNCHANGED <<subscribe, subscribes, aliases, ok, early, unsubscribed, sending,
                     toSub, toPub, stream>>
  BY DEF Acknowledged, ModeReturns, EndServing, SetSubscribed, subVars
<1>2. subscribe[i] # "none"
  BY <1>1 DEF IInv, MadeOnly
<1>3. /\ toPub' \in Seq(PubMessage)
      /\ \A k \in 1..Len(toPub') : \E l \in 1..Len(toPub) : toPub'[k] = toPub[l]
  BY <1>1 DEF IInv, TypeOK, PubMessage
<1>4. QED
  BY <1>1, <1>2, <1>3, PublisherKeeps

LEMMA ServeKeeps == ASSUME IInv, NEW i \in Ids, Serve(i) PROVE IInv'
<1>1. /\ subscribed[i] = "queued" /\ subscribed' = [subscribed EXCEPT ![i] = "acking"]
      /\ ToSubscriber("ok", i)
      /\ UNCHANGED <<subscribe, subscribes, aliases, ok, early, unsubscribed, sending,
                     toPub, stream>>
  BY DEF Serve, SetSubscribed, subVars
<1>2. /\ subscribed'[i] = "acking"
      /\ \A j \in Ids : j # i => subscribed'[j] = subscribed[j]
      /\ subscribed' \in [Ids -> Live \cup {"none", "gone"}]
  BY <1>1 DEF IInv, TypeOK, Live
<1>3. /\ toSub' \in Seq(SubMessage)
      /\ InFlight("ok", i)'
      /\ \A word, j : InFlight(word, j) => InFlight(word, j)'
      /\ \A word, j : InFlight(word, j)' => InFlight(word, j) \/ (word = "ok" /\ j = i)
  BY <1>1, SubSent DEF IInv
<1>4. TypeOK'
  BY <1>1, <1>2, <1>3 DEF IInv, TypeOK, SubMessage
<1>5. AliasesAreLive' /\ EntriesHaveCalls'
  BY <1>1 DEF IInv, AliasesAreLive, EntriesHaveCalls
<1>6. MadeOnly'
  BY <1>1, <1>2 DEF IInv, MadeOnly
<1>7. StreamsAreServed'
  BY <1>1, <1>2 DEF IInv, StreamsAreServed, Streams
<1>8. RejectedIsGone'
  BY <1>1, <1>2, <1>3 DEF IInv, RejectedIsGone
<1>9. AnswerIsSeen'
  BY <1>1, <1>2, <1>3 DEF IInv, AnswerIsSeen, Accepted
<1>10. QED
  BY <1>4, <1>5, <1>6, <1>7, <1>8, <1>9 DEF IInv

LEMMA DropSubscribedKeeps == ASSUME IInv, NEW i \in Ids, DropSubscribed(i) PROVE IInv'
<1>1. /\ subscribed[i] \in Live /\ subscribed' = [subscribed EXCEPT ![i] = "gone"]
      /\ sending' \in SUBSET Streams
      /\ ToSubscriber(End(i), i)
      /\ UNCHANGED <<subscribe, subscribes, aliases, ok, early, unsubscribed, toPub, stream>>
  BY DEF DropSubscribed, subVars, IInv, TypeOK
<1>2. /\ subscribed'[i] = "gone"
      /\ \A j \in Ids : j # i => subscribed'[j] = subscribed[j]
      /\ subscribed' \in [Ids -> Live \cup {"none", "gone"}]
  BY <1>1 DEF IInv, TypeOK
<1>3. PICK kind \in {"error", "done"} :
        kind = End(i) /\ (kind = "error" => subscribed[i] \notin Accepted)
  BY DEF End
<1>4. /\ toSub' \in Seq(SubMessage)
      /\ \A word, j : InFlight(word, j) => InFlight(word, j)'
      /\ \A word, j : InFlight(word, j)' => InFlight(word, j) \/ (word = kind /\ j = i)
  BY <1>1, <1>3, SubSent DEF IInv
<1>5. TypeOK'
  BY <1>1, <1>2, <1>4 DEF IInv, TypeOK, SubMessage
<1>6. AliasesAreLive' /\ EntriesHaveCalls'
  BY <1>1 DEF IInv, AliasesAreLive, EntriesHaveCalls
<1>7. MadeOnly'
  BY <1>1, <1>2 DEF IInv, MadeOnly, Live
<1>8. StreamsAreServed'
  BY <1>1, <1>2 DEF IInv, StreamsAreServed, Streams
<1>9. RejectedIsGone'
  <2> SUFFICES ASSUME NEW j \in Ids, InFlight("error", j)'
               PROVE  subscribed'[j] = "gone" /\ \A k \in 1..MaxStreams : stream[<<j, k>>] = "none"
    BY <1>1 DEF RejectedIsGone
  <2>1. CASE InFlight("error", j)
    BY <1>2, <2>1 DEF IInv, RejectedIsGone
  <2>2. CASE ~InFlight("error", j)
    <3>1. j = i /\ kind = "error"
      BY <1>4, <2>2
    <3>2. subscribed[i] \in {"queued", "acking"}
      BY <1>1, <1>3, <3>1 DEF Live, Accepted
    <3>3. \A k \in 1..MaxStreams : <<i, k>> \in Streams /\ <<i, k>>[1] = i
      BY DEF Streams
    <3>4. QED
      BY <1>2, <3>1, <3>2, <3>3 DEF IInv, StreamsAreServed
  <2>3. QED
    BY <2>1, <2>2
<1>10. AnswerIsSeen'
  <2>1. \A j \in Ids : subscribed'[j] \in Accepted \cup {"acking"} => subscribed'[j] = subscribed[j]
    BY <1>2 DEF Accepted
  <2>2. QED
    BY <1>1, <1>4, <2>1 DEF IInv, AnswerIsSeen, Accepted
<1>11. QED
  BY <1>5, <1>6, <1>7, <1>8, <1>9, <1>10 DEF IInv

-----------------------------------------------------------------------------
(* The data streams. *)

LEMMA OpenStreamKeeps == ASSUME IInv, NEW x \in Streams, OpenStream(x) PROVE IInv'
<1>1. /\ subscribed[x[1]] = "serving" /\ stream' = [stream EXCEPT ![x] = "sent"]
      /\ sending' = sending \cup {x}
      /\ UNCHANGED <<subscribe, subscribes, aliases, ok, early, subscribed, unsubscribed,
                     toSub, toPub>>
  BY DEF OpenStream, SetStream, subVars
<1>2. \A word, j : InFlight(word, j)' = InFlight(word, j)
  BY <1>1 DEF InFlight
<1>3. TypeOK'
  BY <1>1 DEF IInv, TypeOK
<1>4. AliasesAreLive' /\ EntriesHaveCalls' /\ MadeOnly' /\ AnswerIsSeen'
  BY <1>1, <1>2 DEF IInv, AliasesAreLive, EntriesHaveCalls, MadeOnly, AnswerIsSeen
<1>5. StreamsAreServed'
  BY <1>1 DEF IInv, StreamsAreServed, TypeOK
<1>6. RejectedIsGone'
  <2>1. \A j \in Ids : InFlight("error", j) => \A k \in 1..MaxStreams : <<j, k>> # x
    BY <1>1 DEF IInv, RejectedIsGone
  <2>2. \A j \in Ids : \A k \in 1..MaxStreams : <<j, k>> # x => stream'[<<j, k>>] = stream[<<j, k>>]
    BY <1>1 DEF IInv, TypeOK, Streams
  <2>3. QED
    BY <1>1, <1>2, <2>1, <2>2 DEF IInv, RejectedIsGone
<1>7. QED
  BY <1>3, <1>4, <1>5, <1>6 DEF IInv

\* A stream goes on on either end once it was opened.
LEMMA StreamKeeps ==
    ASSUME IInv, NEW x \in Streams,
           \/ FinishSending(x) \/ FindAlias(x) \/ AliasTimeout(x) \/ CreateWriter(x)
           \/ RefuseWriter(x) \/ FinishStream(x) \/ BreakStream(x)
    PROVE  IInv'
<1>1. /\ sending' \in SUBSET Streams
      /\ \/ UNCHANGED stream
         \/ /\ stream[x] # "none"
            /\ \E to \in {"found", "unknown", "receiving", "refused", "finished"} :
                  stream' = [stream EXCEPT ![x] = to]
      /\ UNCHANGED <<subscribe, subscribes, aliases, ok, early, subscribed, unsubscribed,
                     toSub, toPub>>
  BY DEF FinishSending, FindAlias, AliasTimeout, CreateWriter, RefuseWriter, FinishStream,
         BreakStream, SetStream, subVars, pubVars, IInv, TypeOK
<1>2. /\ stream' \in [Streams -> {"none", "sent", "found", "unknown", "receiving",
                                  "finished", "refused", "failed"}]
      /\ \A y \in Streams : stream'[y] = "none" <=> stream[y] = "none"
  BY <1>1 DEF IInv, TypeOK
<1>3. \A word, j : InFlight(word, j)' = InFlight(word, j)
  BY <1>1 DEF InFlight
<1>4. TypeOK'
  BY <1>1, <1>2 DEF IInv, TypeOK
<1>5. AliasesAreLive' /\ EntriesHaveCalls' /\ MadeOnly' /\ AnswerIsSeen'
  BY <1>1, <1>3 DEF IInv, AliasesAreLive, EntriesHaveCalls, MadeOnly, AnswerIsSeen
<1>6. StreamsAreServed'
  BY <1>1, <1>2 DEF IInv, StreamsAreServed
<1>7. RejectedIsGone'
  <2>1. \A j \in Ids : \A k \in 1..MaxStreams : <<j, k>> \in Streams
    BY DEF Streams
  <2>2. QED
    BY <1>1, <1>2, <1>3, <2>1 DEF IInv, RejectedIsGone
<1>8. QED
  BY <1>4, <1>5, <1>6, <1>7 DEF IInv

-----------------------------------------------------------------------------
LEMMA StepKeeps == ASSUME IInv, [Next]_vars PROVE IInv'
<1>1. CASE SubscriberRecv
  BY <1>1, RecvSubscribeOkKeeps, RecvEndKeeps DEF SubscriberRecv
<1>2. CASE PublisherRecv
  BY <1>2, RecvSubscribeKeeps, RecvUnsubscribeKeeps DEF PublisherRecv
<1>3. CASE Application
  BY <1>3, SubscribeKeeps, ApplicationKeeps DEF Application
<1>4. CASE Publisher
  BY <1>4, ServeKeeps, ServingKeeps, DropSubscribedKeeps DEF Publisher
<1>5. CASE DataStream
  BY <1>5, OpenStreamKeeps, StreamKeeps, FailStreamKeeps DEF DataStream
<1>6. QED
  BY <1>1, <1>2, <1>3, <1>4, <1>5, StutterKeeps DEF Next

\* The inductive invariant: each end's records of a subscription agree with the other's
\* and with what is on its way (session/subscriber.rs, session/subscribed.rs).
THEOREM InvariantHolds == Spec => []IInv
<1>1. Init => IInv
  BY InitIInv
<1>2. IInv /\ [Next]_vars => IInv'
  BY StepKeeps
<1>3. QED
  BY <1>1, <1>2, PTL DEF Spec

\* The type invariant of both ends of the session.
THEOREM TypeCorrect == Spec => []TypeOK
<1>1. IInv => TypeOK
  BY DEF IInv
<1>2. QED
  BY <1>1, InvariantHolds, PTL

\* No alias outlives its subscription, whoever removes it (subscriber.rs:244).
THEOREM AliasesLive == Spec => []AliasesAreLive
<1>1. IInv => AliasesAreLive
  BY DEF IInv
<1>2. QED
  BY <1>1, InvariantHolds, PTL

\* SUBSCRIBE_ERROR is sent only for a subscription none of whose data was sent
\* (subscribed.rs:157).
THEOREM RejectedServeNothing == Spec => []RejectedServesNothing
<1>1. IInv => RejectedServesNothing
  BY DEF IInv, RejectedIsGone, RejectedServesNothing
<1>2. QED
  BY <1>1, InvariantHolds, PTL

\* A subscription that is served has its alias, or the answer that brings it on its way
\* (subscribed.rs:93), but for the answers that came before their entries.
THEOREM AnswersPrecedeStreams == Spec => []AnswerPrecedesStreams
<1>1. IInv => AnswerPrecedesStreams
  BY DEF IInv, TypeOK, AnswerIsSeen, AnswerPrecedesStreams, Accepted
<1>2. QED
  BY <1>1, InvariantHolds, PTL
=============================================================================
