------------------------------ MODULE Routing ------------------------------
(***************************************************************************)
(* Relays that route: the Consumer that serves an announcement (local      *)
(* tracks, then the coordinator, then the answer, and all of it undone in  *)
(* the reverse order), the Locals registry, and the Producer that resolves *)
(* a subscription there, then through the coordinator and another relay,   *)
(* whose Producer does the same (consumer.rs, local.rs, producer.rs,       *)
(* remote.rs, session.rs, relay.rs).                                       *)
(*                                                                         *)
(* Every subscriber asks for a track of its own: no two share an entry of  *)
(* a RemoteManager, whose locks Remote.tla has.  An error travels back     *)
(* through the relays of a subscription at once.                           *)
(***************************************************************************)
EXTENDS Coordinator

CONSTANTS NoAnn,
          Subs,          \* subscriptions
          RequestOf,     \* the namespace each asks for
          EntryOf        \* the relay it asks

ASSUME RoutingAssumption ==
    /\ NoAnn \notin Anns
    /\ EntryOf \in [Subs -> Relays]

VARIABLES
    local,     \* Locals::lookup of each relay: who provides each namespace
    ann,       \* how far each announcement is
    sub,       \* how far each subscription is
    where,     \* the relay that it has reached
    path,      \* the entries of RemoteManagers that it holds, by relay and remote
    found,     \* the local tracks that the Producer has retrieved
    covered    \* who provided what it asks for when it asked

annVars == <<local, ann>>
subVars == <<sub, where, path, found, covered>>
vars == <<coordinatorVars, annVars, subVars>>

RoutingInit ==
    /\ Init
    /\ local = [r \in Relays |-> [n \in Namespaces |-> NoAnn]]
    /\ ann = [a \in Anns |-> "none"]
    /\ sub = [x \in Subs |-> "idle"]
    /\ where = EntryOf
    /\ path = [x \in Subs |-> {}]
    /\ found = [x \in Subs |-> NoAnn]
    /\ covered = [x \in Subs |-> {}]

AnnIs(a, s) == ann' = [ann EXCEPT ![a] = s]
Slot(a) == local[RelayOf(a)][NamespaceOf(a)]
SetSlot(a, b) == local' = [local EXCEPT ![RelayOf(a)][NamespaceOf(a)] = b]

-----------------------------------------------------------------------------
(* Consumer *)

\* A session of the relay queues an announcement: one that may publish, or not.
Announce(a) ==
    /\ ann[a] = "none"
    /\ AnnIs(a, "queued") \/ AnnIs(a, "barred")
    /\ UNCHANGED <<coordinatorVars, local, subVars>>

\* Variant for mutation: nobody drains what is queued there.
IgnoreAnnounce(a) ==
    /\ ann[a] = "barred"
    /\ UNCHANGED vars

\* A session that may not publish has no Consumer: all is drained and rejected.
RejectAnnounce(a) ==
    /\ ann[a] = "barred"
    /\ AnnIs(a, "ended")
    /\ UNCHANGED <<coordinatorVars, local, subVars>>

\* Variant for mutation: what the namespace has is replaced.
ServeAnnounceOver(a) ==
    /\ ann[a] = "queued"
    /\ SetSlot(a, a) /\ Register(a) /\ AnnIs(a, "registering")
    /\ UNCHANGED subVars

\* serve: the local tracks first; a namespace that has some is a Duplicate.
ServeAnnounce(a) ==
    /\ ann[a] = "queued"
    /\ IF Slot(a) = NoAnn
       THEN SetSlot(a, a) /\ Register(a) /\ AnnIs(a, "registering")
       ELSE AnnIs(a, "ended") /\ UNCHANGED <<coordinatorVars, local>>
    /\ UNCHANGED subVars

\* The coordinator has it: the publisher gets its OK, unless it has gone.
AcceptAnnounce(a) ==
    /\ ann[a] = "registering"
    /\ RegisterReturns(a)
    /\ AnnIs(a, "serving") \/ AnnIs(a, "closing")
    /\ UNCHANGED <<local, subVars>>

RegistrationFails(a) ==
    /\ ann[a] = "registering"
    /\ RegisterFails(a)
    /\ AnnIs(a, "unlisting")
    /\ UNCHANGED <<local, subVars>>

\* The session ends while its Consumer waits for the coordinator.
AbandonAnnounce(a) ==
    /\ ann[a] = "registering"
    /\ AbandonRegister(a)
    /\ AnnIs(a, "unlisting")
    /\ UNCHANGED <<local, subVars>>

\* The announcement is closed, or forwarding it fails, or the session ends.
EndAnnounce(a) ==
    /\ ann[a] = "serving"
    /\ AnnIs(a, "closing")
    /\ UNCHANGED <<coordinatorVars, local, subVars>>

\* The locals of serve are dropped in the reverse order: the registration with the
\* coordinator,
ReleaseRegistration(a) ==
    /\ ann[a] = "closing"
    /\ DropHandle(a)
    /\ AnnIs(a, "unlisting")
    /\ UNCHANGED <<local, subVars>>

\* Variant for mutation: the local registration before the other.
UnlistFirst(a) ==
    /\ ann[a] \in {"closing", "unlisting"}
    /\ SetSlot(a, NoAnn)
    /\ IF ann[a] = "closing" THEN UNCHANGED ann ELSE AnnIs(a, "ending")
    /\ UNCHANGED <<coordinatorVars, subVars>>

\* the local one, by namespace,
Unlist(a) ==
    /\ ann[a] = "unlisting"
    /\ SetSlot(a, NoAnn)
    /\ AnnIs(a, "ending")
    /\ UNCHANGED <<coordinatorVars, subVars>>

\* the requests for its tracks, the publisher's announcement.
FinishAnnounce(a) ==
    /\ ann[a] = "ending"
    /\ AnnIs(a, "ended")
    /\ UNCHANGED <<coordinatorVars, local, subVars>>

-----------------------------------------------------------------------------
(* Producer *)

Move(x, s, r, via, a, as) ==
    /\ sub' = [sub EXCEPT ![x] = s]
    /\ where' = [where EXCEPT ![x] = r]
    /\ path' = [path EXCEPT ![x] = via]
    /\ found' = [found EXCEPT ![x] = a]
    /\ covered' = [covered EXCEPT ![x] = as]

\* The subscription stays where it is.
SubIs(x, s) == Move(x, s, where[x], path[x], found[x], covered[x])

\* It is back where it was made.
Settle(x, s) == Move(x, s, EntryOf[x], {}, NoAnn, {})

Matches(r, n) == {p \in Namespaces : local[r][p] # NoAnn /\ Len(p) > 0 /\ IsPrefixOf(p, n)}

Provides(a, n) == ann[a] = "serving" /\ IsPrefixOf(NamespaceOf(a), n)

Ask(x) ==
    /\ sub[x] = "idle"
    /\ \/ Move(x, "asked", EntryOf[x], {}, NoAnn,
               {a \in Anns : RelayOf(a) = EntryOf[x] /\ Provides(a, RequestOf[x])})
       \/ Settle(x, "barred")
    /\ UNCHANGED <<coordinatorVars, annVars>>

\* Without the permission there is no Producer.
RejectSubscribe(x) ==
    /\ sub[x] = "barred"
    /\ Settle(x, "error")
    /\ UNCHANGED <<coordinatorVars, annVars>>

\* Variant for mutation: no prefix of the namespace is looked for.
RetrieveExact(x) ==
    /\ sub[x] = "asked"
    /\ LET names == {n \in Matches(where[x], RequestOf[x]) : n = RequestOf[x]}
       IN IF names = {} THEN SubIs(x, "lookup")
          ELSE \E p \in names : Move(x, "found", where[x], path[x], local[where[x]][p], covered[x])
    /\ UNCHANGED <<coordinatorVars, annVars>>

\* Locals::retrieve: the longest prefix that is registered.
Retrieve(x) ==
    /\ sub[x] = "asked"
    /\ LET names == Longest(Matches(where[x], RequestOf[x]))
       IN IF names = {} THEN SubIs(x, "lookup")
          ELSE \E p \in names : Move(x, "found", where[x], path[x], local[where[x]][p], covered[x])
    /\ UNCHANGED <<coordinatorVars, annVars>>

\* TracksReader::subscribe has no track once the requests of the announcement are gone.
SubscribeLocal(x) ==
    /\ sub[x] = "found"
    /\ IF ann[found[x]] = "ended" THEN SubIs(x, "lookup") ELSE Settle(x, "served")
    /\ UNCHANGED <<coordinatorVars, annVars>>

\* RemoteManager::subscribe.  A relay that has been asked by another answers it with an
\* error; the subscriber is told not found by the relay it asked.
NotFound(x) ==
    /\ sub[x] = "lookup"
    /\ NoRelay \in Origins(RequestOf[x])
    /\ IF path[x] = {} THEN SubIs(x, "notfound") ELSE Settle(x, "error")
    /\ UNCHANGED <<coordinatorVars, annVars>>

\* The relay that the coordinator names may be the one that asks.  The entry of the track
\* at that remote is locked until it answers: who comes by again waits for himself.
AskRemote(x) ==
    /\ sub[x] = "lookup"
    /\ \E q \in Origins(RequestOf[x]) \ {NoRelay} :
          IF <<where[x], q>> \in path[x] THEN SubIs(x, "stuck")
          ELSE Move(x, "asked", q, path[x] \cup {<<where[x], q>>}, NoAnn, covered[x])
    /\ UNCHANGED <<coordinatorVars, annVars>>

\* The lookup fails, or the connection of some relay on the way.
SubscribeFails(x) ==
    /\ \/ sub[x] = "lookup"
       \/ path[x] # {} /\ sub[x] \in {"asked", "found", "stuck"}
    /\ Settle(x, "error")
    /\ UNCHANGED <<coordinatorVars, annVars>>

\* An answered subscription ends, and may be made anew.
Leave(x) ==
    /\ sub[x] \in {"served", "notfound", "error"}
    /\ Settle(x, "idle")
    /\ UNCHANGED <<coordinatorVars, annVars>>

-----------------------------------------------------------------------------
At(r) == {a \in Anns : RelayOf(a) = r}

Passes(x, r) == where[x] = r \/ \E e \in path[x] : r \in {e[1], e[2]}

\* A relay dies, its sessions and its connections with it, and comes back empty.  A relay
\* that has asked it for a track may not hear of that, and asks on (Remote.tla).
Crash(r) ==
    /\ \E a \in At(r) : ann[a] \notin {"none", "ended"}
    /\ CrashOf(At(r))
    /\ local' = [local EXCEPT ![r] = [n \in Namespaces |-> NoAnn]]
    /\ ann' = [a \in Anns |-> IF a \in At(r) /\ ann[a] # "none" THEN "ended" ELSE ann[a]]
    /\ \E hung \in SUBSET {x \in Subs : EntryOf[x] # r /\ path[x] # {} /\ Passes(x, r)} :
       LET lost == {x \in Subs : sub[x] # "idle" /\ Passes(x, r)} \ hung
       IN /\ sub' = [x \in Subs |-> IF x \in hung THEN "stuck"
                                    ELSE IF x \in lost THEN "error" ELSE sub[x]]
          /\ where' = [x \in Subs |-> IF x \in lost THEN EntryOf[x] ELSE where[x]]
          /\ path' = [x \in Subs |-> IF x \in lost THEN {} ELSE path[x]]
          /\ found' = [x \in Subs |-> IF x \in lost THEN NoAnn ELSE found[x]]
          /\ covered' = [x \in Subs |-> IF x \in lost THEN {} ELSE covered[x]]

Consumes(a) ==
    \/ RejectAnnounce(a) \/ ServeAnnounce(a) \/ AcceptAnnounce(a) \/ RegistrationFails(a)
    \/ ReleaseRegistration(a) \/ Unlist(a) \/ FinishAnnounce(a)

Produces(x) ==
    \/ RejectSubscribe(x) \/ Retrieve(x) \/ SubscribeLocal(x) \/ NotFound(x) \/ AskRemote(x)

Next ==
    \/ \E a \in Anns : Announce(a) \/ Consumes(a) \/ AbandonAnnounce(a) \/ EndAnnounce(a)
    \/ \E x \in Subs : Ask(x) \/ Produces(x) \/ SubscribeFails(x) \/ Leave(x)
    \/ \E r \in Relays : Crash(r)
    \/ Background /\ UNCHANGED <<annVars, subVars>>

Spec == RoutingInit /\ [][Next]_vars

BackgroundStep(A) == A /\ UNCHANGED <<annVars, subVars>>

\* The tasks of a relay run, requests to the coordinator are answered, and time goes by.
\* An Announced in the queue of a session is popped: if the pop sleeps beside it
\* (Queue.tla), with the next one.
Fairness ==
    /\ \A a \in Anns : /\ WF_vars(Consumes(a))
                       /\ WF_vars(BackgroundStep(Requests(a)))
                       /\ WF_vars(BackgroundStep(Refreshes(a)))
                       /\ WF_vars(BackgroundStep(DeleteOrigin(a)))
    /\ \A n \in Namespaces : WF_vars(BackgroundStep(Expire(n)))
    /\ WF_vars(BackgroundStep(Tick))
    /\ \A x \in Subs : WF_vars(Produces(x))

FairSpec == Spec /\ Fairness

-----------------------------------------------------------------------------
\* Every variable has its type.
TypeOK ==
    /\ CoordinatorTypeOK
    /\ local \in [Relays -> [Namespaces -> Anns \cup {NoAnn}]]
    /\ ann \in [Anns -> {"none", "queued", "barred", "registering", "serving",
                         "closing", "unlisting", "ending", "ended"}]
    /\ sub \in [Subs -> {"idle", "barred", "asked", "found", "lookup", "served",
                         "notfound", "error", "stuck"}]
    /\ where \in [Subs -> Relays]
    /\ path \in [Subs -> SUBSET (Relays \X Relays)]
    /\ found \in [Subs -> Anns \cup {NoAnn}]
    /\ covered \in [Subs -> SUBSET Anns]

\* A registration that nobody holds and nothing has removed: its caller was gone before
\* the call was done, or the relay died, or the removal is late or has failed.
LeftOver(a) ==
    /\ call[a] = "done"
    /\ handle[a] \in {"gone", "dropped"}
    /\ release[a] # "done"

\* A relay that the coordinator names for a namespace provides it locally, unless the
\* registration is left over (consumer.rs:86-121: the order of registration, and of the
\* drops).
EntryIsServed ==
    \A n \in Namespaces : store[n] # NoRelay =>
        \/ local[store[n]][n] # NoAnn
        \/ \E a \in At(store[n]) : NamespaceOf(a) = n /\ LeftOver(a)

\* A publisher that has its OK is who local subscribers of its namespace are routed to,
\* until it ends (local.rs:60-83, and Drop at 140-153, which removes by namespace).
OkMeansRouted == \A a \in Anns : ann[a] = "serving" => Slot(a) = a

\* Who is told that a namespace is not found asked for one that no publisher of the relay
\* has provided all the while, or found one that was about to end (producer.rs:98-170).
NotFoundIsHonest ==
    \A x \in Subs : sub[x] = "notfound" /\ found[x] = NoAnn =>
        \A a \in covered[x] : ann[a] # "serving"

\* With the api no relay takes a namespace over from another: it is removed or expires
\* first (moq-api/src/server.rs:82-120).
NoTakeover ==
    [][kind = "api" =>
        \A n \in Namespaces : store[n] # NoRelay => store'[n] \in {store[n], NoRelay}]_vars

\* With the api the namespaces of a relay that no longer holds a registration of them
\* become free, the delete request lost or not (api_coordinator.rs:71-90, 172-205).
OrphansExpire ==
    \A n \in Namespaces : \A r \in Relays :
        (kind = "api" /\ store[n] = r) ~>
            \/ store[n] # r
            \/ \E a \in At(r) : NamespaceOf(a) = n /\ handle[a] \in {"waiting", "held"}

\* Every announcement is answered: served, or ended (consumer.rs:47-183, session.rs:68-76).
AnnounceAnswered == \A a \in Anns : ann[a] \in {"queued", "barred"} ~> ann[a] \in {"serving", "ended"}

\* Every write of the file that was begun is still under way or was done.
WritesAreWhole ==
    \A a \in Anns : call[a] # "refused" /\ release[a] # "failed" /\ handle[a] # "gone"

\* coordinator.rs:454, "The namespace remains registered as long as this handle is held":
\* by whichever relay, it has an entry, if no write of the file has failed.  It has not.
RegisteredWhileHeld ==
    \A a \in Anns : handle[a] = "held" /\ WritesAreWhole => store[NamespaceOf(a)] # NoRelay

=============================================================================
