---------------------------- MODULE Coordinator ----------------------------
(***************************************************************************)
(* The two coordinators through which relays find each other's namespaces: *)
(* a file that they share (file_coordinator.rs) and the origins that the   *)
(* moq-api server keeps in Redis (api_coordinator.rs, moq-api).  Each      *)
(* registration is a call that the caller may give up while it is under    *)
(* way, then a handle, then the release of what it wrote; the api keeps    *)
(* refreshing it meanwhile.  Routing.tla has the callers.                  *)
(*                                                                         *)
(* A namespace here is a pair of a scope and a namespace, the key of both, *)
(* and is a sequence of fields.                                            *)
(* Time is counted in halves of the 600 s after which an origin expires,   *)
(* the interval of the refresh task.                                       *)
(***************************************************************************)
EXTENDS Naturals, Sequences, FiniteSets, FiniteSetsExt

CONSTANTS Relays,
          NoRelay,       \* no relay: what a lookup finds nowhere
          Anns,          \* registrations
          Namespaces,
          Homes,         \* who may register what: a relay and a namespace of each
          Kinds          \* the coordinators in use: "file", "api"

ASSUME CoordinatorAssumption ==
    /\ NoRelay \notin Relays
    /\ Homes \subseteq [Anns -> [relay : Relays, namespace : Namespaces]]
    /\ Kinds \subseteq {"file", "api"}

VARIABLES
    kind,      \* which coordinator the relays share
    home,      \* the relay and the namespace of each registration
    store,     \* the relay registered for each namespace, or NoRelay
    ttl,       \* halves of the time to live that are left (api)
    call,      \* how far the request of each registration is
    handle,    \* each registration for its caller
    refresh,   \* its refresh task (api)
    release    \* the removal of what it registered

fixed == <<kind, home>>
coordinatorVars == <<fixed, store, ttl, call, handle, refresh, release>>

TimeToLive == 2

RelayOf(a) == home[a].relay
NamespaceOf(a) == home[a].namespace

Init ==
    /\ kind \in Kinds /\ home \in Homes
    /\ store = [n \in Namespaces |-> NoRelay]
    /\ ttl = [n \in Namespaces |-> 0]
    /\ call = [a \in Anns |-> "none"]
    /\ handle = [a \in Anns |-> "none"]
    /\ refresh = [a \in Anns |-> "off"]
    /\ release = [a \in Anns |-> "none"]

Mine(a) == store[NamespaceOf(a)] = RelayOf(a)
Free(a) == store[NamespaceOf(a)] = NoRelay

Put(a, relay) == store' = [store EXCEPT ![NamespaceOf(a)] = relay]
Revive(a) == ttl' = [ttl EXCEPT ![NamespaceOf(a)] = TimeToLive]
CallIs(a, c) == call' = [call EXCEPT ![a] = c]
HandleIs(a, h) == handle' = [handle EXCEPT ![a] = h]
RefreshIs(a, r) == refresh' = [refresh EXCEPT ![a] = r]
ReleaseIs(a, r) == release' = [release EXCEPT ![a] = r]

\* The file is truncated before it is written: a write that fails, or dies, may empty it.
WriteBreaks == store' = store \/ store' = [n \in Namespaces |-> NoRelay]

-----------------------------------------------------------------------------
(* register_namespace: the call, the request it makes, and how it returns. *)

Register(a) ==
    /\ handle[a] = "none"
    /\ HandleIs(a, "waiting")
    /\ CallIs(a, "sent")
    /\ UNCHANGED <<fixed, store, ttl, refresh, release>>

\* The file, under its lock in a blocking thread that no caller can stop: whatever
\* the namespace had is overwritten.  Or the file cannot be opened, read or written.
WriteFile(a) ==
    /\ kind = "file"
    /\ call[a] = "sent"
    /\ \/ CallIs(a, "done") /\ Put(a, RelayOf(a))
       \/ CallIs(a, "refused") /\ WriteBreaks
    /\ UNCHANGED <<fixed, ttl, handle, refresh, release>>

\* set_origin of the server, GET: the same value again is accepted as it is, another
\* one is a Duplicate.
GetOrigin(a) ==
    /\ kind = "api"
    /\ call[a] = "sent"
    /\ CallIs(a, IF Free(a) THEN "checked" ELSE IF Mine(a) THEN "done" ELSE "refused")
    /\ UNCHANGED <<fixed, store, ttl, handle, refresh, release>>

\* Variant for mutation: SET without NX.
SetOriginAlways(a) ==
    /\ kind = "api"
    /\ call[a] = "checked"
    /\ CallIs(a, "done") /\ Put(a, RelayOf(a)) /\ Revive(a)
    /\ UNCHANGED <<fixed, handle, refresh, release>>

\* set_origin, SET NX EX: what another has set meanwhile, this relay included, makes
\* it a Duplicate.
SetOrigin(a) ==
    /\ kind = "api"
    /\ call[a] = "checked"
    /\ IF Free(a)
       THEN CallIs(a, "done") /\ Put(a, RelayOf(a)) /\ Revive(a)
       ELSE CallIs(a, "refused") /\ UNCHANGED <<store, ttl>>
    /\ UNCHANGED <<fixed, handle, refresh, release>>

\* The request is lost, or the server fails.
LoseCall(a) ==
    /\ kind = "api"
    /\ call[a] \in {"sent", "checked"}
    /\ CallIs(a, "refused")
    /\ UNCHANGED <<fixed, store, ttl, handle, refresh, release>>

\* The caller gets its handle; the api starts its refresh task, whose first tick is due
\* at once.
RegisterReturns(a) ==
    /\ handle[a] = "waiting" /\ call[a] = "done"
    /\ HandleIs(a, "held")
    /\ RefreshIs(a, IF kind = "api" THEN "due" ELSE "off")
    /\ UNCHANGED <<fixed, store, ttl, call, release>>

\* An error: the request was refused, or its answer lost whatever became of it.
RegisterFails(a) ==
    /\ handle[a] = "waiting"
    /\ call[a] = "refused" \/ kind = "api"
    /\ HandleIs(a, "gone")
    /\ UNCHANGED <<fixed, store, ttl, call, refresh, release>>

\* The caller is dropped at its await; the request goes on without it.
AbandonRegister(a) ==
    /\ handle[a] = "waiting"
    /\ HandleIs(a, "gone")
    /\ UNCHANGED <<fixed, store, ttl, call, refresh, release>>

-----------------------------------------------------------------------------
(* The refresh task: PATCH, a GET and an EXPIRE of the server. *)

\* Variant for mutation: a task that is refreshing is not told to stop.
NextRefresh(a) == "idle"

AfterRefresh(a) == IF handle[a] = "held" THEN "idle" ELSE "off"

\* What is missing or another's is not refreshed, and nothing comes of it.
PatchGet(a) ==
    /\ refresh[a] = "due"
    /\ RefreshIs(a, IF Mine(a) THEN "checked" ELSE AfterRefresh(a))
    /\ UNCHANGED <<fixed, store, ttl, call, handle, release>>

PatchExpire(a) ==
    /\ refresh[a] = "checked"
    /\ IF Free(a) THEN UNCHANGED ttl ELSE Revive(a)
    /\ RefreshIs(a, AfterRefresh(a))
    /\ UNCHANGED <<fixed, store, call, handle, release>>

PatchFails(a) ==
    /\ refresh[a] \in {"due", "checked"}
    /\ RefreshIs(a, AfterRefresh(a))
    /\ UNCHANGED <<fixed, store, ttl, call, handle, release>>

\* Half a time to live goes by: a refresh takes less, and is due again.
Tick ==
    /\ kind = "api"
    /\ \A a \in Anns : refresh[a] \in {"off", "idle"}
    /\ ttl' = [n \in Namespaces |-> IF ttl[n] = 0 THEN 0 ELSE ttl[n] - 1]
    /\ refresh' = [a \in Anns |-> IF refresh[a] = "idle" THEN "due" ELSE "off"]
    /\ UNCHANGED <<fixed, store, call, handle, release>>

\* Redis: a key whose time is up goes.
Expire(n) ==
    /\ kind = "api"
    /\ store[n] # NoRelay /\ ttl[n] = 0
    /\ store' = [store EXCEPT ![n] = NoRelay]
    /\ UNCHANGED <<fixed, ttl, call, handle, refresh, release>>

-----------------------------------------------------------------------------
(* The handle is dropped. *)

\* The api stops the refresh task, which finishes the request it is in, and leaves the
\* removal to a task.
DropApiHandle(a) ==
    /\ kind = "api"
    /\ handle[a] = "held"
    /\ HandleIs(a, "dropped")
    /\ RefreshIs(a, IF refresh[a] \in {"due", "checked"} THEN refresh[a] ELSE "off")
    /\ ReleaseIs(a, "sent")
    /\ UNCHANGED <<fixed, store, ttl, call>>

\* The file is rewritten before drop returns, unless that fails: the namespace goes,
\* whoever has registered it since.
DropFileHandle(a) ==
    /\ kind = "file"
    /\ handle[a] = "held"
    /\ HandleIs(a, "dropped")
    /\ \/ Put(a, NoRelay) /\ ReleaseIs(a, "done")
       \/ ReleaseIs(a, "failed") /\ WriteBreaks
    /\ UNCHANGED <<fixed, ttl, call, refresh>>

DropHandle(a) == DropApiHandle(a) \/ DropFileHandle(a)

\* delete_origin of the server, whatever the value; or the request is lost.
DeleteOrigin(a) ==
    /\ release[a] = "sent"
    /\ \/ Put(a, NoRelay) /\ ReleaseIs(a, "done")
       \/ ReleaseIs(a, "failed") /\ UNCHANGED store
    /\ UNCHANGED <<fixed, ttl, call, handle, refresh>>

\* The process dies with the registrations of these, and nothing is released.  A write of
\* the file that was under way breaks; a request that was sent to the api is in flight,
\* and the server may still answer it.
CrashOf(as) ==
    /\ handle' = [a \in Anns |-> IF a \in as /\ handle[a] # "none" THEN "gone" ELSE handle[a]]
    /\ refresh' = [a \in Anns |-> IF a \in as /\ refresh[a] = "idle" THEN "off" ELSE refresh[a]]
    /\ call' = [a \in Anns |-> IF a \in as /\ kind = "file" /\ call[a] = "sent" THEN "refused"
                                ELSE call[a]]
    /\ \/ UNCHANGED store
       \/ /\ kind = "file"
          /\ \E a \in as : call[a] = "sent" \/ handle[a] = "held"
          /\ WriteBreaks
    /\ UNCHANGED <<fixed, ttl, release>>

-----------------------------------------------------------------------------
(* lookup *)

IsPrefixOf(p, n) == Len(p) <= Len(n) /\ \A i \in 1..Len(p) : p[i] = n[i]

\* The zip of the two stops at the end of the shorter one.
ZipMatches(p, n) == IsPrefixOf(p, n) \/ IsPrefixOf(n, p)

Registered == {n \in Namespaces : store[n] # NoRelay}

Longest(names) == {p \in names : \A q \in names : Len(q) <= Len(p)}

\* The api looks for the namespace itself; the file next for the longest that matches,
\* by the length of its string (here, of its fields).
Found(n) ==
    IF n \in Registered THEN {n}
    ELSE IF kind = "file" THEN Longest({p \in Registered : ZipMatches(p, n)}) ELSE {}

Origins(n) == IF Found(n) = {} THEN {NoRelay} ELSE {store[p] : p \in Found(n)}

-----------------------------------------------------------------------------
Requests(a) == WriteFile(a) \/ GetOrigin(a) \/ SetOrigin(a) \/ LoseCall(a)

Refreshes(a) == PatchGet(a) \/ PatchExpire(a) \/ PatchFails(a)

\* What goes on by itself.
Background ==
    \/ \E a \in Anns : Requests(a) \/ Refreshes(a) \/ DeleteOrigin(a)
    \/ \E n \in Namespaces : Expire(n)
    \/ Tick

CoordinatorTypeOK ==
    /\ kind \in Kinds /\ home \in Homes
    /\ store \in [Namespaces -> Relays \cup {NoRelay}]
    /\ ttl \in [Namespaces -> 0..TimeToLive]
    /\ call \in [Anns -> {"none", "sent", "checked", "done", "refused"}]
    /\ handle \in [Anns -> {"none", "waiting", "held", "dropped", "gone"}]
    /\ refresh \in [Anns -> {"off", "due", "checked", "idle"}]
    /\ release \in [Anns -> {"none", "sent", "done", "failed"}]
=============================================================================
