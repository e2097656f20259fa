--------------------------- MODULE RoutingProofs ---------------------------
(***************************************************************************)
(* Proofs about Routing.tla for every set of relays, of registrations, of  *)
(* namespaces and of subscriptions: what a coordinator names is provided,  *)
(* who has an OK is routed to, and with the api no relay takes a namespace *)
(* over from another.                                                      *)
(*                                                                         *)
(* Every entry of the store is of a registration whose request was done    *)
(* and which has not been removed; its caller is still in serve, where it  *)
(* holds the slot of the namespace at its relay, or has left it over.      *)
(***************************************************************************)
EXTENDS Routing, TLAPS, WellFoundedInduction

\* A handle comes of a request that was done, and a removal of a handle.
CallsAgree ==
    \A a \in Anns :
        /\ handle[a] = "none" => call[a] = "none"
        /\ handle[a] = "held" => call[a] = "done"
        /\ release[a] # "none" => call[a] = "done" /\ handle[a] \in {"dropped", "gone"}

Owns(a, n) ==
    /\ RelayOf(a) = store[n] /\ NamespaceOf(a) = n
    /\ call[a] = "done" /\ release[a] # "done"

EntriesHaveOwners == \A n \in Namespaces : store[n] # NoRelay => \E a \in Anns : Owns(a, n)

CInv == CoordinatorTypeOK /\ CallsAgree /\ EntriesHaveOwners

\* How far serve is with an announcement tells what it has registered.
ServeAgrees ==
    \A a \in Anns :
        /\ ann[a] \in {"none", "queued", "barred"} => handle[a] = "none"
        /\ handle[a] = "waiting" => ann[a] = "registering"
        /\ handle[a] = "held" => ann[a] \in {"serving", "closing"}

Listed(a) == ann[a] \in {"registering", "serving", "closing", "unlisting"}

SlotsAreHeld == \A a \in Anns : Listed(a) => Slot(a) = a

AnnStates == {"none", "queued", "barred", "registering", "serving",
              "closing", "unlisting", "ending", "ended"}

AnnTypeOK == local \in [Relays -> [Namespaces -> Anns \cup {NoAnn}]] /\ ann \in [Anns -> AnnStates]

AInv == AnnTypeOK /\ ServeAgrees /\ SlotsAreHeld

SubTypeOK ==
    /\ sub \in [Subs -> {"idle", "barred", "asked", "found", "lookup", "served",
                         "notfound", "error", "stuck"}]
    /\ where \in [Subs -> Relays]
    /\ path \in [Subs -> SUBSET (Relays \X Relays)]
    /\ found \in [Subs -> Anns \cup {NoAnn}]
    /\ covered \in [Subs -> SUBSET Anns]

\* Namespaces have a field: Locals::retrieve finds no prefix without any.
NamesHaveFields ==
    /\ \A n \in Namespaces : Len(n) \in Nat /\ Len(n) > 0
    /\ \A x \in Subs : Len(RequestOf[x]) \in Nat

\* Where a subscription is at the relay that it asked, and what it knows there: who
\* covered it may have ended since, and has if it had to go to the coordinator.
SubKnows(x) ==
    /\ path[x] = {} => where[x] = EntryOf[x]
    /\ \A a \in covered[x] :
          /\ RelayOf(a) = EntryOf[x] /\ IsPrefixOf(NamespaceOf(a), RequestOf[x])
          /\ ann[a] \notin {"none", "queued", "barred", "registering"}
    /\ sub[x] = "notfound" => path[x] = {}
    /\ sub[x] = "found" => found[x] # NoAnn
    /\ NamesHaveFields /\ sub[x] \in {"lookup", "notfound"} /\ path[x] = {} /\ found[x] = NoAnn =>
          \A a \in covered[x] : ann[a] # "serving"

SInv == SubTypeOK /\ \A x \in Subs : SubKnows(x)

-----------------------------------------------------------------------------
(* The coordinators *)

LEMMA HomesTyped ==
    ASSUME CoordinatorAssumption, CoordinatorTypeOK, NEW a \in Anns
    PROVE  RelayOf(a) \in Relays /\ NamespaceOf(a) \in Namespaces /\ RelayOf(a) # NoRelay
BY DEF CoordinatorAssumption, CoordinatorTypeOK, RelayOf, NamespaceOf

\* A write of the file that breaks leaves every owner as it was.
LEMMA BreakingKeepsOwners ==
    ASSUME CInv, WriteBreaks, home' = home,
           \A a \in Anns : call[a] = "done" => call'[a] = "done",
           \A a \in Anns : call[a] = "done" /\ release'[a] = "done" => release[a] = "done"
    PROVE  EntriesHaveOwners' /\ store' \in [Namespaces -> Relays \cup {NoRelay}]
<1>1. CASE store' = store
  BY <1>1 DEF CInv, EntriesHaveOwners, Owns, RelayOf, NamespaceOf, CoordinatorTypeOK
<1>2. CASE store' = [n \in Namespaces |-> NoRelay]
  BY <1>2 DEF EntriesHaveOwners
<1>3. QED
  BY <1>1, <1>2 DEF WriteBreaks

LEMMA RegisterKeeps ==
    ASSUME CoordinatorAssumption, CInv, NEW a \in Anns, Register(a)
    PROVE  CInv'
<1>1. CoordinatorTypeOK'
  BY DEF Register, HandleIs, CallIs, fixed, CInv, CoordinatorTypeOK
<1>2. CallsAgree'
  BY DEF Register, HandleIs, CallIs, fixed, CInv, CoordinatorTypeOK, CallsAgree
<1>3. call[a] = "none"
  BY DEF Register, CInv, CallsAgree
<1>4. EntriesHaveOwners'
  BY <1>3 DEF Register, HandleIs, CallIs, fixed, CInv, CoordinatorTypeOK, EntriesHaveOwners,
              Owns, RelayOf, NamespaceOf
<1>5. QED
  BY <1>1, <1>2, <1>4 DEF CInv

\* Whoever puts its relay there owns the entry.
LEMMA PutOwns ==
    ASSUME CoordinatorAssumption, CInv, NEW a \in Anns, Put(a, RelayOf(a)), home' = home,
           CallIs(a, "done"), release[a] = "none", release' = release
    PROVE  EntriesHaveOwners'
<1> SUFFICES ASSUME NEW n \in Namespaces, store'[n] # NoRelay
             PROVE  \E b \in Anns : Owns(b, n)'
  BY DEF EntriesHaveOwners
<1>1. CASE n = NamespaceOf(a)
  <2>1. Owns(a, n)'
    BY <1>1, HomesTyped DEF Put, CallIs, Owns, CInv, CoordinatorTypeOK, RelayOf, NamespaceOf
  <2>2. QED
    BY <2>1
<1>2. CASE n # NamespaceOf(a)
  <2>1. store'[n] = store[n]
    BY <1>2 DEF Put, CInv, CoordinatorTypeOK
  <2>2. PICK b \in Anns : Owns(b, n)
    BY <2>1 DEF CInv, EntriesHaveOwners
  <2>3. Owns(b, n)'
    BY <2>1, <2>2 DEF Owns, CallIs, CInv, CoordinatorTypeOK, RelayOf, NamespaceOf
  <2>4. QED
    BY <2>3
<1>3. QED
  BY <1>1, <1>2

LEMMA WriteFileKeeps ==
    ASSUME CoordinatorAssumption, CInv, NEW a \in Anns, WriteFile(a)
    PROVE  CInv'
<1>1. release[a] = "none" /\ call[a] = "sent"
  BY DEF WriteFile, CInv, CallsAgree, CoordinatorTypeOK
<1>2. CASE CallIs(a, "done") /\ Put(a, RelayOf(a))
  <2>1. EntriesHaveOwners'
    BY <1>1, <1>2, PutOwns DEF WriteFile, fixed
  <2>2. CoordinatorTypeOK'
    BY <1>2, HomesTyped DEF WriteFile, CallIs, Put, fixed, CInv, CoordinatorTypeOK
  <2>3. CallsAgree'
    BY <1>1, <1>2 DEF WriteFile, CallIs, fixed, CInv, CoordinatorTypeOK, CallsAgree
  <2>4. QED
    BY <2>1, <2>2, <2>3 DEF CInv
<1>3. CASE CallIs(a, "refused") /\ WriteBreaks
  <2>1. EntriesHaveOwners' /\ store' \in [Namespaces -> Relays \cup {NoRelay}]
    BY <1>1, <1>3, BreakingKeepsOwners DEF WriteFile, CallIs, fixed, CInv, CoordinatorTypeOK
  <2>2. CoordinatorTypeOK'
    BY <2>1, <1>3 DEF WriteFile, CallIs, fixed, CInv, CoordinatorTypeOK
  <2>3. CallsAgree'
    BY <1>1, <1>3 DEF WriteFile, CallIs, fixed, CInv, CoordinatorTypeOK, CallsAgree
  <2>4. QED
    BY <2>1, <2>2, <2>3 DEF CInv
<1>4. QED
  BY <1>2, <1>3 DEF WriteFile

\* An answer that writes nothing.
LEMMA AnswerKeeps ==
    ASSUME CoordinatorAssumption, CInv, NEW a \in Anns,
           call[a] \in {"sent", "checked"},
           NEW c \in {"checked", "done", "refused"}, CallIs(a, c),
           UNCHANGED <<fixed, store, ttl, handle, refresh, release>>
    PROVE  CInv'
<1>1. CoordinatorTypeOK'
  BY DEF CallIs, fixed, CInv, CoordinatorTypeOK
<1>2. CallsAgree'
  BY DEF CallIs, fixed, CInv, CoordinatorTypeOK, CallsAgree
<1>3. EntriesHaveOwners'
  BY DEF CallIs, fixed, CInv, CoordinatorTypeOK, EntriesHaveOwners, Owns, RelayOf, NamespaceOf
<1>4. QED
  BY <1>1, <1>2, <1>3 DEF CInv

LEMMA RequestsKeep ==
    ASSUME CoordinatorAssumption, CInv, NEW a \in Anns, Requests(a)
    PROVE  CInv'
<1>1. CASE WriteFile(a)
  BY <1>1, WriteFileKeeps
<1>2. CASE GetOrigin(a)
  BY <1>2, AnswerKeeps DEF GetOrigin
<1>3. CASE SetOrigin(a)
  <2>1. CASE ~Free(a)
    BY <1>3, <2>1, AnswerKeeps DEF SetOrigin
  <2>2. CASE Free(a)
    <3>1. release[a] = "none"
      BY <1>3 DEF SetOrigin, CInv, CallsAgree, CoordinatorTypeOK
    <3>2. EntriesHaveOwners'
      BY <1>3, <2>2, <3>1, PutOwns DEF SetOrigin, fixed
    <3>3. CoordinatorTypeOK'
      <4>1. store' \in [Namespaces -> Relays \cup {NoRelay}]
        BY <1>3, <2>2, HomesTyped DEF SetOrigin, Put, CInv, CoordinatorTypeOK
      <4>2. ttl' \in [Namespaces -> 0..TimeToLive]
        BY <1>3, <2>2 DEF SetOrigin, Revive, TimeToLive, CInv, CoordinatorTypeOK
      <4>3. QED
        BY <1>3, <2>2, <4>1, <4>2 DEF SetOrigin, CallIs, fixed, CInv, CoordinatorTypeOK
    <3>4. CallsAgree'
      BY <1>3, <2>2 DEF SetOrigin, CallIs, fixed, CInv, CoordinatorTypeOK, CallsAgree
    <3>5. QED
      BY <3>2, <3>3, <3>4 DEF CInv
  <2>3. QED
    BY <2>1, <2>2
<1>4. CASE LoseCall(a)
  BY <1>4, AnswerKeeps DEF LoseCall
<1>5. QED
  BY <1>1, <1>2, <1>3, <1>4 DEF Requests

\* What changes neither the requests, nor the entries, nor whether a handle is held.
LEMMA TimesKeep ==
    ASSUME CInv, UNCHANGED <<fixed, store, call, handle, release>>,
           ttl' \in [Namespaces -> 0..TimeToLive],
           refresh' \in [Anns -> {"off", "due", "checked", "idle"}]
    PROVE  CInv'
<1>1. CoordinatorTypeOK'
  BY DEF fixed, CInv, CoordinatorTypeOK
<1>2. CallsAgree'
  BY DEF CInv, CallsAgree
<1>3. EntriesHaveOwners'
  BY DEF fixed, CInv, EntriesHaveOwners, Owns, RelayOf, NamespaceOf
<1>4. QED
  BY <1>1, <1>2, <1>3 DEF CInv

LEMMA RefreshesKeep ==
    ASSUME CoordinatorAssumption, CInv, NEW a \in Anns, Refreshes(a)
    PROVE  CInv'
<1>1. ttl \in [Namespaces -> 0..TimeToLive] /\ refresh \in [Anns -> {"off", "due", "checked", "idle"}]
  BY DEF CInv, CoordinatorTypeOK
<1>2. CASE PatchGet(a)
  BY <1>1, <1>2, TimesKeep DEF PatchGet, RefreshIs, AfterRefresh
<1>3. CASE PatchExpire(a)
  <2>1. ttl' \in [Namespaces -> 0..TimeToLive]
    BY <1>1, <1>3 DEF PatchExpire, Revive, TimeToLive
  <2>2. refresh' \in [Anns -> {"off", "due", "checked", "idle"}]
    BY <1>1, <1>3 DEF PatchExpire, RefreshIs, AfterRefresh
  <2>3. QED
    BY <1>3, <2>1, <2>2, TimesKeep DEF PatchExpire
<1>4. CASE PatchFails(a)
  BY <1>1, <1>4, TimesKeep DEF PatchFails, RefreshIs, AfterRefresh
<1>5. QED
  BY <1>2, <1>3, <1>4 DEF Refreshes

LEMMA TickKeeps == ASSUME CInv, Tick PROVE CInv'
<1>1. ttl' \in [Namespaces -> 0..TimeToLive]
  BY DEF Tick, TimeToLive, CInv, CoordinatorTypeOK
<1>2. refresh' \in [Anns -> {"off", "due", "checked", "idle"}]
  BY DEF Tick
<1>3. QED
  BY <1>1, <1>2, TimesKeep DEF Tick

\* An entry that is removed has no owner to keep.
LEMMA RemovalKeepsOwners ==
    ASSUME CoordinatorAssumption, CInv, NEW n \in Namespaces,
           store' = [store EXCEPT ![n] = NoRelay], home' = home, call' = call,
           \A b \in Anns : NamespaceOf(b) # n /\ release'[b] = "done" => release[b] = "done"
    PROVE  EntriesHaveOwners'
<1> SUFFICES ASSUME NEW m \in Namespaces, store'[m] # NoRelay
             PROVE  \E b \in Anns : Owns(b, m)'
  BY DEF EntriesHaveOwners
<1>1. m # n /\ store'[m] = store[m]
  BY DEF CInv, CoordinatorTypeOK
<1>2. PICK b \in Anns : Owns(b, m)
  BY <1>1 DEF CInv, EntriesHaveOwners
<1>3. Owns(b, m)'
  BY <1>1, <1>2 DEF Owns, RelayOf, NamespaceOf
<1>4. QED
  BY <1>3

LEMMA ExpireKeeps ==
    ASSUME CoordinatorAssumption, CInv, NEW n \in Namespaces, Expire(n)
    PROVE  CInv'
<1>1. CoordinatorTypeOK'
  BY DEF Expire, fixed, CInv, CoordinatorTypeOK
<1>2. CallsAgree'
  BY DEF Expire, CInv, CallsAgree
<1>3. EntriesHaveOwners'
  BY RemovalKeepsOwners DEF Expire, fixed
<1>4. QED
  BY <1>1, <1>2, <1>3 DEF CInv

LEMMA DeleteOriginKeeps ==
    ASSUME CoordinatorAssumption, CInv, NEW a \in Anns, DeleteOrigin(a)
    PROVE  CInv'
<1>1. NamespaceOf(a) \in Namespaces
  BY HomesTyped DEF CInv
<1>2. CASE Put(a, NoRelay) /\ ReleaseIs(a, "done")
  <2>1. CoordinatorTypeOK'
    BY <1>2 DEF DeleteOrigin, Put, ReleaseIs, fixed, CInv, CoordinatorTypeOK
  <2>2. CallsAgree'
    BY <1>2 DEF DeleteOrigin, ReleaseIs, CInv, CallsAgree, CoordinatorTypeOK
  <2>3. EntriesHaveOwners'
    BY <1>1, <1>2, RemovalKeepsOwners
    DEF DeleteOrigin, Put, ReleaseIs, fixed, CInv, CoordinatorTypeOK
  <2>4. QED
    BY <2>1, <2>2, <2>3 DEF CInv
<1>3. CASE ReleaseIs(a, "failed") /\ UNCHANGED store
  <2>1. CoordinatorTypeOK'
    BY <1>3 DEF DeleteOrigin, ReleaseIs, fixed, CInv, CoordinatorTypeOK
  <2>2. CallsAgree'
    BY <1>3 DEF DeleteOrigin, ReleaseIs, CInv, CallsAgree, CoordinatorTypeOK
  <2>3. EntriesHaveOwners'
    BY <1>3 DEF DeleteOrigin, ReleaseIs, fixed, CInv, CoordinatorTypeOK, EntriesHaveOwners,
                Owns, RelayOf, NamespaceOf
  <2>4. QED
    BY <2>1, <2>2, <2>3 DEF CInv
<1>4. QED
  BY <1>2, <1>3 DEF DeleteOrigin

\* Every step of the coordinators that Routing.tla leaves to them.
LEMMA BackgroundKeeps == ASSUME CoordinatorAssumption, CInv, Background PROVE CInv'
BY RequestsKeep, RefreshesKeep, DeleteOriginKeeps, ExpireKeeps, TickKeeps DEF Background

\* What changes only the handle of one registration, and its refresh task.
LEMMA HandleKeeps ==
    ASSUME CInv, NEW a \in Anns, handle[a] = "waiting",
           NEW h \in {"held", "gone"}, HandleIs(a, h), h = "held" => call[a] = "done",
           UNCHANGED <<fixed, store, ttl, call, release>>,
           refresh' \in [Anns -> {"off", "due", "checked", "idle"}]
    PROVE  CInv'
<1>1. CoordinatorTypeOK'
  BY DEF HandleIs, fixed, CInv, CoordinatorTypeOK
<1>2. CallsAgree'
  BY DEF HandleIs, CInv, CallsAgree, CoordinatorTypeOK
<1>3. EntriesHaveOwners'
  BY DEF fixed, CInv, EntriesHaveOwners, Owns, RelayOf, NamespaceOf
<1>4. QED
  BY <1>1, <1>2, <1>3 DEF CInv

LEMMA ReturnKeeps ==
    ASSUME CInv, NEW a \in Anns, RegisterReturns(a) \/ RegisterFails(a) \/ AbandonRegister(a)
    PROVE  CInv'
<1>1. refresh' \in [Anns -> {"off", "due", "checked", "idle"}]
  BY DEF RegisterReturns, RegisterFails, AbandonRegister, RefreshIs, CInv, CoordinatorTypeOK
<1>2. CASE RegisterReturns(a)
  BY <1>1, <1>2, HandleKeeps DEF RegisterReturns
<1>3. CASE RegisterFails(a)
  BY <1>1, <1>3, HandleKeeps DEF RegisterFails
<1>4. CASE AbandonRegister(a)
  BY <1>1, <1>4, HandleKeeps DEF AbandonRegister
<1>5. QED
  BY <1>2, <1>3, <1>4

LEMMA DropApiHandleKeeps ==
    ASSUME CoordinatorAssumption, CInv, NEW a \in Anns, DropApiHandle(a)
    PROVE  CInv'
<1>1. CoordinatorTypeOK'
  BY DEF DropApiHandle, HandleIs, RefreshIs, ReleaseIs, fixed, CInv, CoordinatorTypeOK
<1>2. CallsAgree'
  BY DEF DropApiHandle, HandleIs, ReleaseIs, CInv, CallsAgree, CoordinatorTypeOK
<1>3. EntriesHaveOwners'
  BY DEF DropApiHandle, ReleaseIs, fixed, CInv, CoordinatorTypeOK, EntriesHaveOwners, Owns,
         RelayOf, NamespaceOf
<1>4. QED
  BY <1>1, <1>2, <1>3 DEF CInv

LEMMA DropFileHandleKeeps ==
    ASSUME CoordinatorAssumption, CInv, NEW a \in Anns, DropFileHandle(a)
    PROVE  CInv'
<1>1. NamespaceOf(a) \in Namespaces
  BY HomesTyped DEF CInv
<1>2. ASSUME NEW r \in {"done", "failed"}, ReleaseIs(a, r) PROVE CallsAgree'
  BY <1>2 DEF DropFileHandle, HandleIs, ReleaseIs, CInv, CallsAgree, CoordinatorTypeOK
<1>3. ASSUME NEW r \in {"done", "failed"}, ReleaseIs(a, r),
             store' \in [Namespaces -> Relays \cup {NoRelay}]
      PROVE  CoordinatorTypeOK'
  BY <1>3 DEF DropFileHandle, HandleIs, ReleaseIs, fixed, CInv, CoordinatorTypeOK
<1>4. CASE Put(a, NoRelay) /\ ReleaseIs(a, "done")
  <2>1. store' \in [Namespaces -> Relays \cup {NoRelay}]
    BY <1>4 DEF Put, CInv, CoordinatorTypeOK
  <2>2. EntriesHaveOwners'
    BY <1>1, <1>4, RemovalKeepsOwners
    DEF DropFileHandle, Put, ReleaseIs, fixed, CInv, CoordinatorTypeOK
  <2>3. QED
    BY <1>2, <1>3, <1>4, <2>1, <2>2 DEF CInv
<1>5. CASE ReleaseIs(a, "failed") /\ WriteBreaks
  <2>1. EntriesHaveOwners' /\ store' \in [Namespaces -> Relays \cup {NoRelay}]
    BY <1>5, BreakingKeepsOwners DEF DropFileHandle, ReleaseIs, fixed, CInv, CoordinatorTypeOK
  <2>2. QED
    BY <1>2, <1>3, <1>5, <2>1 DEF CInv
<1>6. QED
  BY <1>4, <1>5 DEF DropFileHandle

LEMMA CrashKeeps ==
    ASSUME CoordinatorAssumption, CInv, NEW as \in SUBSET Anns, CrashOf(as)
    PROVE  CInv'
<1>1. /\ call' = [a \in Anns |-> IF a \in as /\ kind = "file" /\ call[a] = "sent" THEN "refused"
                                  ELSE call[a]]
      /\ handle' = [a \in Anns |-> IF a \in as /\ handle[a] # "none" THEN "gone" ELSE handle[a]]
      /\ release' = release
  BY DEF CrashOf
<1>2. CallsAgree'
  BY <1>1 DEF CInv, CallsAgree
<1>3. EntriesHaveOwners' /\ store' \in [Namespaces -> Relays \cup {NoRelay}]
  <2>1. WriteBreaks /\ home' = home
    BY DEF CrashOf, WriteBreaks, fixed
  <2>2. QED
    BY <1>1, <2>1, BreakingKeepsOwners
<1>4. CoordinatorTypeOK'
  BY <1>3 DEF CrashOf, fixed, CInv, CoordinatorTypeOK
<1>5. QED
  BY <1>2, <1>3, <1>4 DEF CInv

-----------------------------------------------------------------------------
(* The Consumer *)

\* The steps of announcements: each is of the coordinators, or leaves them alone.
LEMMA ConsumerKeepsC ==
    ASSUME CoordinatorAssumption, CInv, NEW a \in Anns,
           Announce(a) \/ Consumes(a) \/ AbandonAnnounce(a) \/ EndAnnounce(a)
    PROVE  CInv'
<1>1. CASE UNCHANGED coordinatorVars
  BY <1>1 DEF coordinatorVars, fixed, CInv, CoordinatorTypeOK, CallsAgree, EntriesHaveOwners,
              Owns, RelayOf, NamespaceOf
<1>2. CASE Register(a) \/ RegisterReturns(a) \/ RegisterFails(a) \/ AbandonRegister(a)
           \/ DropHandle(a)
  BY <1>2, RegisterKeeps, ReturnKeeps, DropApiHandleKeeps, DropFileHandleKeeps DEF DropHandle
<1>3. QED
  BY <1>1, <1>2 DEF Announce, Consumes, AbandonAnnounce, EndAnnounce, RejectAnnounce,
                    ServeAnnounce, AcceptAnnounce, RegistrationFails, ReleaseRegistration,
                    Unlist, FinishAnnounce

\* An announcement goes on, its registration with it, and its slot stays.
LEMMA AnnounceMoves ==
    ASSUME CInv, AInv, NEW a \in Anns, NEW s \in AnnStates, AnnIs(a, s),
           handle' = handle \/ \E h \in {"held", "dropped", "gone"} : HandleIs(a, h),
           s \in {"queued", "barred"} => handle'[a] = "none",
           s # "none",
           handle'[a] = "waiting" => s = "registering",
           handle'[a] = "held" => s \in {"serving", "closing"},
           s \in {"registering", "serving", "closing", "unlisting"} => Listed(a),
           UNCHANGED <<home, local>>
    PROVE  AInv'
<1>1. AnnTypeOK'
  BY DEF AnnIs, AInv, AnnTypeOK
<1>2. ServeAgrees'
  BY DEF AnnIs, HandleIs, AInv, AnnTypeOK, ServeAgrees, CInv, CoordinatorTypeOK
<1>3. SlotsAreHeld'
  BY DEF AnnIs, AInv, AnnTypeOK, SlotsAreHeld, Listed, Slot, RelayOf, NamespaceOf
<1>4. QED
  BY <1>1, <1>2, <1>3 DEF AInv

LEMMA ServeAnnounceKeeps ==
    ASSUME CoordinatorAssumption, RoutingAssumption, CInv, AInv, NEW a \in Anns, ServeAnnounce(a)
    PROVE  AInv'
<1>1. RelayOf(a) \in Relays /\ NamespaceOf(a) \in Namespaces
  BY HomesTyped DEF CInv
<1>2. CASE Slot(a) = NoAnn
  <2>1. /\ SetSlot(a, a) /\ AnnIs(a, "registering") /\ home' = home
        /\ HandleIs(a, "waiting")
    BY <1>2 DEF ServeAnnounce, Register, fixed
  <2>2. AnnTypeOK'
    BY <1>1, <2>1 DEF SetSlot, AnnIs, AInv, AnnTypeOK, AnnStates
  <2>3. ServeAgrees'
    BY <2>1 DEF AnnIs, HandleIs, AInv, AnnTypeOK, ServeAgrees, CInv, CoordinatorTypeOK
  <2>4. ASSUME NEW b \in Anns, Listed(b)' PROVE Slot(b)' = b
    <3>1. CASE b = a
      BY <1>1, <2>1, <3>1 DEF SetSlot, Slot, RelayOf, NamespaceOf, AInv, AnnTypeOK
    <3>2. CASE b # a
      <4>1. Slot(b) = b /\ b # NoAnn
        BY <2>1, <2>4, <3>2 DEF AnnIs, Listed, AInv, AnnTypeOK, SlotsAreHeld, RoutingAssumption
      <4>2. RelayOf(b) # RelayOf(a) \/ NamespaceOf(b) # NamespaceOf(a)
        BY <1>2, <4>1 DEF Slot
      <4>3. QED
        BY <1>1, <2>1, <4>1, <4>2, HomesTyped
        DEF SetSlot, Slot, RelayOf, NamespaceOf, AInv, AnnTypeOK, CInv
    <3>3. QED
      BY <3>1, <3>2
  <2>5. QED
    BY <2>2, <2>3, <2>4 DEF AInv, SlotsAreHeld
<1>3. CASE Slot(a) # NoAnn
  <2>1. /\ ann[a] = "queued" /\ AnnIs(a, "ended")
        /\ UNCHANGED <<home, local, handle>>
    BY <1>3 DEF ServeAnnounce, coordinatorVars, fixed
  <2>2. handle[a] = "none"
    BY <2>1 DEF AInv, ServeAgrees
  <2>3. QED
    BY <2>1, <2>2, AnnounceMoves DEF AnnStates
<1>4. QED
  BY <1>2, <1>3

LEMMA UnlistKeeps ==
    ASSUME CoordinatorAssumption, RoutingAssumption, CInv, AInv, NEW a \in Anns, Unlist(a)
    PROVE  AInv'
<1>1. RelayOf(a) \in Relays /\ NamespaceOf(a) \in Namespaces
  BY HomesTyped DEF CInv
<1>2. /\ SetSlot(a, NoAnn) /\ AnnIs(a, "ending") /\ ann[a] = "unlisting"
      /\ UNCHANGED <<home, handle>>
  BY DEF Unlist, coordinatorVars, fixed
<1>3. AnnTypeOK'
  BY <1>1, <1>2 DEF SetSlot, AnnIs, AInv, AnnTypeOK, AnnStates
<1>4. ServeAgrees'
  BY <1>2 DEF AnnIs, AInv, AnnTypeOK, ServeAgrees
<1>5. ASSUME NEW b \in Anns, Listed(b)' PROVE Slot(b)' = b
  <2>1. b # a /\ Listed(b)
    BY <1>2, <1>5 DEF AnnIs, Listed, AInv, AnnTypeOK
  <2>2. Slot(b) = b /\ Slot(a) = a
    BY <1>2, <2>1 DEF AInv, SlotsAreHeld, Listed
  <2>3. RelayOf(b) # RelayOf(a) \/ NamespaceOf(b) # NamespaceOf(a)
    BY <2>1, <2>2 DEF Slot
  <2>4. QED
    BY <1>1, <1>2, <2>2, <2>3, HomesTyped
    DEF SetSlot, Slot, RelayOf, NamespaceOf, AInv, AnnTypeOK, CInv
<1>6. QED
  BY <1>3, <1>4, <1>5 DEF AInv, SlotsAreHeld

LEMMA ConsumerKeepsA ==
    ASSUME CoordinatorAssumption, RoutingAssumption, CInv, AInv, NEW a \in Anns,
           Announce(a) \/ Consumes(a) \/ AbandonAnnounce(a) \/ EndAnnounce(a)
    PROVE  AInv'
<1> USE DEF coordinatorVars, fixed, AnnStates
<1>1. /\ ann[a] \in {"none", "queued", "barred"} => handle[a] = "none"
      /\ handle[a] = "waiting" => ann[a] = "registering"
      /\ handle[a] = "held" => ann[a] \in {"serving", "closing"}
      /\ handle \in [Anns -> {"none", "waiting", "held", "dropped", "gone"}]
  BY DEF AInv, ServeAgrees, CInv, CoordinatorTypeOK
<1>2. CASE Announce(a)
  BY <1>1, <1>2, AnnounceMoves DEF Announce
<1>3. CASE RejectAnnounce(a)
  BY <1>1, <1>3, AnnounceMoves DEF RejectAnnounce
<1>4. CASE AcceptAnnounce(a)
  <2>1. HandleIs(a, "held") /\ handle'[a] = "held"
    BY <1>1, <1>4 DEF AcceptAnnounce, RegisterReturns, HandleIs
  <2>2. QED
    BY <1>4, <2>1, AnnounceMoves DEF AcceptAnnounce, RegisterReturns, Listed
<1>5. CASE RegistrationFails(a) \/ AbandonAnnounce(a)
  <2>1. HandleIs(a, "gone") /\ handle'[a] = "gone"
    BY <1>1, <1>5 DEF RegistrationFails, AbandonAnnounce, RegisterFails, AbandonRegister, HandleIs
  <2>2. QED
    BY <1>5, <2>1, AnnounceMoves
    DEF RegistrationFails, AbandonAnnounce, RegisterFails, AbandonRegister, Listed
<1>6. CASE EndAnnounce(a)
  BY <1>1, <1>6, AnnounceMoves DEF EndAnnounce, Listed
<1>7. CASE ReleaseRegistration(a)
  <2>1. HandleIs(a, "dropped") /\ handle'[a] = "dropped"
    BY <1>1, <1>7 DEF ReleaseRegistration, DropHandle, DropApiHandle, DropFileHandle, HandleIs
  <2>2. QED
    BY <1>7, <2>1, AnnounceMoves
    DEF ReleaseRegistration, DropHandle, DropApiHandle, DropFileHandle, Listed
<1>8. CASE FinishAnnounce(a)
  BY <1>1, <1>8, AnnounceMoves DEF FinishAnnounce
<1>9. QED
  BY <1>2, <1>3, <1>4, <1>5, <1>6, <1>7, <1>8, ServeAnnounceKeeps, UnlistKeeps DEF Consumes

\* The coordinators go on and the announcements are as they were.
LEMMA BackgroundKeepsA ==
    ASSUME AInv, Background, UNCHANGED annVars
    PROVE  AInv'
<1>1. UNCHANGED <<handle, home>>
  BY DEF Background, Requests, Refreshes, WriteFile, GetOrigin, SetOrigin, LoseCall, PatchGet,
         PatchExpire, PatchFails, DeleteOrigin, Expire, Tick, fixed
<1>2. QED
  BY <1>1 DEF annVars, AInv, AnnTypeOK, ServeAgrees, SlotsAreHeld, Listed, Slot, RelayOf,
              NamespaceOf

LEMMA CrashKeepsA ==
    ASSUME CoordinatorAssumption, CInv, AInv, NEW r \in Relays, Crash(r)
    PROVE  AInv'
<1>1. /\ handle' = [a \in Anns |-> IF a \in At(r) /\ handle[a] # "none" THEN "gone"
                                   ELSE handle[a]]
      /\ home' = home
      /\ local' = [local EXCEPT ![r] = [n \in Namespaces |-> NoAnn]]
      /\ ann' = [a \in Anns |-> IF a \in At(r) /\ ann[a] # "none" THEN "ended" ELSE ann[a]]
  BY DEF Crash, CrashOf, fixed
<1>2. AnnTypeOK'
  BY <1>1 DEF AInv, AnnTypeOK, AnnStates
<1>3. ServeAgrees'
  BY <1>1 DEF AInv, AnnTypeOK, ServeAgrees, CInv, CoordinatorTypeOK
<1>4. ASSUME NEW b \in Anns, Listed(b)' PROVE Slot(b)' = b
  <2>1. b \notin At(r) /\ Listed(b)
    BY <1>1, <1>4 DEF Listed, AInv, AnnTypeOK
  <2>2. RelayOf(b) # r /\ Slot(b) = b
    BY <2>1 DEF At, AInv, SlotsAreHeld
  <2>3. QED
    BY <1>1, <2>2, HomesTyped DEF Slot, RelayOf, NamespaceOf, AInv, AnnTypeOK, CInv
<1>5. QED
  BY <1>2, <1>3, <1>4 DEF AInv, SlotsAreHeld

-----------------------------------------------------------------------------
(* The Producer *)

\* One subscription moves, the others stay.
LEMMA MoveKeeps ==
    ASSUME SInv, NEW x \in Subs,
           NEW s \in {"idle", "barred", "asked", "found", "lookup", "served",
                      "notfound", "error", "stuck"},
           NEW r \in Relays, NEW via \in SUBSET (Relays \X Relays), NEW b \in Anns \cup {NoAnn},
           NEW as \in SUBSET Anns, Move(x, s, r, via, b, as),
           UNCHANGED <<home, annVars>>,
           via = {} => r = EntryOf[x],
           \A a \in as : /\ RelayOf(a) = EntryOf[x] /\ IsPrefixOf(NamespaceOf(a), RequestOf[x])
                         /\ ann[a] \notin {"none", "queued", "barred", "registering"},
           s = "notfound" => via = {},
           s = "found" => b # NoAnn,
           NamesHaveFields /\ s \in {"lookup", "notfound"} /\ via = {} /\ b = NoAnn =>
              \A a \in as : ann[a] # "serving"
    PROVE  SInv'
<1>1. SubTypeOK'
  BY DEF Move, SInv, SubTypeOK
<1>2. ASSUME NEW y \in Subs PROVE SubKnows(y)'
  <2>1. CASE y = x
    BY <2>1 DEF Move, SInv, SubTypeOK, SubKnows, annVars, RelayOf, NamespaceOf
  <2>2. CASE y # x
    BY <2>2 DEF Move, SInv, SubTypeOK, SubKnows, annVars, RelayOf, NamespaceOf
  <2>3. QED
    BY <2>1, <2>2
<1>3. QED
  BY <1>1, <1>2 DEF SInv

LEMMA StayKeeps ==
    ASSUME SInv, NEW x \in Subs, NEW s \in {"lookup", "notfound", "stuck"}, SubIs(x, s),
           UNCHANGED <<home, annVars>>,
           s = "notfound" => path[x] = {},
           NamesHaveFields /\ s \in {"lookup", "notfound"} /\ path[x] = {} /\ found[x] = NoAnn =>
              \A a \in covered[x] : ann[a] # "serving"
    PROVE  SInv'
<1>1. SubTypeOK'
  BY DEF SubIs, Move, SInv, SubTypeOK
<1>2. ASSUME NEW y \in Subs PROVE SubKnows(y)'
  <2>1. CASE y = x
    BY <2>1 DEF SubIs, Move, SInv, SubTypeOK, SubKnows, annVars, RelayOf, NamespaceOf
  <2>2. CASE y # x
    BY <2>2 DEF SubIs, Move, SInv, SubTypeOK, SubKnows, annVars, RelayOf, NamespaceOf
  <2>3. QED
    BY <2>1, <2>2
<1>3. QED
  BY <1>1, <1>2 DEF SInv

LEMMA SettleKeeps ==
    ASSUME RoutingAssumption, SInv, NEW x \in Subs,
           NEW s \in {"idle", "barred", "served", "error"}, Settle(x, s),
           UNCHANGED <<home, annVars>>
    PROVE  SInv'
<1>1. EntryOf[x] \in Relays
  BY DEF RoutingAssumption
<1>2. QED
  BY <1>1, MoveKeeps DEF Settle

\* The longest of names whose length is bounded is there.
LEMMA LongestExists ==
    ASSUME NEW names, NEW m \in Nat, names # {}, \A p \in names : Len(p) \in 0..m
    PROVE  Longest(names) # {}
<1> DEFINE Short == {m - Len(p) : p \in names}
<1>1. Short \subseteq Nat /\ Short # {}
  OBVIOUS
<1>2. PICK k \in Short : \A l \in Short : ~(<<l, k>> \in OpToRel(<, Nat))
  <2>1. IsWellFoundedOn(OpToRel(<, Nat), Nat)
    BY NatLessThanWellFounded, Zenon
  <2>2. QED
    BY <1>1, <2>1, WFMin, Zenon
<1>3. ASSUME NEW l \in Short PROVE ~(l < k)
  <2> SUFFICES ASSUME l < k PROVE FALSE
    OBVIOUS
  <2>1. <<l, k>> \in OpToRel(<, Nat)
    BY <1>1, Zenon DEF OpToRel
  <2>2. QED
    BY <1>2, <2>1
<1>4. PICK p \in names : k = m - Len(p)
  OBVIOUS
<1>5. ASSUME NEW q \in names PROVE Len(q) <= Len(p)
  <2>1. m - Len(q) \in Short
    OBVIOUS
  <2>2. ~(m - Len(q) < m - Len(p))
    BY <1>3, <1>4, <2>1
  <2>3. Len(q) \in Nat /\ Len(p) \in Nat
    OBVIOUS
  <2>4. QED
    BY <2>2, <2>3
<1>6. QED
  BY <1>5 DEF Longest

\* An origin is a relay, or none.
LEMMA OriginsTyped ==
    ASSUME CInv, NEW n PROVE Origins(n) \subseteq Relays \cup {NoRelay}
<1>1. Found(n) \subseteq Namespaces
  BY DEF Found, Registered, Longest
<1>2. QED
  BY <1>1 DEF Origins, CInv, CoordinatorTypeOK

\* A relay that finds no local tracks for what it was asked first has no publisher of it
\* that is serving.
LEMMA NothingMatches ==
    ASSUME CoordinatorAssumption, RoutingAssumption, CInv, AInv, SInv, NamesHaveFields,
           NEW x \in Subs, path[x] = {}, Longest(Matches(where[x], RequestOf[x])) = {},
           NEW a \in covered[x]
    PROVE  ann[a] # "serving"
<1> SUFFICES ASSUME ann[a] = "serving" PROVE FALSE
  OBVIOUS
<1>1. /\ a \in Anns /\ RelayOf(a) = where[x] /\ IsPrefixOf(NamespaceOf(a), RequestOf[x])
      /\ NamespaceOf(a) \in Namespaces
  BY HomesTyped DEF SInv, SubTypeOK, SubKnows, CInv
<1>2. local[where[x]][NamespaceOf(a)] # NoAnn
  BY <1>1 DEF AInv, SlotsAreHeld, Listed, Slot, RoutingAssumption
<1>3. NamespaceOf(a) \in Matches(where[x], RequestOf[x])
  BY <1>1, <1>2 DEF Matches, NamesHaveFields
<1>4. \A p \in Matches(where[x], RequestOf[x]) : Len(p) \in 0..Len(RequestOf[x])
  <2>1. Len(RequestOf[x]) \in Nat /\ \A p \in Namespaces : Len(p) \in Nat
    BY DEF NamesHaveFields
  <2>2. \A p \in Matches(where[x], RequestOf[x]) :
           p \in Namespaces /\ Len(p) <= Len(RequestOf[x])
    BY DEF Matches, IsPrefixOf
  <2>3. QED
    BY <2>1, <2>2
<1>5. Len(RequestOf[x]) \in Nat
  BY DEF NamesHaveFields
<1>6. QED
  BY <1>3, <1>4, <1>5, LongestExists

LEMMA RetrieveKeeps ==
    ASSUME CoordinatorAssumption, RoutingAssumption, CInv, AInv, SInv, NEW x \in Subs, Retrieve(x)
    PROVE  SInv'
<1>1. UNCHANGED <<home, annVars>>
  BY DEF Retrieve, coordinatorVars, fixed
<1>2. /\ where[x] \in Relays /\ path[x] \in SUBSET (Relays \X Relays)
      /\ found[x] \in Anns \cup {NoAnn} /\ covered[x] \in SUBSET Anns
      /\ path[x] = {} => where[x] = EntryOf[x]
      /\ \A a \in covered[x] :
            /\ RelayOf(a) = EntryOf[x] /\ IsPrefixOf(NamespaceOf(a), RequestOf[x])
            /\ ann[a] \notin {"none", "queued", "barred", "registering"}
  BY DEF SInv, SubTypeOK, SubKnows
<1>3. CASE Longest(Matches(where[x], RequestOf[x])) = {}
  <2>1. SubIs(x, "lookup")
    BY <1>3 DEF Retrieve
  <2>2. NamesHaveFields /\ path[x] = {} => \A a \in covered[x] : ann[a] # "serving"
    BY <1>3, NothingMatches
  <2>3. QED
    BY <1>1, <2>1, <2>2, StayKeeps
<1>4. CASE Longest(Matches(where[x], RequestOf[x])) # {}
  <2>1. PICK p \in Longest(Matches(where[x], RequestOf[x])) :
           Move(x, "found", where[x], path[x], local[where[x]][p], covered[x])
    BY <1>4 DEF Retrieve
  <2>2. local[where[x]][p] \in Anns /\ local[where[x]][p] # NoAnn
    BY <1>2, <2>1 DEF Longest, Matches, AInv, AnnTypeOK
  <2>3. QED
    BY <1>1, <1>2, <2>1, <2>2, MoveKeeps
<1>5. QED
  BY <1>3, <1>4

LEMMA AskKeeps ==
    ASSUME RoutingAssumption, SInv, NEW x \in Subs, Ask(x)
    PROVE  SInv'
<1>1. UNCHANGED <<home, annVars>>
  BY DEF Ask, coordinatorVars, fixed
<1>2. CASE Settle(x, "barred")
  BY <1>1, <1>2, SettleKeeps
<1>3. ASSUME NEW as, as = {a \in Anns : RelayOf(a) = EntryOf[x] /\ Provides(a, RequestOf[x])},
             Move(x, "asked", EntryOf[x], {}, NoAnn, as)
      PROVE  SInv'
  <2>1. EntryOf[x] \in Relays
    BY DEF RoutingAssumption
  <2>2. /\ as \in SUBSET Anns
        /\ \A a \in as : /\ RelayOf(a) = EntryOf[x] /\ IsPrefixOf(NamespaceOf(a), RequestOf[x])
                         /\ ann[a] \notin {"none", "queued", "barred", "registering"}
    BY <1>3 DEF Provides
  <2>3. QED
    BY <1>1, <1>3, <2>1, <2>2, MoveKeeps
<1>4. QED
  BY <1>2, <1>3 DEF Ask

LEMMA AskRemoteKeeps ==
    ASSUME CInv, SInv, NEW x \in Subs, AskRemote(x)
    PROVE  SInv'
<1>1. UNCHANGED <<home, annVars>> /\ sub[x] = "lookup"
  BY DEF AskRemote, coordinatorVars, fixed
<1>2. /\ where[x] \in Relays /\ path[x] \in SUBSET (Relays \X Relays)
      /\ found[x] \in Anns \cup {NoAnn} /\ covered[x] \in SUBSET Anns
      /\ path[x] = {} => where[x] = EntryOf[x]
      /\ \A a \in covered[x] :
            /\ RelayOf(a) = EntryOf[x] /\ IsPrefixOf(NamespaceOf(a), RequestOf[x])
            /\ ann[a] \notin {"none", "queued", "barred", "registering"}
  BY DEF SInv, SubTypeOK, SubKnows
<1>3. PICK q \in Origins(RequestOf[x]) \ {NoRelay} :
         IF <<where[x], q>> \in path[x] THEN SubIs(x, "stuck")
         ELSE Move(x, "asked", q, path[x] \cup {<<where[x], q>>}, NoAnn, covered[x])
  BY DEF AskRemote
<1>4. q \in Relays
  BY OriginsTyped
<1>5. CASE <<where[x], q>> \in path[x]
  BY <1>1, <1>3, <1>5, StayKeeps
<1>6. CASE <<where[x], q>> \notin path[x]
  <2> DEFINE via == path[x] \cup {<<where[x], q>>}
  <2>1. via \in SUBSET (Relays \X Relays) /\ via # {}
    <3>1. <<where[x], q>> \in via /\ <<where[x], q>> \in Relays \X Relays
      BY <1>2, <1>4
    <3>2. QED
      BY <1>2, <3>1
  <2>2. Move(x, "asked", q, via, NoAnn, covered[x])
    BY <1>3, <1>6
  <2> HIDE DEF via
  <2>3. QED
    <3>1. "asked" # "notfound" /\ "asked" # "found" /\ "asked" \notin {"lookup", "notfound"}
      OBVIOUS
    <3>2. NoAnn \in Anns \cup {NoAnn}
      OBVIOUS
    <3>3. QED
      BY <1>1, <1>2, <1>4, <2>1, <2>2, <3>1, <3>2, MoveKeeps, SMTT(60)
<1>7. QED
  BY <1>5, <1>6

LEMMA ProducerKeeps ==
    ASSUME CoordinatorAssumption, RoutingAssumption, CInv, AInv, SInv, NEW x \in Subs,
           Ask(x) \/ Produces(x) \/ SubscribeFails(x) \/ Leave(x)
    PROVE  SInv'
<1>1. CASE RejectSubscribe(x) \/ SubscribeFails(x) \/ Leave(x)
  BY <1>1, SettleKeeps DEF RejectSubscribe, SubscribeFails, Leave, coordinatorVars, fixed
<1>2. CASE SubscribeLocal(x) \/ NotFound(x)
  <2>1. /\ sub[x] = "found" => found[x] # NoAnn
        /\ NamesHaveFields /\ sub[x] = "lookup" /\ path[x] = {} /\ found[x] = NoAnn =>
              \A a \in covered[x] : ann[a] # "serving"
    BY DEF SInv, SubKnows
  <2>2. UNCHANGED <<home, annVars>>
    BY <1>2 DEF SubscribeLocal, NotFound, coordinatorVars, fixed
  <2>3. CASE \E s \in {"served", "error"} : Settle(x, s)
    BY <2>2, <2>3, SettleKeeps
  <2>4. CASE sub[x] = "found" /\ SubIs(x, "lookup")
    BY <2>1, <2>2, <2>4, StayKeeps
  <2>5. CASE sub[x] = "lookup" /\ path[x] = {} /\ SubIs(x, "notfound")
    BY <2>1, <2>2, <2>5, StayKeeps
  <2>6. QED
    BY <1>2, <2>3, <2>4, <2>5 DEF SubscribeLocal, NotFound
<1>3. QED
  BY <1>1, <1>2, AskKeeps, RetrieveKeeps, AskRemoteKeeps DEF Produces

\* Announcements that go on are as little of what covers a subscription as before.
LEMMA AnnouncingKeepsS ==
    ASSUME SInv, AInv, UNCHANGED <<home, subVars>>,
           \A a \in Anns : ann[a] \notin {"none", "queued", "barred", "registering"} =>
               /\ ann'[a] \notin {"none", "queued", "barred", "registering"}
               /\ ann'[a] = "serving" => ann[a] = "serving"
    PROVE  SInv'
<1>1. SubTypeOK'
  BY DEF SInv, SubTypeOK, subVars
<1>2. ASSUME NEW x \in Subs PROVE SubKnows(x)'
  <2>1. SubKnows(x) /\ covered[x] \in SUBSET Anns
    BY DEF SInv, SubTypeOK
  <2>2. QED
    BY <2>1 DEF SubKnows, subVars, RelayOf, NamespaceOf
<1>3. QED
  BY <1>1, <1>2 DEF SInv

LEMMA ConsumerKeepsS ==
    ASSUME SInv, AInv, NEW a \in Anns,
           Announce(a) \/ Consumes(a) \/ AbandonAnnounce(a) \/ EndAnnounce(a)
    PROVE  SInv'
<1> USE DEF coordinatorVars, fixed
<1>1. UNCHANGED subVars
  BY DEF Announce, Consumes, AbandonAnnounce, EndAnnounce, RejectAnnounce, ServeAnnounce,
         AcceptAnnounce, RegistrationFails, ReleaseRegistration, Unlist, FinishAnnounce
<1>2. home' = home
  BY DEF Announce, Consumes, AbandonAnnounce, EndAnnounce, RejectAnnounce, ServeAnnounce,
         AcceptAnnounce, RegistrationFails, ReleaseRegistration, Unlist, FinishAnnounce,
         Register, RegisterReturns, RegisterFails, AbandonRegister, DropHandle, DropApiHandle,
         DropFileHandle
<1>3. PICK s \in AnnStates :
         /\ AnnIs(a, s) /\ s \notin {"none"}
         /\ ann[a] \notin {"none", "queued", "barred", "registering"} =>
               s \in {"closing", "unlisting", "ending", "ended"}
  BY DEF Announce, Consumes, AbandonAnnounce, EndAnnounce, RejectAnnounce, ServeAnnounce,
         AcceptAnnounce, RegistrationFails, ReleaseRegistration, Unlist, FinishAnnounce, AnnStates
<1>4. QED
  BY <1>1, <1>2, <1>3, AnnouncingKeepsS DEF AnnIs, AInv, AnnTypeOK

\* A crash ends the announcements of the relay, and the subscriptions that pass it.
LEMMA CrashKeepsS ==
    ASSUME RoutingAssumption, SInv, AInv, NEW r \in Relays, Crash(r)
    PROVE  SInv'
<1>1. PICK hung \in SUBSET {x \in Subs : EntryOf[x] # r /\ path[x] # {} /\ Passes(x, r)} :
        LET lost == {x \in Subs : sub[x] # "idle" /\ Passes(x, r)} \ hung
        IN /\ sub' = [x \in Subs |-> IF x \in hung THEN "stuck"
                                     ELSE IF x \in lost THEN "error" ELSE sub[x]]
           /\ where' = [x \in Subs |-> IF x \in lost THEN EntryOf[x] ELSE where[x]]
           /\ path' = [x \in Subs |-> IF x \in lost THEN {} ELSE path[x]]
           /\ found' = [x \in Subs |-> IF x \in lost THEN NoAnn ELSE found[x]]
           /\ covered' = [x \in Subs |-> IF x \in lost THEN {} ELSE covered[x]]
  BY DEF Crash
<1> DEFINE lost == {x \in Subs : sub[x] # "idle" /\ Passes(x, r)} \ hung
<1>2. /\ home' = home
      /\ ann' = [a \in Anns |-> IF a \in At(r) /\ ann[a] # "none" THEN "ended" ELSE ann[a]]
      /\ sub' = [x \in Subs |-> IF x \in hung THEN "stuck"
                                ELSE IF x \in lost THEN "error" ELSE sub[x]]
      /\ where' = [x \in Subs |-> IF x \in lost THEN EntryOf[x] ELSE where[x]]
      /\ path' = [x \in Subs |-> IF x \in lost THEN {} ELSE path[x]]
      /\ found' = [x \in Subs |-> IF x \in lost THEN NoAnn ELSE found[x]]
      /\ covered' = [x \in Subs |-> IF x \in lost THEN {} ELSE covered[x]]
  BY <1>1 DEF Crash, CrashOf, fixed
<1>3. \A x \in hung : x \in Subs /\ x \notin lost /\ path[x] # {}
  BY <1>1
<1> HIDE DEF lost
<1>4. SubTypeOK'
  BY <1>2 DEF SInv, SubTypeOK, RoutingAssumption
<1>5. ASSUME NEW x \in Subs PROVE SubKnows(x)'
  <2>1. SubKnows(x) /\ covered[x] \in SUBSET Anns
    BY DEF SInv, SubTypeOK
  <2>2. CASE x \in lost
    BY <1>2, <1>3, <2>2 DEF SubKnows
  <2>3. CASE x \in hung
    BY <1>2, <1>3, <2>1, <2>3 DEF SubKnows, RelayOf, NamespaceOf
  <2>4. CASE x \notin lost /\ x \notin hung
    BY <1>2, <2>1, <2>4 DEF SubKnows, RelayOf, NamespaceOf
  <2>5. QED
    BY <2>2, <2>3, <2>4
<1>6. QED
  BY <1>4, <1>5 DEF SInv

-----------------------------------------------------------------------------
IInv == CInv /\ AInv /\ SInv

LEMMA InitIInv ==
    ASSUME CoordinatorAssumption, RoutingAssumption, RoutingInit PROVE IInv
<1>1. CInv
  <2>1. CoordinatorTypeOK
    BY DEF RoutingInit, Init, CoordinatorTypeOK, TimeToLive
  <2>2. CallsAgree /\ EntriesHaveOwners
    BY DEF RoutingInit, Init, CallsAgree, EntriesHaveOwners
  <2>3. QED
    BY <2>1, <2>2 DEF CInv
<1>2. AInv
  BY DEF RoutingInit, Init, AInv, AnnTypeOK, AnnStates, ServeAgrees, SlotsAreHeld, Listed
<1>3. SInv
  BY DEF RoutingInit, SInv, SubTypeOK, SubKnows, RoutingAssumption
<1>4. QED
  BY <1>1, <1>2, <1>3 DEF IInv

LEMMA NextIInv ==
    ASSUME CoordinatorAssumption, RoutingAssumption, IInv, [Next]_vars PROVE IInv'
<1>1. CASE UNCHANGED vars
  <2>1. CInv'
    BY <1>1 DEF vars, coordinatorVars, fixed, IInv, CInv, CoordinatorTypeOK, CallsAgree,
                EntriesHaveOwners, Owns, RelayOf, NamespaceOf
  <2>2. AInv'
    BY <1>1 DEF vars, coordinatorVars, fixed, annVars, IInv, AInv, AnnTypeOK, ServeAgrees,
                SlotsAreHeld, Listed, Slot, RelayOf, NamespaceOf
  <2>3. SInv'
    BY <1>1 DEF vars, coordinatorVars, fixed, annVars, subVars, IInv, SInv, SubTypeOK, SubKnows,
                RelayOf, NamespaceOf
  <2>4. QED
    BY <2>1, <2>2, <2>3 DEF IInv
<1>2. ASSUME NEW a \in Anns,
             Announce(a) \/ Consumes(a) \/ AbandonAnnounce(a) \/ EndAnnounce(a)
      PROVE  IInv'
  BY <1>2, ConsumerKeepsC, ConsumerKeepsA, ConsumerKeepsS DEF IInv
<1>3. ASSUME NEW x \in Subs, Ask(x) \/ Produces(x) \/ SubscribeFails(x) \/ Leave(x)
      PROVE  IInv'
  <2>1. UNCHANGED <<coordinatorVars, annVars>>
    BY <1>3 DEF Ask, Produces, SubscribeFails, Leave, RejectSubscribe, Retrieve, SubscribeLocal,
                NotFound, AskRemote
  <2>2. CInv'
    BY <2>1 DEF coordinatorVars, fixed, IInv, CInv, CoordinatorTypeOK, CallsAgree,
                EntriesHaveOwners, Owns, RelayOf, NamespaceOf
  <2>3. AInv'
    BY <2>1 DEF coordinatorVars, fixed, annVars, IInv, AInv, AnnTypeOK, ServeAgrees,
                SlotsAreHeld, Listed, Slot, RelayOf, NamespaceOf
  <2>4. QED
    BY <1>3, <2>2, <2>3, ProducerKeeps DEF IInv
<1>4. ASSUME NEW r \in Relays, Crash(r) PROVE IInv'
  <2>1. CInv'
    BY <1>4, CrashKeeps DEF Crash, At, IInv
  <2>2. QED
    BY <1>4, <2>1, CrashKeepsA, CrashKeepsS DEF IInv
<1>5. CASE Background /\ UNCHANGED <<annVars, subVars>>
  <2>1. CInv' /\ AInv'
    BY <1>5, BackgroundKeeps, BackgroundKeepsA DEF IInv
  <2>2. home' = home
    BY <1>5 DEF Background, Requests, Refreshes, WriteFile, GetOrigin, SetOrigin, LoseCall,
                PatchGet, PatchExpire, PatchFails, DeleteOrigin, Expire, Tick, fixed
  <2>3. SInv'
    BY <1>5, <2>2, AnnouncingKeepsS DEF IInv, annVars
  <2>4. QED
    BY <2>1, <2>3 DEF IInv
<1>6. QED
  BY <1>1, <1>2, <1>3, <1>4, <1>5 DEF Next

LEMMA InvariantHolds == Spec => []IInv
BY InitIInv, NextIInv, CoordinatorAssumption, RoutingAssumption, PTL DEF Spec

\* Every variable of the relays and of the coordinator they share has its type.
THEOREM TypeCorrect == Spec => []TypeOK
<1>1. IInv => TypeOK
  BY DEF IInv, CInv, AInv, SInv, AnnTypeOK, AnnStates, SubTypeOK, TypeOK
<1>2. QED
  BY <1>1, InvariantHolds, PTL

\* A relay that the coordinator names for a namespace provides it locally, unless the
\* registration is left over: whoever holds it, or waits for it, holds the slot too.
THEOREM EntriesAreServed == Spec => []EntryIsServed
<1>1. ASSUME IInv, NEW n \in Namespaces, store[n] # NoRelay,
             \A a \in At(store[n]) : ~(NamespaceOf(a) = n /\ LeftOver(a))
      PROVE  local[store[n]][n] # NoAnn
  <2>1. PICK a \in Anns : Owns(a, n)
    BY <1>1 DEF IInv, CInv, EntriesHaveOwners
  <2>2. handle[a] \notin {"gone", "dropped"}
    BY <1>1, <2>1 DEF Owns, LeftOver, At
  <2>3. handle[a] \in {"waiting", "held"}
    BY <1>1, <2>1, <2>2 DEF Owns, IInv, CInv, CallsAgree, CoordinatorTypeOK
  <2>4. Slot(a) = a
    BY <1>1, <2>3 DEF IInv, AInv, ServeAgrees, SlotsAreHeld, Listed
  <2>5. QED
    BY <2>1, <2>4, RoutingAssumption DEF Owns, Slot, RoutingAssumption
<1>2. IInv => EntryIsServed
  BY <1>1 DEF EntryIsServed
<1>3. QED
  BY <1>2, InvariantHolds, PTL

\* Whoever has an OK is routed to: no other announcement takes its slot or frees it.
THEOREM AcceptedAreRouted == Spec => []OkMeansRouted
<1>1. IInv => OkMeansRouted
  BY DEF IInv, AInv, SlotsAreHeld, Listed, OkMeansRouted
<1>2. QED
  BY <1>1, InvariantHolds, PTL

\* Who is told that a namespace is not found has not been passed by a publisher of it
\* that was serving before and still is; for namespaces that have a field.
THEOREM NotFoundHolds == ASSUME NamesHaveFields PROVE Spec => []NotFoundIsHonest
<1>1. IInv => NotFoundIsHonest
  BY NamesHaveFields DEF IInv, SInv, SubKnows, NotFoundIsHonest
<1>2. QED
  BY <1>1, InvariantHolds, PTL

\* What a step of an announcement does to the store with the api: nothing, its release
\* comes later.
LEMMA ConsumerLeavesStore ==
    ASSUME CoordinatorTypeOK, kind = "api", NEW a \in Anns,
           Announce(a) \/ Consumes(a) \/ AbandonAnnounce(a) \/ EndAnnounce(a)
    PROVE  store' = store
BY DEF Announce, Consumes, AbandonAnnounce, EndAnnounce, RejectAnnounce, ServeAnnounce,
       AcceptAnnounce, RegistrationFails, ReleaseRegistration, Unlist, FinishAnnounce, Register,
       RegisterReturns, RegisterFails, AbandonRegister, DropHandle, DropApiHandle,
       DropFileHandle, coordinatorVars

\* With the api no relay takes a namespace over from another: SET NX only fills what is
\* free, and the rest only removes.
THEOREM NothingIsTakenOver == Spec => NoTakeover
<1>1. ASSUME IInv, [Next]_vars, kind = "api", NEW n \in Namespaces, store[n] # NoRelay
      PROVE  store'[n] \in {store[n], NoRelay}
  <2>1. CASE store' = store
    BY <2>1
  <2>2. store \in [Namespaces -> Relays \cup {NoRelay}] /\ CoordinatorTypeOK
    BY <1>1 DEF IInv, CInv, CoordinatorTypeOK
  <2>3. ASSUME NEW a \in Anns, Requests(a) PROVE store' = store \/ (Put(a, RelayOf(a)) /\ Free(a))
    BY <1>1, <2>3 DEF Requests, WriteFile, GetOrigin, SetOrigin, LoseCall
  <2>4. ASSUME NEW a \in Anns, Put(a, RelayOf(a)), Free(a) PROVE store'[n] = store[n]
    BY <1>1, <2>2, <2>4 DEF Put, Free
  <2>5. ASSUME NEW a \in Anns, DeleteOrigin(a) PROVE store'[n] \in {store[n], NoRelay}
    BY <2>2, <2>5 DEF DeleteOrigin, Put
  <2>6. ASSUME NEW m \in Namespaces, Expire(m) PROVE store'[n] \in {store[n], NoRelay}
    BY <2>2, <2>6 DEF Expire
  <2>7. CASE Background
    <3>1. ASSUME NEW a \in Anns, Refreshes(a) PROVE store' = store
      BY <3>1 DEF Refreshes, PatchGet, PatchExpire, PatchFails
    <3>2. Tick => store' = store
      BY DEF Tick
    <3>3. QED
      BY <2>1, <2>3, <2>4, <2>5, <2>6, <2>7, <3>1, <3>2 DEF Background
  <2>8. ASSUME NEW r \in Relays, Crash(r) PROVE store' = store
    BY <1>1, <2>8 DEF Crash, CrashOf
  <2>9. ASSUME NEW a \in Anns,
               Announce(a) \/ Consumes(a) \/ AbandonAnnounce(a) \/ EndAnnounce(a)
        PROVE  store' = store
    BY <1>1, <2>2, <2>9, ConsumerLeavesStore
  <2>10. ASSUME NEW x \in Subs, Ask(x) \/ Produces(x) \/ SubscribeFails(x) \/ Leave(x)
         PROVE  store' = store
    BY <2>10 DEF Ask, Produces, SubscribeFails, Leave, RejectSubscribe, Retrieve, SubscribeLocal,
                 NotFound, AskRemote, coordinatorVars
  <2>11. UNCHANGED vars => store' = store
    BY DEF vars, coordinatorVars
  <2>12. QED
    BY <1>1, <2>1, <2>7, <2>8, <2>9, <2>10, <2>11 DEF Next
<1>2. ASSUME IInv, [Next]_vars
      PROVE  [kind = "api" => \A n \in Namespaces :
                 store[n] # NoRelay => store'[n] \in {store[n], NoRelay}]_vars
  BY <1>1, <1>2
<1>3. QED
  BY <1>2, InvariantHolds, PTL DEF Spec, NoTakeover
=============================================================================
