------------------------------- MODULE Setup --------------------------------
(***************************************************************************)
(* The two messages that open a session (moq-transport/src/setup), the     *)
(* path of a connection and the choice of a version                        *)
(* (moq-transport/src/session/mod.rs).                                     *)
(***************************************************************************)
EXTENDS Messages

CONSTANTS
    Draft14,    \* Version::DRAFT_14
    MaxPath     \* Session::MAX_CONNECTION_PATH_LEN

SetupAssumption == {Draft14, MaxPath} \subseteq Nat \ {0}
ASSUME SetupAssumption

ClientType == 32
ServerType == 33
PathKey == 1
MaxRequestIdKey == 2

\* A setup message is its type, the length of its body, the body.
Unframe(b, at, expected, Body(_)) ==
    Then(DecodeVarInt(b, at), LAMBDA type, next :
        IF type # expected THEN Failed("InvalidMessage")
        ELSE Then(DecodeU16(b, next), LAMBDA length, body : Body(body)))

EncodeClient(client) ==
    Frame(ClientType, Both(EncodeVersions(client.versions), EncodeKeyValuePairs(client.params)))
DecodeClient(b, at) ==
    Unframe(b, at, ClientType, LAMBDA body :
        Then(DecodeVersions(b, body), LAMBDA versions, next :
             Map(DecodeKeyValuePairs(b, next),
                 LAMBDA params : [type |-> "Client", versions |-> versions, params |-> params])))

EncodeServer(server) ==
    Frame(ServerType, Both(EncodeVersion(server.version), EncodeKeyValuePairs(server.params)))
DecodeServer(b, at) ==
    Unframe(b, at, ServerType, LAMBDA body :
        Then(DecodeVersion(b, body), LAMBDA version, next :
             Map(DecodeKeyValuePairs(b, next),
                 LAMBDA params : [type |-> "Server", version |-> version, params |-> params])))

\* The largest version both know, 0 for none.
LargestCommon(ours, theirs) ==
    LET common == Range(ours) \cap Range(theirs)
    IN  IF common = {} THEN 0 ELSE CHOOSE v \in common : \A w \in common : w <= v

-----------------------------------------------------------------------------
(* Paths, as sequences of ASCII characters. *)

Slash == 47
Dot == 46
Percent == 37
NoPath == <<>>
InvalidPath == <<Percent>>

Trimmed(raw) ==
    LET kept == {i \in DOMAIN raw : raw[i] # Slash}
    IN  SubSeq(raw, 1, IF kept = {} THEN 0 ELSE CHOOSE i \in kept : \A j \in kept : j <= i)

\* What stands between two slashes of p, or after the last one.
Segments(p) ==
    LET ends == {i \in DOMAIN p : p[i] = Slash} \cup {Len(p) + 1}
    IN  {SubSeq(p, e[1] + 1, e[2] - 1) : e \in
            {e \in ends \X ends : e[1] < e[2] /\ \A k \in ends : ~(e[1] < k /\ k < e[2])}}

NormalizeConnectionPath(raw) ==
    IF raw = <<>> \/ raw = <<Slash>> THEN NoPath
    ELSE IF Len(raw) > MaxPath \/ Head(raw) # Slash THEN InvalidPath
    ELSE IF Trimmed(raw) # NoPath /\ \E s \in Segments(Trimmed(raw)) :
                Percent \in Range(s) \/ s \in {<<>>, <<Dot>>, <<Dot, Dot>>}
         THEN InvalidPath
         ELSE Trimmed(raw)
DecodeClientSetupPath(params) ==
    IF Find(params, PathKey) = 0 THEN NoPath
    ELSE NormalizeConnectionPath(params[Find(params, PathKey)].value.value)
=============================================================================
