----------------------------- MODULE MCRouting -----------------------------
(* Two announcements: both of a namespace at one relay, both of it at two     *)
(* relays, or one of a namespace and one, at the same relay, of one below it, *)
(* which is the one that is asked for.                                        *)
EXTENDS Routing

CONSTANTS r1, r2, a1, a2, x1

Live == <<"live">>
Camera == <<"live", "camera">>

Home(r, n) == [relay |-> r, namespace |-> n]
HomesOfTwo ==
    {[a \in {a1, a2} |-> IF a = a1 THEN Home(r1, Live) ELSE h] :
        h \in {Home(r1, Live), Home(r2, Live), Home(r1, Camera)}}

LiveAndCamera == {Live, Camera}
NothingRequested == <<>>
Requested == [x \in {x1} |-> Camera]
Entries == [x \in {x1} |-> r1]
=============================================================================
