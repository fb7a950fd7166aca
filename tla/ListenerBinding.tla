---------------------------- MODULE ListenerBinding ----------------------------
(***************************************************************************)
(* What the falloff server promises its listeners, whatever its threads    *)
(* do: a connection claims one Mumble hash and keeps it; a hash is bound   *)
(* to at most one connection at a time; and the speaker states written to  *)
(* a connection are those computed for the hash it claimed.                *)
(* FalloffServer implements this specification.                            *)
(***************************************************************************)
CONSTANTS Conn, Hash, NoConn, NoHash

VARIABLES
    owner,    \* the hash each connection claimed, NoHash before it did
    bound,    \* the connection each hash is bound to, NoConn for none
    heard     \* the hashes whose speaker states each connection was sent

vars == <<owner, bound, heard>>

Init ==
    /\ owner = [c \in Conn |-> NoHash]
    /\ bound = [h \in Hash |-> NoConn]
    /\ heard = [c \in Conn |-> {}]

\* A connection says who it is, once.
Claim(c, h) ==
    /\ owner[c] = NoHash
    /\ owner' = [owner EXCEPT ![c] = h]
    /\ UNCHANGED <<bound, heard>>

\* A hash is bound to a connection that claimed it.
Bind(c) ==
    /\ owner[c] # NoHash
    /\ bound' = [bound EXCEPT ![owner[c]] = c]
    /\ UNCHANGED <<owner, heard>>

\* Some bindings end.
Release(H) ==
    /\ bound' = [h \in Hash |-> IF h \in H THEN NoConn ELSE bound[h]]
    /\ UNCHANGED <<owner, heard>>

\* A connection is sent the states of its own hash, and of no other.
Deliver(c) ==
    /\ owner[c] # NoHash
    /\ heard' = [heard EXCEPT ![c] = @ \cup {owner[c]}]
    /\ UNCHANGED <<owner, bound>>

Next ==
    \/ \E c \in Conn : (\E h \in Hash : Claim(c, h)) \/ Bind(c) \/ Deliver(c)
    \/ \E H \in SUBSET Hash : Release(H)

Spec == Init /\ [][Next]_vars
================================================================================
