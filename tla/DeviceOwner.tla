----------------------------- MODULE DeviceOwner ------------------------------
(***************************************************************************)
(* What an identity switch promises: the device key and the person that    *)
(* owns it change together, in one step, from one complete identity to     *)
(* another.  A device key that was given up never comes back, and no other *)
(* is ever revoked.  The promise is void from the moment a switch is asked *)
(* for while another one runs.  IdentitySwitch implements this with        *)
(* several files, a signer process and a journal.                          *)
(***************************************************************************)
CONSTANTS Device, Person

VARIABLES
    authority,  \* [device, owner]: the binding in force
    given,      \* device keys given up so far
    revoked,    \* device keys whose revocation is published
    void        \* two switches were asked for at the same time

Start(d, p) ==
    /\ authority = [device |-> d, owner |-> p]
    /\ given = {} /\ revoked = {}
    /\ void = FALSE

Switch(d, p) ==
    /\ d \notin given \cup {authority.device}
    /\ p # authority.owner
    /\ authority' = [device |-> d, owner |-> p]
    /\ given' = given \cup {authority.device}
    /\ UNCHANGED <<revoked, void>>

Revoke(d) ==
    /\ d \in given
    /\ revoked' = revoked \cup {d}
    /\ UNCHANGED <<authority, given, void>>

Overlap ==
    /\ void' = TRUE
    /\ UNCHANGED <<authority, given, revoked>>

Next ==
    \/ /\ ~void
       /\ \/ \E d \in Device, p \in Person : Switch(d, p)
          \/ \E d \in Device : Revoke(d)
          \/ Overlap
    \/ void /\ void' = TRUE

Spec ==
    /\ \E d \in Device, p \in Person : Start(d, p)
    /\ [][Next]_<<authority, given, revoked, void>>
===============================================================================
