-------------------------- MODULE CaptureEvidence --------------------------
(***************************************************************************)
(* What the capture store promises of a turn: it may be enriched until it  *)
(* is sealed, from then on it never changes, and the only thing Memory     *)
(* Core is ever told about it is its sealed content, once.                 *)
(***************************************************************************)
CONSTANTS Event, Content, Nothing

VARIABLES content, sealed, told

Init == /\ content \in [Event -> Content \cup {Nothing}]
        /\ sealed \subseteq {e \in Event : content[e] # Nothing}
        /\ told \in [Event -> Content \cup {Nothing}]
        /\ \A e \in Event : told[e] # Nothing => e \in sealed /\ told[e] = content[e]

Enrich(e) == /\ e \notin sealed
             /\ content'[e] \in Content
             /\ content' = [content EXCEPT ![e] = content'[e]]
             /\ UNCHANGED <<sealed, told>>

Seal(e) == /\ e \notin sealed /\ content[e] # Nothing
           /\ sealed' = sealed \cup {e}
           /\ UNCHANGED <<content, told>>

Tell(e) == /\ e \in sealed /\ told[e] = Nothing
           /\ told' = [told EXCEPT ![e] = content[e]]
           /\ UNCHANGED <<content, sealed>>

Next == \E e \in Event : Enrich(e) \/ Seal(e) \/ Tell(e)

Spec == Init /\ [][Next]_<<content, sealed, told>>
=============================================================================
