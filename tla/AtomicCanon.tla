----------------------------- MODULE AtomicCanon -----------------------------
(***************************************************************************)
(* What the market store promises its readers: one canonical register that *)
(* is replaced atomically by successors of its own value, and readers that *)
(* capture the register once and see every venue in the captured value.    *)
(* A reader that starts before anything was published has captured nothing *)
(* and re-reads the register for each venue.                               *)
(***************************************************************************)
CONSTANTS Venues,       \* exchanges whose frames one generation holds
          Readers,      \* reader operations
          Generations,  \* generation identities
          NoGen,        \* "CURRENT does not exist"
          Unread        \* a venue the reader has not read yet

VARIABLES canonical,  \* the generation every new reader captures
          history,    \* every generation that has been canonical
          parent,     \* what was canonical when a generation was published
          reading,    \* readers in the middle of an operation
          view,       \* the generation each reader captured
          seen        \* where each reader found each venue

vars == <<canonical, history, parent, reading, view, seen>>

Nothing == [v \in Venues |-> Unread]

Init ==
    /\ canonical = NoGen
    /\ history = {}
    /\ parent = [g \in Generations |-> NoGen]
    /\ reading = {}
    /\ view = [r \in Readers |-> NoGen]
    /\ seen = [r \in Readers |-> Nothing]

(* The only write: a fresh generation succeeds the canonical one. *)
Publish(g) ==
    /\ g \notin history
    /\ canonical' = g
    /\ history' = history \cup {g}
    /\ parent' = [parent EXCEPT ![g] = canonical]
    /\ UNCHANGED <<reading, view, seen>>

Begin(r) ==
    /\ r \notin reading
    /\ reading' = reading \cup {r}
    /\ view' = [view EXCEPT ![r] = canonical]
    /\ UNCHANGED <<canonical, history, parent, seen>>

Read(r, v) ==
    /\ r \in reading
    /\ seen[r][v] = Unread
    /\ seen' = [seen EXCEPT ![r][v] =
                    IF view[r] = NoGen THEN canonical ELSE view[r]]
    /\ UNCHANGED <<canonical, history, parent, reading, view>>

End(r) ==
    /\ r \in reading
    /\ reading' = reading \ {r}
    /\ view' = [view EXCEPT ![r] = NoGen]
    /\ seen' = [seen EXCEPT ![r] = Nothing]
    /\ UNCHANGED <<canonical, history, parent>>

Next ==
    \/ \E g \in Generations : Publish(g)
    \/ \E r \in Readers : Begin(r) \/ End(r) \/ \E v \in Venues : Read(r, v)

Spec == Init /\ [][Next]_vars
=============================================================================
