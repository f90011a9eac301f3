---------------------------- MODULE PortMapStore ----------------------------
(***************************************************************************)
(* What the port map promises its user: a table of PORTMAP_MAX places,     *)
(* held in memory and stored in flash.  A command fills one empty place    *)
(* of the table that is held, or empties one, and stores the result; an    *)
(* erasure empties what is stored; a restart holds what is stored.  (So a  *)
(* command after an erasure stores the whole table again, and one after a  *)
(* restart that could not read it stores nothing but its own rule.)        *)
(* PortMap.tla is shown to implement it.                                   *)
(***************************************************************************)
EXTENDS Naturals

CONSTANTS PORTMAP_MAX,  \* places in the table
          Requests,     \* the rules the user can ask for
          NoRule,       \* an empty place
          NvsReadFails  \* a restart may fail to read what is stored

VARIABLES stored, held

Places == 1..PORTMAP_MAX
Empty == [s \in Places |-> NoRule]

StoreTypeOK == /\ stored \in [Places -> Requests \cup {NoRule}]
               /\ held \in [Places -> Requests \cup {NoRule}]

StoreInit == stored = Empty /\ held = Empty

Loaded(T) == {T} \cup (IF NvsReadFails THEN {Empty} ELSE {})

\* A command, or a restart in the middle of it that still finds its change.
Change(s, e) == /\ stored' = [held EXCEPT ![s] = e]
                /\ held' \in Loaded(stored')

Add(s, r) == held[s] = NoRule /\ Change(s, r)
Remove(s) == held[s] # NoRule /\ Change(s, NoRule)

\* By a command or, with a restart, by the reset pin.
Erase == stored' = Empty /\ held' \in {held, Empty}

Reboot == stored' = stored /\ held' \in Loaded(stored)

StoreNext == \/ \E s \in Places : (\E r \in Requests : Add(s, r)) \/ Remove(s)
             \/ Erase
             \/ Reboot

StoreSpec == StoreInit /\ [][StoreNext]_<<stored, held>>
=============================================================================
