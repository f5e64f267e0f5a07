------------------------------ MODULE MCConsole ------------------------------
(* Console for TLC: commands are told apart only by where they stand.  The  *)
(* operator is on one of two tours: through lists of up to two records, or  *)
(* to the route picker, with one record and one option.                     *)
EXTENDS Console, TLC

VARIABLE tour

mcVars == <<vars, tour>>

Tours == {[sections |-> {"MAX Users", "Invites", "Delivery Queue"}, ids |-> {1, 2}],
          [sections |-> {"Routes", "Delivery Queue"}, ids |-> {1}]}

OnTour ==
    /\ model.section \in tour.sections \cup {None}
    /\ \A i \in DOMAIN model.rows : model.rows[i].kind = "record" => model.rows[i].id \in tour.ids

Symmetry == Permutations(Slots)

MCInit == Init /\ tour \in Tours
MCNext == Next /\ UNCHANGED tour /\ OnTour'
MCSpec == MCInit /\ [][MCNext]_mcVars
==============================================================================
