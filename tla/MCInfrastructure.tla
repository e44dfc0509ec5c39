-------------------------- MODULE MCInfrastructure --------------------------
(***************************************************************************)
(* Instance of Infrastructure: a store of replicas, with three requests    *)
(* and room for two; three units of work on two rows; the spans of a       *)
(* request; and the bundled modules of MCFramework. A behaviour is about   *)
(* one of the four.                                                        *)
(***************************************************************************)
EXTENDS Infrastructure, TLC

CONSTANTS x1, x2, x3, row1, row2

VARIABLE about

Op(op, row) == [op |-> op, row |-> row]

Works == {<<Op("update", row1), Op("update", row2)>>, <<Op("update", row2), Op("delete", row1)>>,
          <<Op("delete", row1), Op("add", row2)>>, <<Op("delete", row2)>>}

\* One request of each replica, or one unit of work of each service.
Alike == Permutations(Request)

\* The installations of MCFramework, which do not depend on its constants.
Cases == INSTANCE MCFramework WITH
    None <- NoValue, Installation <- {}, at <- turn

TheInstallations == Cases!Installations
OneVersion == ("v1" :> 1)
NoNetwork == <<>>
Drivers == {"aiosqlite", "asyncpg"}

-----------------------------------------------------------------------------
MCInit ==
    /\ about \in {"store", "units", "spans", "modules"}
    /\ Init /\ (about # "store" => rule = "quota")
    /\ Traces!Init /\ (about # "spans" => ~traced)
    /\ IF about = "units" THEN Services!Init
       ELSE /\ work = [u \in Unit |-> <<Op("delete", row2)>>]
            /\ rows = [row \in Row |-> Services!NoRow]
            /\ shared = FALSE
            /\ Services!Init
    /\ IF about = "modules" THEN Teaf!Init
       ELSE /\ installation = Cases!AloneAsItComes /\ down = {}
            /\ Teaf!Init

MCNext ==
    /\ UNCHANGED about
    /\ \/ about = "store" /\ Next /\ UNCHANGED <<servicesVars, tracesVars, teafVars>>
       \/ about = "units" /\ Services!Next /\ UNCHANGED <<vars, tracesVars, teafVars>>
       \/ about = "spans" /\ Traces!Next /\ UNCHANGED <<vars, servicesVars, teafVars>>
       \/ about = "modules" /\ Teaf!Next /\ UNCHANGED <<vars, servicesVars, tracesVars>>

MCSpec == MCInit /\ [][MCNext]_<<about, vars, servicesVars, tracesVars, teafVars>>
=============================================================================
