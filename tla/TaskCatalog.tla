---------------------------- MODULE TaskCatalog ----------------------------
(***************************************************************************)
(* What the task service promises its clients about a task, as one table:  *)
(* an id is used once and a task settles once.  A volatile table loses no  *)
(* image, but a restart forgets it; in a table on disk an entry may be     *)
(* overwritten by an older one, yet a done task keeps an image that could  *)
(* already be seen.                                                        *)
(***************************************************************************)
CONSTANTS TaskIDs, Colors

VARIABLES volatile, catalog, used

cvars == <<volatile, catalog, used>>

Absent == [status |-> "none", images |-> {}, layout |-> FALSE]

Settled(id) == catalog[id].status \in {"done", "failed"}

(* Until then nobody but its creator has a task; on disk its first entry   *)
(* may have been lost.                                                     *)
Unsettled(id) == \/ catalog[id].status = "processing"
                 \/ ~volatile /\ id \in used /\ catalog[id] = Absent

CatalogInit == /\ volatile \in BOOLEAN
               /\ catalog = [id \in TaskIDs |-> Absent]
               /\ used = {}

Submit(id) == /\ id \notin used
              /\ used' = used \cup {id}
              /\ \/ catalog' = [catalog EXCEPT ![id].status = "processing"]
                 \/ ~volatile /\ UNCHANGED catalog

(* A finished task has the image of its first colour. *)
Complete(id, c) == /\ Unsettled(id)
                   /\ catalog' = [catalog EXCEPT ![id] = [status |-> "done", images |-> {c}, layout |-> @.layout]]
                   /\ UNCHANGED used

Reject(id) == /\ Unsettled(id)
              /\ catalog' = [catalog EXCEPT ![id].status = "failed"]
              /\ UNCHANGED used

(* Images can be added to a failed task too: its baseline may be there. *)
AddImage(id, c) == /\ Settled(id)
                   /\ catalog' = [catalog EXCEPT ![id].images = @ \cup {c}]
                   /\ UNCHANGED used

AddLayout(id) == /\ Settled(id)
                 /\ volatile
                 /\ catalog' = [catalog EXCEPT ![id].layout = TRUE]
                 /\ UNCHANGED used

(* On disk the entry that would settle the task may have been lost, too.   *)
Overwrite(id, S) == /\ ~volatile
                    /\ catalog[id] # Absent
                    /\ catalog[id].status = "done" => S \cap catalog[id].images # {}
                    /\ catalog' = [catalog EXCEPT ![id].images = S]
                    /\ UNCHANGED used

Forget == /\ volatile
          /\ catalog' = [id \in TaskIDs |-> Absent]
          /\ UNCHANGED used

CatalogNext == /\ \/ \E id \in TaskIDs : Submit(id) \/ Reject(id) \/ AddLayout(id)
                  \/ \E id \in TaskIDs, c \in Colors : Complete(id, c) \/ AddImage(id, c)
                  \/ \E id \in TaskIDs, S \in SUBSET Colors : Overwrite(id, S)
                  \/ Forget
               /\ UNCHANGED volatile

CatalogSpec == CatalogInit /\ [][CatalogNext]_cvars
=============================================================================
