-------------------------- MODULE MemoryLifecycle --------------------------
(***************************************************************************)
(* What the store promises about one memory, whatever the handlers, the    *)
(* boot backfill and the re-embed passes do at the same time: a memory is  *)
(* created once, with or without an embedding; a missing embedding may be  *)
(* filled in and is never taken away again; a deleted memory never comes   *)
(* back ("This is irreversible", internal/memory/repository.go:256).       *)
(***************************************************************************)
CONSTANT Ids

VARIABLE status

Status == {"unborn", "plain", "embedded", "deleted"}

Become(i, s) == status' = [status EXCEPT ![i] = s]

\* add_memory commits: with a vector, or with a NULL embedding.
Create(i) == status[i] = "unborn" /\ (Become(i, "plain") \/ Become(i, "embedded"))

\* A backfill or re-embed writes the missing vector.
FillIn(i) == status[i] = "plain" /\ Become(i, "embedded")

\* delete_memory commits.
Remove(i) == status[i] \in {"plain", "embedded"} /\ Become(i, "deleted")

LifeInit == status \in [Ids -> Status]

LifeNext == \E i \in Ids : Create(i) \/ FillIn(i) \/ Remove(i)

LifeSpec == LifeInit /\ [][LifeNext]_status
=============================================================================
