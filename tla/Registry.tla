------------------------------- MODULE Registry -------------------------------
(***************************************************************************)
(* What a token contract promises about the tokens, and all of it: every   *)
(* token has one owner, and a token once frozen stays with its owner for   *)
(* ever.  Who may do what, and for how much, is not part of it.            *)
(***************************************************************************)
EXTENDS Storage

CONSTANTS TokenIds, Owners

VARIABLES ownerOf,   \* token id -> owner
          frozen     \* the ids of the frozen tokens

registryVars == <<ownerOf, frozen>>

Init == ownerOf = EmptyMap /\ frozen = {}

Create(id, a) ==
  /\ id \notin DOMAIN ownerOf
  /\ ownerOf' = Save(ownerOf, id, a)
  /\ UNCHANGED frozen

Move(id, a) ==
  /\ id \in DOMAIN ownerOf \ frozen
  /\ ownerOf' = [ownerOf EXCEPT ![id] = a]
  /\ UNCHANGED frozen

Destroy(id) ==
  /\ id \in DOMAIN ownerOf \ frozen
  /\ ownerOf' = Delete(ownerOf, id)
  /\ UNCHANGED frozen

Freeze(id) ==
  /\ id \in DOMAIN ownerOf \ frozen
  /\ frozen' = frozen \cup {id}
  /\ UNCHANGED ownerOf

Next ==
  \E id \in TokenIds :
    \/ \E a \in Owners : Create(id, a) \/ Move(id, a)
    \/ Destroy(id)
    \/ Freeze(id)

Spec == Init /\ [][Next]_registryVars
===============================================================================
