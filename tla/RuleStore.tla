------------------------------ MODULE RuleStore ------------------------------
(***************************************************************************)
(* What the admin endpoint promises: an ordered list of named rules, with  *)
(* three edits.  An edit that is not acceptable is refused as a whole.     *)
(***************************************************************************)
EXTENDS SequencesExt

CONSTANTS Acceptable(_),   \* a spec that may be installed
          Edits            \* the edits clients ask for

VARIABLES store,   \* the specs in force, in order
          edit     \* the last edit done

Position(name) == {i \in DOMAIN store : store[i].name = name}

(* A whole document takes the place of the list. *)
Replace(e) == e.kind = "post" /\ store' = e.specs

(* A rule that is there is exchanged where it stands, a new one goes last. *)
Put(e) ==
  /\ e.kind = "put"
  /\ IF Position(e.name) = {} THEN store' = Append(store, e.spec)
     ELSE store' = [i \in DOMAIN store |-> IF i \in Position(e.name) THEN e.spec ELSE store[i]]

Delete(e) ==
  /\ e.kind = "delete" /\ Position(e.name) # {}
  /\ store' = SelectSeq(store, LAMBDA s : s.name # e.name)

Init == store = << >> /\ edit.kind = "none"

Next ==
  /\ edit' \in Edits
  /\ Replace(edit') \/ Put(edit') \/ Delete(edit')
  /\ \A i, j \in DOMAIN store' : store'[i].name = store'[j].name => i = j
  /\ \A i \in DOMAIN store' : Acceptable(store'[i])

Spec == Init /\ [][Next]_<<store, edit>>
=============================================================================
