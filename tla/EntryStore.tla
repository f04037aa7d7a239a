----------------------------- MODULE EntryStore -----------------------------
(***************************************************************************)
(* What multiplexing promises: a store of numbered entries per kind, one of *)
(* them active, of which the points are a window.  Every number has an      *)
(* entry; that the code makes some of them when they are first selected is   *)
(* not visible here.                                                       *)
(***************************************************************************)
EXTENDS Integers

CONSTANTS Kinds, Numbers, Contents  \* Contents[k]: what an entry of kind k may hold

VARIABLES store, active, window

vars == <<store, active, window>>

Fresh(k) ==
  /\ store[k] \in [Numbers[k] -> Contents[k]]
  /\ active[k] = 1
  /\ window[k] = store[k][1]

Init == \A k \in Kinds : Fresh(k)

\* Selecting an entry shows it, and changes no entry.
Select(k) ==
  \E n \in Numbers[k] :
    /\ active' = [active EXCEPT ![k] = n]
    /\ window' = [window EXCEPT ![k] = store[k][n]]
    /\ UNCHANGED store

\* Writing changes one point of the active entry, and shows it.
Write(k) ==
  \E p \in DOMAIN window[k], new \in Contents[k] :
    /\ DOMAIN new = DOMAIN window[k]
    /\ \A q \in DOMAIN new \ {p} : new[q] = window[k][q]
    /\ store' = [store EXCEPT ![k][active[k]] = new]
    /\ window' = [window EXCEPT ![k] = new]
    /\ UNCHANGED active

\* A new scenario replaces the entries of a kind.
Replace(k) ==
  /\ Fresh(k)'
  /\ \A j \in Kinds \ {k} : store'[j] = store[j] /\ active'[j] = active[j]
                            /\ window'[j] = window[j]

Next == \E k \in Kinds : Select(k) \/ Write(k) \/ Replace(k)

Spec == Init /\ [][Next]_vars
=============================================================================
