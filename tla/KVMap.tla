------------------------------- MODULE KVMap -------------------------------
(***************************************************************************)
(* What a map promises its users: a finite dictionary.                     *)
(***************************************************************************)
CONSTANTS Keys, Values, Absent

VARIABLE dict

Init == dict = [k \in Keys |-> Absent]

Put(k, v) == dict' = [dict EXCEPT ![k] = v]

Delete(k) == dict' = [dict EXCEPT ![k] = Absent]

Next == \E k \in Keys : Delete(k) \/ \E v \in Values : Put(k, v)

Spec == Init /\ [][Next]_dict

=============================================================================
