----------------------------- MODULE MCReceipts -----------------------------
(* Instances of Receipts for TLC. *)
EXTENDS Receipts, TLC

\* One property and the global scope.
Property == "property"
TwoScopes == {Property, Global}
OneProperty == [p \in Payments |-> Property]

SharedBase == [n \in Names |-> IF n = "dir/a" THEN "a" ELSE n]

\* Who is at work: two clients, two managers, or one of each.
VARIABLE staff

Staffs ==
    {[clients |-> Clients, managers |-> {}], [clients |-> {}, managers |-> Managers]}
        \cup {[clients |-> {c}, managers |-> {m}] : c \in Clients, m \in Managers}

StaffedInit == ReceiptInit /\ staff \in Staffs
StaffedSpec ==
    /\ StaffedInit
    /\ [][ReceiptWork(staff.clients, staff.managers) /\ UNCHANGED staff]_<<allVars, staff>>

Interchangeable ==
    Permutations(Clients) \cup Permutations(Managers) \cup Permutations(Docs)
        \cup Permutations(Uploads) \cup Permutations(Templates)
=============================================================================
