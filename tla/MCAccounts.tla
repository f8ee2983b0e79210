----------------------------- MODULE MCAccounts -----------------------------
(* Instances of Accounts for TLC. *)
EXTENDS Accounts, TLC

LowerCase == [s \in Spellings |-> IF s = "Ann" THEN "ann" ELSE s]

\* What the requests of a behaviour are about: names, passwords, permissions, portal
\* access, or the managers of properties.
VARIABLE agenda

Little ==
    [names |-> {"bob"}, passwords |-> {"p1"}, roles |-> {"admin"}, flags |-> {"yes"},
     patches |-> Patch({"bob"}, {"p1"}, {"admin"}, {}), removed |-> {}, tenants |-> {},
     properties |-> {}]

Agendas ==
    {[Little EXCEPT !.names = Spellings, !.patches = Patch(Spellings, {"p1"}, {"user"}, {})],
     [Little EXCEPT !.passwords = Passwords, !.roles = {"user"},
                    !.patches = Patch({"bob"}, Passwords, {}, {"no"})],
     [Little EXCEPT !.roles = {"admin", "user"}, !.flags = {"yes", "no"},
                    !.patches = Patch({}, {"p1"}, {"admin", "user"}, {"yes", "no"})],
     [Little EXCEPT !.removed = Users, !.tenants = Tenants],
     [Little EXCEPT !.roles = {"admin", "manager"}, !.removed = Users, !.properties = Properties,
                    !.patches = Patch({}, {"p1"}, {"admin", "manager"}, {})]}

AgendaInit == Init /\ agenda \in Agendas
AgendaSpec == AgendaInit /\ [][Work(agenda) /\ UNCHANGED agenda]_<<vars, agenda>>

Interchangeable == Permutations(Clients) \cup Permutations(Users \ {Admin}) \cup Permutations(Tenants)
=============================================================================
