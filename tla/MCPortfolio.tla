---------------------------- MODULE MCPortfolio ----------------------------
(* Instances of Portfolio for TLC. *)
EXTENDS Portfolio, TLC

CONSTANTS p1, p2, t1, t2, k1, k2, m1, m2

\* What the requests of a behaviour are about: the properties and their contracts, the
\* files of one property, or the documents of two contracts.
VARIABLE agenda

Agendas ==
    {[Everything EXCEPT !.properties = {p1}, !.tenants = {t1}, !.contracts = {k1}, !.docs = {}, !.collections = {}],
     [Everything EXCEPT !.users = {Admin, m1}, !.properties = {p1}, !.tenants = {}, !.contracts = Contracts,
                        !.removed = {k1} \cup Collections \cup Docs],
     [Everything EXCEPT !.users = {Admin, m1}, !.collections = {}, !.removed = {}]}

\* The first agenda starts with nothing.  The others start with what create_property,
\* assign_manager, create_tenant and create_contract lead to: the contract of the first
\* tenant on the first property and that of the second on the second.
Stocked(x) ==
    CASE x = p1 -> [NewRow("LIVE", None, None, None, None) EXCEPT !.manager_id = m1]
      [] x = p2 -> [NewRow("LIVE", None, None, None, None) EXCEPT !.manager_id = m2]
      [] x \in Tenants -> NewRow("LIVE", None, None, None, None)
      [] x = k1 -> NewRow("LIVE", p1, t1, None, None)
      [] x = k2 -> NewRow("LIVE", p2, t2, None, None)
      [] OTHER -> NoRow

AgendaInit ==
    /\ agenda \in Agendas
    /\ IF agenda.docs = {} THEN Init
       ELSE /\ db = [x \in Ids |-> Stocked(x)]
            /\ audit = {x \in Ids : Stocked(x) # NoRow}
            /\ tx = [c \in Clients |-> Idle]
            /\ raced = {}

AgendaSpec == AgendaInit /\ [][Work(agenda) /\ UNCHANGED agenda]_<<vars, agenda>>

Interchangeable == Permutations(Clients)
============================================================================
