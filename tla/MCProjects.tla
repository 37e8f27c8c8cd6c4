----------------------------- MODULE MCProjects -----------------------------
(***************************************************************************)
(* TLC instance of the project registry and its governance: two projects,  *)
(* a and b, room for a third, c, and a second spelling of b, bb.  b has a  *)
(* todo.  Between them the approved and the direct calls take b through    *)
(* every state and merge it into a.                                        *)
(***************************************************************************)
EXTENDS ProjectGovernance, TLC
CONSTANTS a, b, c, bb, t1

MCKey == [w \in Word |-> IF w = bb THEN b ELSE w]
Req(op, ref) == [op |-> op, ref |-> ref, to |-> None, name |-> None,
                 aliases |-> None, todo |-> None, mark |-> "none"]
MCProject(w) == [id |-> w, name |-> w, aliases |-> {}, state |-> "active",
                 into |-> None, todos |-> [t \in Todo |-> IF w = b THEN "pending" ELSE "none"]]
MCProjects0 == <<MCProject(a), MCProject(b)>>
MCProposal == {Req("delete", b), Req("archive", b), Req("unarchive", b),
               [Req("update", bb) EXCEPT !.aliases = {c}],
               [Req("create", c) EXCEPT !.aliases = {b}]}
MCDirect == {[Req("merge", bb) EXCEPT !.to = a], Req("delete", bb),
             [Req("add-todo", a) EXCEPT !.todo = t1, !.mark = "pending"],
             [Req("set-todo", c) EXCEPT !.todo = t1, !.mark = "done"]}
MCRequest == MCProposal \cup MCDirect
=============================================================================
