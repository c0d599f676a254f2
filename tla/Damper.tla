------------------------------- MODULE Damper -------------------------------
(***************************************************************************)
(* What damped memberships promise their readers: in every row an element  *)
(* joins only when it is being seen, leaves only after it was not seen for *)
(* Window, and is otherwise lost only when the row's memory is.            *)
(***************************************************************************)
EXTENDS Naturals

CONSTANTS Rows, Elements, Window

VARIABLES member,   \* [Rows -> SUBSET Elements] what the readers are told
          idle      \* [Rows -> [Elements -> 0..Window]] how long unseen

Unseen == [e \in Elements |-> Window]

Init == member = [r \in Rows |-> {}] /\ idle = [r \in Rows |-> Unseen]

\* A look at one row's world: the elements in s are there.
See(r, s) ==
    /\ member' = member
    /\ idle' = [idle EXCEPT ![r] = [e \in Elements |-> IF e \in s THEN 0 ELSE @[e]]]

\* Time passes for every row.
Elapse ==
    /\ member' = member
    /\ idle' = [r \in Rows |-> [e \in Elements |->
                    IF idle[r][e] < Window THEN idle[r][e] + 1 ELSE Window]]

\* The readers are told of a new membership of one row.
Update(r, m) ==
    /\ \A e \in member[r] \ m : idle[r][e] = Window
    /\ \A e \in m \ member[r] : idle[r][e] = 0
    /\ member' = [member EXCEPT ![r] = m]
    /\ idle' = idle

\* The memory of some rows is lost.
Forget(rs) ==
    /\ member' = [r \in Rows |-> IF r \in rs THEN {} ELSE member[r]]
    /\ idle' = [r \in Rows |-> IF r \in rs THEN Unseen ELSE idle[r]]

Next ==
    \/ \E r \in Rows, s \in SUBSET Elements : See(r, s) \/ Update(r, s)
    \/ Elapse
    \/ \E rs \in SUBSET Rows : Forget(rs)

Spec == Init /\ [][Next]_<<member, idle>>

=============================================================================
