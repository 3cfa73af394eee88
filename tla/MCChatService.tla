---------------------------- MODULE MCChatService ----------------------------
(* Small instances of ChatService for TLC. *)
EXTENDS ChatService, TLC

CONSTANTS t1, t2, a, b, d, x

OneTask    == {t1}
TwoTasks   == {t1, t2}
ThreeUsers == {a, b, d}
OneStranger == {x}

\* A group chat of everybody, a private chat of two of the users and one
\* without members.
Seeds == << [is_group |-> TRUE, members |-> ThreeUsers],
            [is_group |-> FALSE, members |-> {a, d}],
            [is_group |-> FALSE, members |-> {}] >>

\* Tasks are interchangeable, and so are the two users of the seeded private chat.
Symmetry == {p @@ q : p \in Permutations(Tasks), q \in Permutations({a, d})}
=============================================================================
