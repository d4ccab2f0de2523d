------------------------------ MODULE MCStation ------------------------------
(* One station in three settings: orders change, crates come and go, a screen *)
(* looks at the camera.                                                       *)
EXTENDS Station, TLC

CONSTANTS c1, c2

MCBudget(orders, stages, items, moves, views, failures, restarts) ==
    [orders |-> orders, stages |-> stages, items |-> items, moves |-> moves,
     views |-> views, failures |-> failures, restarts |-> restarts]

\* Orders that meet changes of stage or of the master data; crates that come
\* and go, alone or with a change of stage or with failures; a live view.
MCBudgets == {MCBudget(1, 1, 0, 0, 0, 0, 0), MCBudget(1, 0, 2, 0, 0, 0, 0),
              MCBudget(1, 0, 0, 0, 0, 1, 1), MCBudget(0, 0, 0, 4, 0, 0, 0),
              MCBudget(0, 1, 0, 2, 0, 0, 0), MCBudget(0, 0, 0, 2, 0, 1, 1),
              MCBudget(0, 0, 0, 0, 2, 1, 1), MCBudget(0, 0, 0, 0, 1, 2, 0),
              MCBudget(0, 1, 0, 0, 1, 1, 0),
              MCBudget(0, 0, 0, 0, 3, 0, 0), MCBudget(0, 0, 0, 1, 2, 0, 0)}
=============================================================================
