------------------------------ MODULE Navigation ------------------------------
(*
What the pages of the workspace share: one of them is mounted at a time. Leaving
a page drops its state, and an answer that arrives later reaches nobody.
*)
EXTENDS UseAsync, Contracts

VARIABLE view   \* the mounted page: its name under "at", and its state

\* A step of the mounted page.
Becomes(page) ==
    /\ view' = page
    /\ UNCHANGED clientVars

\* How a call may end for a page, which draws every failure alike: in demo mode
\* with the fixtures, otherwise with what the server answers or with an error.
Results(data) ==
    IF useDemoData THEN {Result(data)} ELSE {Result(data), ApiError("TIMEOUT")}
=============================================================================
