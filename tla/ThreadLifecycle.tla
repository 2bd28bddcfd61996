-------------------------- MODULE ThreadLifecycle ---------------------------
(***************************************************************************)
(* What the scheduler promises about threads, whatever its data            *)
(* structures: at most one runs, a thread moves only along the edges of    *)
(* its life cycle, and the ready threads run in the order in which they    *)
(* became ready.                                                           *)
(***************************************************************************)
EXTENDS Naturals, Sequences

CONSTANT Threads

VARIABLES status,   \* each thread's stage of life
          ready     \* the ready threads, longest waiting first

Stage == {"absent", "ready", "running", "blocked", "gone"}

\* A blocked thread goes straight to running when it is woken by the exit of
\* the only thread that could run; it is gone when its interrupt slot is
\* taken by another waiter.
Edges == {<<"absent", "ready">>, <<"ready", "running">>,
          <<"running", "ready">>, <<"running", "blocked">>,
          <<"running", "gone">>, <<"blocked", "ready">>,
          <<"blocked", "running">>, <<"blocked", "gone">>}

Running == {t \in Threads : status[t] = "running"}

Init ==
  \E first \in Threads :
    /\ status = [t \in Threads |-> IF t = first THEN "ready" ELSE "absent"]
    /\ ready = <<first>>

\* The queue loses at most its head, which then runs, and grows only at its
\* end.
InOrder ==
  \E k \in {0, 1} :
    /\ k <= Len(ready)
    /\ k = 1 => status'[Head(ready)] = "running"
    /\ Len(ready) - k <= Len(ready')
    /\ \A i \in 1..(Len(ready) - k) : ready'[i] = ready[i + k]

Next ==
  /\ \A t \in Threads :
       \/ status'[t] = status[t]
       \/ <<status[t], status'[t]>> \in Edges
  /\ \A t, u \in Running' : t = u
  /\ InOrder

Spec == Init /\ [][Next]_<<status, ready>>
=============================================================================
