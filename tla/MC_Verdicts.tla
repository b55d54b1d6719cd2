---------------------------- MODULE MC_Verdicts ----------------------------
(* Verdicts for TLC: the lists of endpoints. *)
EXTENDS Verdicts

Ep(pod, ready, n) == [pod |-> pod, ready |-> ready, addresses |-> n]

\* None; one with two addresses; some not ready; some nameless; enough to
\* exhaust the run's time, in one list for dual stack or one pod twice.
Lists ==
    {<<>>, <<Ep("p", "no", 1)>>, <<Ep("p", "yes", 2)>>,
     <<Ep("p", "no", 1), Ep("q", "unset", 1)>>,
     <<Ep(NoName, "yes", 1), Ep("q", "yes", 1)>>, <<Ep(NoName, "yes", 1)>>,
     <<Ep("p", "yes", 1), Ep(NoName, "yes", 1), Ep("q", "yes", 1)>>,
     <<Ep("p", "yes", 1), Ep("q", "yes", 2)>>,
     <<Ep("p", "yes", 1), Ep("q", "yes", 1), Ep("p", "yes", 1)>>}

=============================================================================
