------------------------- MODULE MCAnomalyDetection -------------------------
EXTENDS AnomalyDetection

MCTasks == <<"memory", "tamper", "brute">>
MCSilent == {}
MCRepeats == {1, 2}

Switch(tasks) == [tasks -> {TRUE}] \cup [tasks -> {FALSE}]

\* Failed logins, failed logins and a fault, or events of the file monitor and faults.
MCBudgets ==
  { [messages |-> 3, kinds |-> Switch({"memory", "brute"}) \cup Switch({"brute"}),
     system |-> 3, tampers |-> 0, faults |-> 0],
    [messages |-> 2, kinds |-> Switch({"brute"}),
     system |-> 2, tampers |-> 0, faults |-> 1],
    [messages |-> 3, kinds |-> Switch({"memory", "tamper"}) \cup Switch({"tamper"}),
     system |-> 0, tampers |-> 2, faults |-> 2] }

=============================================================================
