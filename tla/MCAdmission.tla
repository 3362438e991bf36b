----------------------------- MODULE MCAdmission -----------------------------
EXTENDS Admission, TLC

\* Each with the traffic that its regulators tell apart.
SmallConfigs ==
  {[regulators |-> <<"balancer", "limiter">>,
    utilizations |-> {0}, maxJobs |-> 1, maxTime |-> 2],
   [regulators |-> <<"governor">>,
    utilizations |-> {0, 2}, maxJobs |-> 0, maxTime |-> 2],
   [regulators |-> <<"pressure">>,
    utilizations |-> {0}, maxJobs |-> 2, maxTime |-> 0]}

SchedulerSymmetry == Permutations(Schedulers)
==============================================================================
