SPECIFICATION FairBudgetSpec
CONSTANTS
    worker = worker
    planner = planner
    wa = wa
    wb = wb
    pa = pa
    pb = pb
    ofTask = ofTask
    ofMission = ofMission
    Subjects = {worker, planner}
    Attempts = {worker}
    ReadOnly = {worker}
    Calls = {wa, wb, pa, pb}
    SubjectOf <- TurnOf
    ExecutorOf <- AgentOf
    Before <- CallsBefore
    Accounts = {ofTask, ofMission}
    Chain <- AccountsOf
    Limit <- TokenLimit
    Initial = 1
    Upper = 2
    Costs = {1, 3}
    MaxSlots = 1
    Workloads = {{worker}, {planner}}
    Lanes = {"legacy", "hierarchical"}
INVARIANTS NeverUndercounted BudgetInv
PROPERTY SlotComesBack
CHECK_DEADLOCK FALSE
